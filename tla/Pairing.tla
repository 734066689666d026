------------------------------- MODULE Pairing -------------------------------
(***************************************************************************)
(* Saved computers of NiriBridge (src/src/pairing.rs): how a configuration *)
(* keeps the certificate and the settings of every computer it was paired  *)
(* with, selects one of them, and migrates the older kind that knew one.   *)
(*                                                                         *)
(* A computer stands for its certificate and for the fingerprint of that   *)
(* certificate; two computers may have the same name.  The values of a     *)
(* configuration outside paired_devices (the ones the service works with)  *)
(* are its current profile.  A certificate file holds a computer, or is    *)
(* missing or damaged; a saved computer's file is named by its fingerprint.*)
(* Comments and layout of the TOML file, and which validation failed, are  *)
(* left out.                                                               *)
(***************************************************************************)
CONSTANTS
    Computers,   \* the other computers
    NameOf,      \* the name in the certificate of each
    Layouts,     \* lists of edges
    DefaultOf    \* a layout cut to its first edge, with the id "default"

Legacy == "peer.pem"
Paths  == Computers \cup {Legacy}

ASSUME PairingAssumption ==
    /\ Computers \cap {Legacy, "missing", "damaged"} = {}
    /\ DefaultOf \in [Layouts -> Layouts]

Connections == {"listen", "connect"}

Profiles(names) == [name : names, path : Paths,
                    connection : Connections, edges : Layouts]

-----------------------------------------------------------------------------
Saved(c) == DOMAIN c.paired

\* validate: the current profile is one of the saved ones.
Valid(c) ==
    Saved(c) # {} =>
        \E f \in Saved(c) : /\ c.paired[f].path = c.current.path
                            /\ c.paired[f].name = c.current.name

Selected(c) == CHOOSE f \in Saved(c) : c.paired[f].path = c.current.path

\* Mutant: the settings of the selected computer are only in the current profile.
Synced_Never(c) == c

\* sync_selected: the current settings belong to the selected computer.
Synced(c) ==
    IF Saved(c) = {} THEN c
    ELSE [c EXCEPT !.paired[Selected(c)].connection = c.current.connection,
                   !.paired[Selected(c)].edges      = c.current.edges]

\* selected_certificate: what TLS may trust; "none" refuses to start.
Certificate(c, files) ==
    LET found == files[c.current.path] IN
    IF found \in Computers /\ (Saved(c) = {} \/ found = Selected(c))
    THEN found ELSE "none"

\* checked_certificate.
Checked(c, files, f) ==
    files[c.paired[f].path] = f /\ c.paired[f].name = NameOf[f]

\* stored_certificate: an intact copy is kept, another one is replaced only to
\* repair it.
Storable(files, f, repair) == files[f] \in {f, "missing"} \/ repair
Stored(files, f) == [files EXCEPT ![f] = f]

\* activate and select.
Selectable(c, files, f) == f \in Saved(c) /\ Checked(c, files, f)
Activated(c, f) == [c EXCEPT !.current = c.paired[f]]

\* add, when only one computer was known: it becomes the first saved one.
Migrates(c, files)   == Saved(c) = {} /\ files[c.current.path] # "missing"
Known(c, files)      == files[c.current.path]
Migratable(c, files, f) ==
    Migrates(c, files) =>
        /\ Known(c, files) \in Computers
        /\ Storable(files, Known(c, files), Known(c, files) = f)
Migrated(c, files) ==
    IF ~Migrates(c, files) THEN c
    ELSE LET g == Known(c, files)
             first == [c.current EXCEPT !.name = NameOf[g], !.path = g]
         IN  [current |-> first, paired |-> [h \in {g} |-> first]]
FilesMigrated(c, files) ==
    IF Migrates(c, files) THEN Stored(files, Known(c, files)) ELSE files

\* add, for the computer that is imported: a new one is selected only if there
\* is no other.
First(c) == Saved(c) = {}
NewProfile(c, f) ==
    [name       |-> NameOf[f],
     path       |-> f,
     connection |-> IF First(c) THEN c.current.connection ELSE "listen",
     edges      |-> IF First(c) THEN c.current.edges ELSE DefaultOf[c.current.edges]]
Joined(c, f) ==
    IF f \in Saved(c) THEN c
    ELSE [current |-> IF First(c) THEN NewProfile(c, f) ELSE c.current,
          paired  |-> [g \in Saved(c) \cup {f} |->
                          IF g = f THEN NewProfile(c, f) ELSE c.paired[g]]]

FilesAdded(c, files, f) == Stored(FilesMigrated(c, files), f)
Addable(c, files, f) ==
    /\ Migratable(c, files, f)
    /\ f \in Saved(Migrated(c, files))
           => Checked(Migrated(c, files), FilesAdded(c, files, f), f)
Added(c, files, f) == Joined(Migrated(c, files), f)

-----------------------------------------------------------------------------
\* The configurations the program makes: the older kind, and the kind with
\* saved computers, one of them current.
Configurations(names) ==
    [current : Profiles(names),
     paired  : UNION {[F -> Profiles(names)] : F \in SUBSET Computers}]

WellFormed(c) ==
    /\ \A f \in Saved(c) : c.paired[f].path = f /\ c.paired[f].name = NameOf[f]
    /\ IF Saved(c) = {} THEN c.current.path = Legacy
       ELSE c.current.path \in Saved(c) /\ c.current.name = NameOf[c.current.path]

=============================================================================
