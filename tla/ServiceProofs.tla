---------------------------- MODULE ServiceProofs ----------------------------
(***************************************************************************)
(* What holds of Service for any computers, layouts, services, clients and *)
(* bounds: one service trusts the selected computer, and saved computers   *)
(* are kept.                                                               *)
(***************************************************************************)
EXTENDS Service, TLAPS

Names  == {NameOf[f] : f \in Computers} \cup {"unpaired"}
Config == Configurations(Names)

\* Where a service holds no lock, and where it has not bound a certificate yet.
Outside == {"stopped", "restarting", "failed", "launched"}
Early   == {"guarded", "serving", "reread"}
Late    == {"ready", "paused", "trying", "connected", "waiting"}

-----------------------------------------------------------------------------
(* The inductive invariant *)

Typed ==
    /\ cfg \in Config /\ WellFormed(cfg)
    /\ files \in [Paths -> Computers \cup {"missing", "damaged"}]
    /\ pc \in [Instances -> Outside \cup Early \cup Late]
    /\ conf \in [Instances -> Config \cup {NoView}]
    /\ trust \in [Instances -> Computers \cup {"none"}]

\* The lock holders: a service that is past its first lock, and a choice.
Locked ==
    /\ \A i \in Instances : pc[i] \notin Outside => running = i
    /\ choosing # "idle" => running = Chooser

\* A certificate is bound late, and is the chosen one.
Trusting ==
    \A i \in Instances :
        trust[i] # "none" =>
            pc[i] \in Late /\ trust[i] \in Computers /\ trust[i] = Chosen

\* A configuration that was read under the lock still says who is chosen.
Agrees(c) ==
    /\ c \in Config /\ WellFormed(c)
    /\ Saved(c) # {} => Saved(cfg) # {} /\ cfg.current.path = c.current.path
    /\ Saved(c) = {} /\ files[Legacy] \in Computers => Chosen = files[Legacy]

Current == \A i \in Instances : pc[i] = "reread" => Agrees(conf[i])

IInv == Typed /\ Locked /\ Trusting /\ Current

-----------------------------------------------------------------------------
(* Configurations *)

LEMMA PathsDiffer == Legacy \notin Computers
BY PairingAssumption DEF PairingAssumption, Legacy

\* The selected computer is the one the current certificate belongs to.
LEMMA SelectedIs ==
    ASSUME NEW c \in Config, WellFormed(c), Saved(c) # {}
    PROVE  /\ Selected(c) = c.current.path /\ c.current.path \in Saved(c)
           /\ c.current.path \in Computers
<1>1. c.current.path \in Saved(c) /\ \A f \in Saved(c) : c.paired[f].path = f
  BY DEF WellFormed
<1>2. Selected(c) \in Saved(c) /\ c.paired[Selected(c)].path = c.current.path
  BY <1>1 DEF Selected
<1>3. Saved(c) \subseteq Computers
  BY DEF Config, Configurations, Saved
<1> QED
  BY <1>1, <1>2, <1>3

\* The parts of a configuration.
LEMMA ConfigParts ==
    ASSUME NEW c
    PROVE  c \in Config <=>
              /\ c = [current |-> c.current, paired |-> c.paired]
              /\ c.current \in Profiles(Names)
              /\ Saved(c) \subseteq Computers
              /\ c.paired \in [Saved(c) -> Profiles(Names)]
BY DEF Config, Configurations, Saved

\* What sync_selected leaves as it was.
LEMMA SyncedKeeps ==
    ASSUME NEW c \in Config, WellFormed(c)
    PROVE  /\ Synced(c) \in Config /\ WellFormed(Synced(c))
           /\ Saved(Synced(c)) = Saved(c)
           /\ Synced(c).current = c.current
           /\ \A f \in Saved(c) :
                 /\ Synced(c).paired[f].path = c.paired[f].path
                 /\ Synced(c).paired[f].name = c.paired[f].name
                 /\ f # c.current.path => Synced(c).paired[f] = c.paired[f]
                 /\ f = c.current.path =>
                       /\ Synced(c).paired[f].connection = c.current.connection
                       /\ Synced(c).paired[f].edges = c.current.edges
<1>1. CASE Saved(c) = {}
  BY <1>1 DEF Synced
<1>2. CASE Saved(c) # {}
  <2> DEFINE s == c.current.path
             profile == [c.paired[s] EXCEPT !.connection = c.current.connection,
                                            !.edges = c.current.edges]
             paired == [c.paired EXCEPT ![s] = profile]
  <2>1. Selected(c) = s /\ s \in Saved(c)
    BY <1>2, SelectedIs
  <2>2. /\ c = [current |-> c.current, paired |-> c.paired]
        /\ c.current \in Profiles(Names) /\ Saved(c) \subseteq Computers
        /\ c.paired \in [Saved(c) -> Profiles(Names)]
    BY ConfigParts
  <2>3. Synced(c) = [current |-> c.current, paired |-> paired]
    BY <1>2, <2>1, <2>2 DEF Synced
  <2>4. /\ profile \in Profiles(Names)
        /\ profile.path = c.paired[s].path /\ profile.name = c.paired[s].name
        /\ profile.connection = c.current.connection
        /\ profile.edges = c.current.edges
    BY <2>1, <2>2 DEF Profiles
  <2> HIDE DEF profile
  <2>5. paired \in [Saved(c) -> Profiles(Names)]
    BY <2>1, <2>2, <2>4
  <2>6. \A f \in Saved(c) : paired[f] = IF f = s THEN profile ELSE c.paired[f]
    BY <2>1, <2>2
  <2> HIDE DEF paired
  <2>7. Saved(Synced(c)) = Saved(c) /\ Synced(c).current = c.current
        /\ Synced(c).paired = paired
    BY <2>3, <2>5 DEF Saved
  <2>8. Synced(c) \in Config
    BY <2>2, <2>3, <2>5, <2>7, ConfigParts
  <2>9. WellFormed(Synced(c))
    BY <1>2, <2>1, <2>4, <2>6, <2>7 DEF WellFormed
  <2> QED
    BY <2>4, <2>6, <2>7, <2>8, <2>9
<1> QED
  BY <1>1, <1>2

\* Profiles with the same entries are one profile.
LEMMA SameProfile ==
    ASSUME NEW p \in Profiles(Names), NEW q \in Profiles(Names),
           p.name = q.name, p.path = q.path,
           p.connection = q.connection, p.edges = q.edges
    PROVE  p = q
BY DEF Profiles

\* What an import makes of a configuration.
LEMMA AddedKeeps ==
    ASSUME NEW c \in Config, WellFormed(c), NEW f \in Computers,
           files \in [Paths -> Computers \cup {"missing", "damaged"}],
           Addable(c, files, f)
    PROVE  /\ Added(c, files, f) \in Config /\ WellFormed(Added(c, files, f))
           /\ Saved(Added(c, files, f)) # {}
           /\ \A g \in Saved(c) : /\ g \in Saved(Added(c, files, f))
                                  /\ Added(c, files, f).paired[g] = c.paired[g]
           /\ Saved(c) # {} => Added(c, files, f).current = c.current
           /\ Saved(c) = {} /\ files[Legacy] \in Computers
                 => Added(c, files, f).current.path = files[Legacy]
<1> DEFINE d == Migrated(c, files)
<1>1. /\ d \in Config /\ WellFormed(d)
      /\ Saved(c) # {} => d = c
      /\ Saved(c) = {} /\ files[Legacy] \in Computers
            => Saved(d) # {} /\ d.current.path = files[Legacy]
  <2>1. CASE ~Migrates(c, files)
    <3>1. d = c
      BY <2>1 DEF Migrated
    <3>2. Saved(c) = {} => files[Legacy] = "missing"
      BY <2>1 DEF Migrates, WellFormed
    <3> QED
      BY <3>1, <3>2, PairingAssumption DEF PairingAssumption
  <2>2. CASE Migrates(c, files)
    <3> DEFINE g == files[c.current.path]
               first == [c.current EXCEPT !.name = NameOf[g], !.path = g]
               paired == [h \in {g} |-> first]
    <3>1. Saved(c) = {} /\ c.current.path = Legacy
      BY <2>2 DEF Migrates, WellFormed
    <3>2. g \in Computers
      BY <2>2 DEF Addable, Migratable, Known
    <3>3. d = [current |-> first, paired |-> paired]
      BY <2>2 DEF Migrated, Known
    <3>4. c.current \in Profiles(Names)
      BY ConfigParts
    <3>5. first \in Profiles(Names) /\ first.path = g /\ first.name = NameOf[g]
      BY <3>2, <3>4 DEF Profiles, Names, Paths
    <3> HIDE DEF g, first
    <3>6. Saved(d) = {g} /\ d.current = first /\ d.paired = paired
      BY <3>3 DEF Saved
    <3>7. d \in Config
      BY <3>2, <3>3, <3>5, <3>6, ConfigParts
    <3>8. WellFormed(d)
      BY <3>5, <3>6 DEF WellFormed
    <3> QED
      BY <3>1, <3>5, <3>6, <3>7, <3>8 DEF g
  <2> QED
    BY <2>1, <2>2
<1> HIDE DEF d
<1>2. \A g \in Saved(c) : g \in Saved(d) /\ d.paired[g] = c.paired[g]
  BY <1>1
<1>3. /\ Joined(d, f) \in Config /\ WellFormed(Joined(d, f))
      /\ Saved(Joined(d, f)) = Saved(d) \cup {f}
      /\ \A g \in Saved(d) : Joined(d, f).paired[g] = d.paired[g]
      /\ Saved(d) # {} => Joined(d, f).current = d.current
  <2>1. CASE f \in Saved(d)
    BY <1>1, <2>1 DEF Joined
  <2>2. CASE f \notin Saved(d)
    <3> DEFINE new == NewProfile(d, f)
               current == IF First(d) THEN new ELSE d.current
               paired == [g \in Saved(d) \cup {f} |-> IF g = f THEN new ELSE d.paired[g]]
    <3>1. Joined(d, f) = [current |-> current, paired |-> paired]
      BY <2>2 DEF Joined
    <3>2. /\ d.current \in Profiles(Names) /\ Saved(d) \subseteq Computers
          /\ d.paired \in [Saved(d) -> Profiles(Names)]
      BY <1>1, ConfigParts
    <3>3. /\ d.current.connection \in Connections /\ d.current.edges \in Layouts
      BY <3>2 DEF Profiles
    <3>4. DefaultOf[d.current.edges] \in Layouts
      BY <3>3, PairingAssumption DEF PairingAssumption
    <3>5. new \in Profiles(Names) /\ new.path = f /\ new.name = NameOf[f]
      BY <3>3, <3>4 DEF NewProfile, Profiles, Names, Paths, Connections
    <3> HIDE DEF new
    <3>6. /\ current \in Profiles(Names)
          /\ paired \in [Saved(d) \cup {f} -> Profiles(Names)]
          /\ \A g \in Saved(d) : paired[g] = d.paired[g]
          /\ paired[f] = new
      BY <2>2, <3>2, <3>5
    <3> HIDE DEF paired
    <3>7. /\ Saved(Joined(d, f)) = Saved(d) \cup {f}
          /\ Joined(d, f).current = current /\ Joined(d, f).paired = paired
      BY <3>1, <3>6 DEF Saved
    <3>8. Joined(d, f) \in Config
      BY <3>1, <3>2, <3>6, <3>7, ConfigParts
    <3>9. WellFormed(Joined(d, f))
      BY <1>1, <3>5, <3>6, <3>7 DEF WellFormed, First
    <3> QED
      BY <3>6, <3>7, <3>8, <3>9 DEF First
  <2> QED
    BY <2>1, <2>2
<1> QED
  BY <1>1, <1>2, <1>3 DEF Added, d

\* The certificate files an import writes.
LEMMA FilesKept ==
    ASSUME NEW c \in Config, NEW f \in Computers,
           files \in [Paths -> Computers \cup {"missing", "damaged"}],
           Migratable(c, files, f),
           NEW written \in {FilesMigrated(c, files), FilesAdded(c, files, f)}
    PROVE  /\ written \in [Paths -> Computers \cup {"missing", "damaged"}]
           /\ written[Legacy] = files[Legacy]
<1>1. \A t \in [Paths -> Computers \cup {"missing", "damaged"}], g \in Computers :
         /\ Stored(t, g) \in [Paths -> Computers \cup {"missing", "damaged"}]
         /\ Stored(t, g)[Legacy] = t[Legacy]
  BY PathsDiffer DEF Stored, Paths
<1>2. Migrates(c, files) => Known(c, files) \in Computers
  BY DEF Migratable
<1>3. /\ FilesMigrated(c, files) \in [Paths -> Computers \cup {"missing", "damaged"}]
      /\ FilesMigrated(c, files)[Legacy] = files[Legacy]
  BY <1>1, <1>2 DEF FilesMigrated
<1> QED
  BY <1>1, <1>3 DEF FilesAdded

-----------------------------------------------------------------------------
(* Steps that change the configuration *)

\* What an edit leaves to the services that run.
Steady ==
    /\ cfg' \in Config /\ WellFormed(cfg')
    /\ files' \in [Paths -> Computers \cup {"missing", "damaged"}]
    /\ files'[Legacy] = files[Legacy]
    /\ Saved(cfg) # {} => Saved(cfg') # {} /\ cfg'.current.path = cfg.current.path
    /\ Saved(cfg) = {} /\ files[Legacy] \in Computers => Chosen' = files[Legacy]

\* A synced configuration that keeps all computers is an edit that keeps them.
LEMMA SyncedSteady ==
    ASSUME Typed, NEW d \in Config, WellFormed(d), cfg' = Synced(d),
           \A f \in Saved(cfg) : /\ f \in Saved(d)
                                 /\ d.paired[f] = Synced(cfg).paired[f],
           Saved(cfg) # {} => d.current.path = cfg.current.path,
           Saved(cfg) = {} /\ files[Legacy] \in Computers
              => \/ Saved(d) = {}
                 \/ Saved(d) # {} /\ d.current.path = files[Legacy],
           files' \in [Paths -> Computers \cup {"missing", "damaged"}],
           files'[Legacy] = files[Legacy]
    PROVE  Steady /\ KeepsSaved
<1>1. cfg \in Config /\ WellFormed(cfg)
  BY DEF Typed
<1>2. /\ cfg' \in Config /\ WellFormed(cfg')
      /\ Saved(cfg') = Saved(d) /\ cfg'.current = d.current
      /\ \A f \in Saved(d) : /\ cfg'.paired[f].path = d.paired[f].path
                             /\ cfg'.paired[f].name = d.paired[f].name
                             /\ f # d.current.path => cfg'.paired[f] = d.paired[f]
  BY SyncedKeeps
<1>3. \A f \in Saved(cfg) :
         /\ Synced(cfg).paired[f].path = cfg.paired[f].path
         /\ Synced(cfg).paired[f].name = cfg.paired[f].name
         /\ f # cfg.current.path => Synced(cfg).paired[f] = cfg.paired[f]
  BY <1>1, SyncedKeeps
<1>4. Saved(cfg) # {} => Saved(d) # {}
  OBVIOUS
<1>5. Saved(cfg') # {} => Selected(cfg') = cfg'.current.path
  BY <1>2, SelectedIs
<1>6. Saved(cfg) = {} /\ files[Legacy] \in Computers => Chosen' = files[Legacy]
  BY <1>2, <1>5 DEF Chosen
<1>7. Steady
  BY <1>2, <1>4, <1>6 DEF Steady
<1>8. KeepsSaved
  BY <1>2, <1>3 DEF KeepsSaved
<1> QED
  BY <1>7, <1>8

LEMMA HandEditSteady ==
    ASSUME Typed, NEW m \in Connections, HandEdit(m)
    PROVE  Steady /\ KeepsSaved
<1> DEFINE current == [cfg.current EXCEPT !.connection = m]
<1>1. /\ cfg = [current |-> cfg.current, paired |-> cfg.paired]
      /\ cfg.current \in Profiles(Names) /\ Saved(cfg) \subseteq Computers
      /\ cfg.paired \in [Saved(cfg) -> Profiles(Names)] /\ WellFormed(cfg)
      /\ files \in [Paths -> Computers \cup {"missing", "damaged"}]
  BY ConfigParts DEF Typed
<1>2. cfg' = [current |-> current, paired |-> cfg.paired] /\ files' = files
  BY <1>1 DEF HandEdit, service
<1>3. /\ current \in Profiles(Names)
      /\ current.path = cfg.current.path /\ current.name = cfg.current.name
  BY <1>1 DEF Profiles
<1> HIDE DEF current
<1>4. Saved(cfg') = Saved(cfg) /\ cfg'.paired = cfg.paired /\ cfg'.current = current
  BY <1>2 DEF Saved
<1>5. cfg' \in Config
  BY <1>1, <1>2, <1>3, <1>4, ConfigParts
<1>6. WellFormed(cfg')
  BY <1>1, <1>3, <1>4 DEF WellFormed
<1>7. Steady
  BY <1>1, <1>2, <1>3, <1>4, <1>5, <1>6 DEF Steady, Chosen
<1>8. KeepsSaved
  BY <1>3, <1>4 DEF KeepsSaved
<1> QED
  BY <1>7, <1>8

LEMMA SaveSteady ==
    ASSUME Typed, NEW m \in Connections, NEW e \in Layouts, Save(m, e)
    PROVE  Steady /\ KeepsSaved
<1> DEFINE c == Synced(cfg)
           current == [c.current EXCEPT !.connection = m, !.edges = e]
           d == [c EXCEPT !.current.connection = m, !.current.edges = e]
<1>1. /\ c \in Config /\ WellFormed(c) /\ Saved(c) = Saved(cfg)
      /\ c.current = cfg.current
  BY SyncedKeeps DEF Typed
<1>2. cfg' = Synced(d) /\ files' = files
  BY DEF Save, Edited, service
<1> HIDE DEF c
<1>3. /\ c = [current |-> c.current, paired |-> c.paired]
      /\ c.current \in Profiles(Names) /\ Saved(c) \subseteq Computers
      /\ c.paired \in [Saved(c) -> Profiles(Names)]
  BY <1>1, ConfigParts
<1>4. d = [current |-> current, paired |-> c.paired]
  <2> DEFINE first == [c.current EXCEPT !.connection = m]
  <2>1. [c EXCEPT !.current.connection = m] = [current |-> first, paired |-> c.paired]
    BY <1>3
  <2>2. d = [[c EXCEPT !.current.connection = m] EXCEPT !.current.edges = e]
    OBVIOUS
  <2>3. current = [first EXCEPT !.edges = e]
    OBVIOUS
  <2> HIDE DEF first, current, d
  <2> QED
    BY <2>1, <2>2, <2>3
<1>5. /\ current \in Profiles(Names)
      /\ current.path = c.current.path /\ current.name = c.current.name
  BY <1>3 DEF Profiles
<1> HIDE DEF current, d
<1>6. Saved(d) = Saved(c) /\ d.paired = c.paired /\ d.current = current
  BY <1>4 DEF Saved
<1>7. d \in Config
  BY <1>3, <1>4, <1>5, <1>6, ConfigParts
<1>8. WellFormed(d)
  BY <1>1, <1>5, <1>6 DEF WellFormed
<1>9. files \in [Paths -> Computers \cup {"missing", "damaged"}]
  BY DEF Typed
<1> QED
  BY <1>1, <1>2, <1>5, <1>6, <1>7, <1>8, <1>9, SyncedSteady DEF c

LEMMA ImportSteady ==
    ASSUME Typed, NEW f \in Computers, Import(f)
    PROVE  Steady /\ KeepsSaved
<1> DEFINE c == Synced(cfg)
           d == Added(c, files, f)
<1>1. /\ c \in Config /\ WellFormed(c) /\ Saved(c) = Saved(cfg)
      /\ c.current = cfg.current
      /\ cfg \in Config /\ WellFormed(cfg)
      /\ files \in [Paths -> Computers \cup {"missing", "damaged"}]
  BY SyncedKeeps DEF Typed
<1>2. CASE /\ Addable(c, files, f)
           /\ files' = FilesAdded(c, files, f) /\ Edited(d)
  <2>1. /\ d \in Config /\ WellFormed(d) /\ Saved(d) # {}
        /\ \A g \in Saved(c) : g \in Saved(d) /\ d.paired[g] = c.paired[g]
        /\ Saved(c) # {} => d.current = c.current
        /\ Saved(c) = {} /\ files[Legacy] \in Computers
              => d.current.path = files[Legacy]
    BY <1>1, <1>2, AddedKeeps
  <2>2. /\ files' \in [Paths -> Computers \cup {"missing", "damaged"}]
        /\ files'[Legacy] = files[Legacy]
    BY <1>1, <1>2, FilesKept DEF Addable
  <2>3. cfg' = Synced(d)
    BY <1>2 DEF Edited
  <2> HIDE DEF d
  <2> QED
    BY <1>1, <2>1, <2>2, <2>3, SyncedSteady DEF c
<1>3. CASE /\ Migratable(c, files, f)
           /\ files' \in {FilesMigrated(c, files), FilesAdded(c, files, f)}
           /\ UNCHANGED cfg
  <2>1. /\ files' \in [Paths -> Computers \cup {"missing", "damaged"}]
        /\ files'[Legacy] = files[Legacy]
    BY <1>1, <1>3, FilesKept
  <2>2. Steady
    BY <1>1, <1>3, <2>1 DEF Steady, Chosen
  <2> QED
    BY <1>3, <2>2 DEF KeepsSaved
<1> QED
  BY <1>2, <1>3 DEF Import

LEMMA DamageSteady ==
    ASSUME Typed, NEW f \in Computers, Damage(f)
    PROVE  Steady /\ KeepsSaved
<1>1. /\ cfg \in Config /\ WellFormed(cfg)
      /\ files \in [Paths -> Computers \cup {"missing", "damaged"}]
  BY DEF Typed
<1>2. cfg' = cfg /\ files' = [files EXCEPT ![f] = "damaged"]
  BY DEF Damage
<1>3. /\ files' \in [Paths -> Computers \cup {"missing", "damaged"}]
      /\ files'[Legacy] = files[Legacy]
  BY <1>1, <1>2, PathsDiffer DEF Paths
<1>4. Steady
  BY <1>1, <1>2, <1>3 DEF Steady, Chosen
<1> QED
  BY <1>2, <1>4 DEF KeepsSaved

\* A choice keeps the computers too; nobody trusts one while it is made.
LEMMA SelectKeeps ==
    ASSUME Typed, running = Chooser, NEW f \in Computers, Select(f)
    PROVE  cfg' \in Config /\ WellFormed(cfg') /\ KeepsSaved
<1> DEFINE c == Synced(cfg)
           d == Activated(c, f)
<1>1. /\ c \in Config /\ WellFormed(c) /\ Saved(c) = Saved(cfg)
      /\ \A g \in Saved(cfg) :
            /\ c.paired[g].path = cfg.paired[g].path
            /\ c.paired[g].name = cfg.paired[g].name
            /\ g # cfg.current.path => c.paired[g] = cfg.paired[g]
            /\ g = cfg.current.path =>
                  /\ c.paired[g].connection = cfg.current.connection
                  /\ c.paired[g].edges = cfg.current.edges
  BY SyncedKeeps DEF Typed
<1>2. f \in Saved(c) /\ cfg' = Synced(d)
  BY DEF Select, Selectable, Edited
<1> HIDE DEF c
<1>3. /\ c = [current |-> c.current, paired |-> c.paired]
      /\ Saved(c) \subseteq Computers
      /\ c.paired \in [Saved(c) -> Profiles(Names)]
  BY <1>1, ConfigParts
<1>4. d = [current |-> c.paired[f], paired |-> c.paired]
  BY <1>3 DEF Activated
<1> HIDE DEF d
<1>5. Saved(d) = Saved(c) /\ d.paired = c.paired /\ d.current = c.paired[f]
  BY <1>4 DEF Saved
<1>6. d \in Config
  BY <1>2, <1>3, <1>4, <1>5, ConfigParts
<1>7. WellFormed(d) /\ d.current.path = f
  BY <1>1, <1>2, <1>5 DEF WellFormed
<1>8. /\ cfg' \in Config /\ WellFormed(cfg')
      /\ Saved(cfg') = Saved(d) /\ cfg'.current = d.current
      /\ \A g \in Saved(d) :
            /\ cfg'.paired[g].path = d.paired[g].path
            /\ cfg'.paired[g].name = d.paired[g].name
            /\ g # f => cfg'.paired[g] = d.paired[g]
            /\ g = f => /\ cfg'.paired[g].connection = d.current.connection
                        /\ cfg'.paired[g].edges = d.current.edges
  BY <1>2, <1>6, <1>7, SyncedKeeps
<1>9. \A g \in Saved(c) : cfg'.paired[g] = c.paired[g]
  <2> SUFFICES ASSUME NEW g \in Saved(c) PROVE cfg'.paired[g] = c.paired[g]
    OBVIOUS
  <2>1. CASE g # f
    BY <1>5, <1>8, <2>1
  <2>2. CASE g = f
    <3>1. c.paired[g] \in Profiles(Names) /\ cfg'.paired[g] \in Profiles(Names)
      BY <1>3, <1>5, <1>8, ConfigParts
    <3> QED
      BY <1>5, <1>8, <2>2, <3>1, SameProfile
  <2> QED
    BY <2>1, <2>2
<1>10. KeepsSaved
  BY <1>1, <1>5, <1>8, <1>9 DEF KeepsSaved
<1> QED
  BY <1>8, <1>10

-----------------------------------------------------------------------------
(* Steps and the invariant *)

LEMMA SteadyKeeps ==
    ASSUME IInv, Steady, UNCHANGED <<running, pc, conf, trust, choosing>>
    PROVE  IInv'
<1>1. Typed'
  BY DEF IInv, Typed, Steady
<1>2. Locked'
  BY DEF IInv, Locked
<1>3. Saved(cfg) # {} \/ files[Legacy] \in Computers => Chosen' = Chosen
  <2>1. CASE Saved(cfg) = {}
    BY <2>1 DEF Steady, Chosen
  <2>2. CASE Saved(cfg) # {}
    <3>1. Selected(cfg) = cfg.current.path
      BY <2>2, SelectedIs DEF IInv, Typed
    <3>2. Saved(cfg') # {} /\ Selected(cfg') = cfg'.current.path
      BY <2>2, SelectedIs DEF Steady
    <3> QED
      BY <2>2, <3>1, <3>2 DEF Steady, Chosen
  <2> QED
    BY <2>1, <2>2
<1>4. Trusting'
  <2> SUFFICES ASSUME NEW i \in Instances, trust'[i] # "none"
               PROVE  pc'[i] \in Late /\ trust'[i] \in Computers /\ trust'[i] = Chosen'
    BY DEF Trusting
  <2>1. pc[i] \in Late /\ trust[i] \in Computers /\ trust[i] = Chosen
    BY DEF IInv, Trusting
  <2>2. Saved(cfg) # {} \/ files[Legacy] \in Computers
    BY <2>1 DEF Chosen
  <2> QED
    BY <1>3, <2>1, <2>2
<1>5. Current'
  <2> SUFFICES ASSUME NEW i \in Instances, pc'[i] = "reread"
               PROVE  Agrees(conf[i])'
    BY DEF Current
  <2>1. conf'[i] = conf[i] /\ Agrees(conf[i])
    BY DEF IInv, Current
  <2>2. Saved(conf[i]) # {} => Saved(cfg') # {} /\ cfg'.current.path = conf[i].current.path
    BY <2>1 DEF Agrees, Steady
  <2>3. Saved(conf[i]) = {} /\ files'[Legacy] \in Computers => Chosen' = files'[Legacy]
    BY <1>3, <2>1 DEF Agrees, Steady
  <2> QED
    BY <2>1, <2>2, <2>3 DEF Agrees
<1> QED
  BY <1>1, <1>2, <1>4, <1>5 DEF IInv

\* Steps that touch none of what the invariant is about.
LEMMA StillKeeps ==
    ASSUME IInv, UNCHANGED <<cfg, files, running, pc, conf, trust, choosing>>
    PROVE  IInv'
<1>1. Typed'
  BY DEF IInv, Typed
<1>2. Locked'
  BY DEF IInv, Locked
<1>3. Chosen' = Chosen
  BY DEF Chosen
<1>4. Trusting'
  BY <1>3 DEF IInv, Trusting
<1>5. Current'
  BY <1>3 DEF IInv, Current, Agrees
<1> QED
  BY <1>1, <1>2, <1>4, <1>5 DEF IInv

\* A service in its connection loop goes on.
LEMMA MoveKeeps ==
    ASSUME IInv, NEW i \in Instances, pc[i] \in Late, NEW to \in Late,
           pc' = [pc EXCEPT ![i] = to], NEW view \in Config \cup {NoView},
           conf' \in {conf, [conf EXCEPT ![i] = view]},
           UNCHANGED <<cfg, files, running, trust, choosing>>
    PROVE  IInv'
<1>1. Typed'
  BY DEF IInv, Typed
<1>2. \A j \in Instances : pc'[j] = IF j = i THEN to ELSE pc[j]
  BY DEF IInv, Typed
<1>3. Locked'
  BY <1>2 DEF IInv, Locked, Late, Outside
<1>4. Chosen' = Chosen
  BY DEF Chosen
<1>5. Trusting'
  BY <1>2, <1>4 DEF IInv, Trusting
<1>6. \A j \in Instances : pc'[j] = "reread" => pc[j] = "reread" /\ conf'[j] = conf[j]
  BY <1>2 DEF IInv, Typed, Late
<1>7. Current'
  BY <1>4, <1>6 DEF IInv, Current, Agrees
<1> QED
  BY <1>1, <1>3, <1>5, <1>7 DEF IInv

\* A service ends.
LEMMA ExitKeeps ==
    ASSUME IInv, NEW i \in Instances, NEW how, Exit(i, how),
           UNCHANGED <<cfg, files, choosing>>
    PROVE  IInv'
<1> DEFINE to == Exited(i, how)
<1>1. /\ pc' = [pc EXCEPT ![i] = to]
      /\ running' = Freed(running, i)
      /\ conf' = [conf EXCEPT ![i] = NoView]
      /\ trust' = [trust EXCEPT ![i] = "none"]
  BY DEF Exit, Goto
<1>2. to \in {"restarting", "failed", "stopped"}
  BY DEF Exited
<1> HIDE DEF to
<1>3. Typed'
  BY <1>1, <1>2 DEF IInv, Typed, Outside
<1>4. \A j \in Instances : /\ pc'[j] = IF j = i THEN to ELSE pc[j]
                           /\ trust'[j] = IF j = i THEN "none" ELSE trust[j]
                           /\ j # i => conf'[j] = conf[j]
  BY <1>1 DEF IInv, Typed
<1>5. Locked'
  <2>1. \A j \in Instances : pc'[j] \notin Outside => running' = j
    BY <1>1, <1>2, <1>4 DEF IInv, Locked, Outside, Freed
  <2>2. choosing' # "idle" => running' = Chooser
    BY <1>1, ServiceAssumption DEF IInv, Locked, Freed, ServiceAssumption
  <2> QED
    BY <2>1, <2>2 DEF Locked
<1>6. Chosen' = Chosen
  BY DEF Chosen
<1>7. Trusting'
  BY <1>4, <1>6 DEF IInv, Trusting
<1>8. \A j \in Instances : pc'[j] = "reread" => pc[j] = "reread" /\ conf'[j] = conf[j]
  BY <1>2, <1>4
<1>9. Current'
  BY <1>6, <1>8 DEF IInv, Current, Agrees
<1> QED
  BY <1>3, <1>5, <1>7, <1>9 DEF IInv

\* A service starts, or is given up: at each step it holds what it needs.
LEMMA OutsideKeeps ==
    ASSUME IInv, NEW i \in Instances, pc[i] \in Outside, NEW to \in Outside,
           pc' = [pc EXCEPT ![i] = to], conf' \in {conf, [conf EXCEPT ![i] = cfg]},
           UNCHANGED <<cfg, files, running, trust, choosing>>
    PROVE  IInv'
<1>1. Typed'
  BY DEF IInv, Typed, Outside
<1>2. \A j \in Instances : /\ pc'[j] = IF j = i THEN to ELSE pc[j]
                           /\ j # i => conf'[j] = conf[j]
  BY DEF IInv, Typed
<1>3. Locked'
  BY <1>2 DEF IInv, Locked, Outside
<1>4. Chosen' = Chosen
  BY DEF Chosen
<1>5. Trusting'
  BY <1>2, <1>4 DEF IInv, Trusting, Outside, Late
<1>6. Current'
  BY <1>2, <1>4 DEF IInv, Current, Agrees, Outside
<1> QED
  BY <1>1, <1>3, <1>5, <1>6 DEF IInv

LEMMA GuardKeeps ==
    ASSUME IInv, NEW i \in Instances, Guard(i)
    PROVE  IInv'
<1>1. CASE running = Nobody
  <2>1. /\ pc[i] = "launched" /\ pc' = [pc EXCEPT ![i] = "guarded"] /\ running' = i
        /\ UNCHANGED <<cfg, files, conf, trust, choosing>>
    BY <1>1 DEF Guard, Goto
  <2>2. Typed'
    BY <2>1 DEF IInv, Typed, Early
  <2>3. \A j \in Instances : pc'[j] = IF j = i THEN "guarded" ELSE pc[j]
    BY <2>1 DEF IInv, Typed
  <2>4. /\ \A j \in Instances : pc[j] \in Outside
        /\ choosing = "idle"
    BY <1>1, ServiceAssumption DEF IInv, Locked, ServiceAssumption
  <2>5. Locked'
    BY <2>1, <2>3, <2>4 DEF Locked
  <2>6. \A j \in Instances : trust[j] = "none"
    BY <2>4 DEF IInv, Trusting, Outside, Late
  <2>7. Trusting' /\ Current'
    BY <2>1, <2>3, <2>4, <2>6 DEF Trusting, Current, Outside
  <2> QED
    BY <2>2, <2>5, <2>7 DEF IInv
<1>2. CASE running # Nobody
  BY <1>2, ExitKeeps DEF Guard
<1> QED
  BY <1>1, <1>2

LEMMA StartServerKeeps ==
    ASSUME IInv, NEW i \in Instances, StartServer(i)
    PROVE  IInv'
<1>1. CASE instance = Nobody
  <2>1. /\ pc[i] = "guarded" /\ pc' = [pc EXCEPT ![i] = "serving"]
        /\ UNCHANGED <<cfg, files, running, conf, trust, choosing>>
    BY <1>1 DEF StartServer, Goto
  <2>2. Typed'
    BY <2>1 DEF IInv, Typed, Early
  <2>3. \A j \in Instances : pc'[j] = IF j = i THEN "serving" ELSE pc[j]
    BY <2>1 DEF IInv, Typed
  <2>4. Locked'
    BY <2>1, <2>3 DEF IInv, Locked, Outside
  <2>5. Chosen' = Chosen
    BY <2>1 DEF Chosen
  <2>6. Trusting'
    BY <2>1, <2>3, <2>5 DEF IInv, Trusting, Late
  <2>7. Current'
    BY <2>1, <2>3, <2>5 DEF IInv, Current, Agrees
  <2> QED
    BY <2>2, <2>4, <2>6, <2>7 DEF IInv
<1>2. CASE instance # Nobody
  BY <1>2, ExitKeeps DEF StartServer
<1> QED
  BY <1>1, <1>2

LEMMA RereadKeeps ==
    ASSUME IInv, NEW i \in Instances, Reread(i)
    PROVE  IInv'
<1>1. /\ pc[i] = "serving" /\ pc' = [pc EXCEPT ![i] = "reread"]
      /\ conf' = [conf EXCEPT ![i] = cfg]
      /\ UNCHANGED <<cfg, files, running, trust, choosing>>
  BY DEF Reread, Go, Goto
<1>2. Typed'
  BY <1>1 DEF IInv, Typed, Early
<1>3. \A j \in Instances : /\ pc'[j] = IF j = i THEN "reread" ELSE pc[j]
                           /\ conf'[j] = IF j = i THEN cfg ELSE conf[j]
  BY <1>1 DEF IInv, Typed
<1>4. Locked'
  BY <1>1, <1>3 DEF IInv, Locked, Outside
<1>5. Chosen' = Chosen
  BY <1>1 DEF Chosen
<1>6. Trusting'
  BY <1>1, <1>3, <1>5 DEF IInv, Trusting, Late
<1>7. Agrees(cfg)
  BY DEF IInv, Typed, Agrees, Chosen
<1>8. Current'
  BY <1>1, <1>3, <1>5, <1>7 DEF IInv, Current, Agrees
<1> QED
  BY <1>2, <1>4, <1>6, <1>8 DEF IInv

\* What was read under the lock gives the certificate of the chosen computer.
LEMMA BindKeeps ==
    ASSUME IInv, NEW i \in Instances, Bind(i)
    PROVE  IInv'
<1> DEFINE found == Certificate(conf[i], files)
<1>1. CASE found = "none"
  BY <1>1, ExitKeeps DEF Bind
<1>2. CASE found # "none"
  <2>1. /\ pc[i] = "reread" /\ pc' = [pc EXCEPT ![i] = "ready"]
        /\ trust' = [trust EXCEPT ![i] = found]
        /\ conf' = [conf EXCEPT ![i] = NoView]
        /\ UNCHANGED <<cfg, files, running, choosing>>
    BY <1>2 DEF Bind, Goto
  <2>2. Agrees(conf[i])
    BY <2>1 DEF IInv, Current
  <2>3. /\ found \in Computers /\ found = files[conf[i].current.path]
        /\ Saved(conf[i]) = {} \/ found = Selected(conf[i])
    BY <1>2 DEF Certificate
  <2> HIDE DEF found
  <2>4. found = Chosen
    <3>1. CASE Saved(conf[i]) = {}
      <4>1. conf[i].current.path = Legacy
        BY <2>2, <3>1 DEF Agrees, WellFormed
      <4> QED
        BY <2>2, <2>3, <3>1, <4>1 DEF Agrees
    <3>2. CASE Saved(conf[i]) # {}
      <4>1. Selected(conf[i]) = conf[i].current.path
        BY <2>2, <3>2, SelectedIs DEF Agrees
      <4>2. Saved(cfg) # {} /\ cfg.current.path = conf[i].current.path
        BY <2>2, <3>2 DEF Agrees
      <4>3. Selected(cfg) = cfg.current.path
        BY <4>2, SelectedIs DEF IInv, Typed
      <4> QED
        BY <2>3, <3>2, <4>1, <4>2, <4>3 DEF Chosen
    <3> QED
      BY <3>1, <3>2
  <2>5. Typed'
    BY <2>1, <2>3 DEF IInv, Typed, Late
  <2>6. \A j \in Instances : /\ pc'[j] = IF j = i THEN "ready" ELSE pc[j]
                             /\ trust'[j] = IF j = i THEN found ELSE trust[j]
                             /\ j # i => conf'[j] = conf[j]
    BY <2>1 DEF IInv, Typed
  <2>7. Locked'
    BY <2>1, <2>6 DEF IInv, Locked, Outside
  <2>8. Chosen' = Chosen
    BY <2>1 DEF Chosen
  <2>9. Trusting'
    BY <2>3, <2>4, <2>6, <2>8 DEF IInv, Trusting, Late
  <2>10. Current'
    BY <2>1, <2>6, <2>8 DEF IInv, Current, Agrees
  <2> QED
    BY <2>5, <2>7, <2>9, <2>10 DEF IInv
<1> QED
  BY <1>1, <1>2

\* A choice is made while no service runs.
LEMMA ChooserKeeps ==
    ASSUME IInv, ChooserGuards \/ ChooserStops \/ ChooserEnds
    PROVE  IInv'
<1>1. UNCHANGED <<cfg, files, pc, conf, trust>>
  BY DEF ChooserGuards, ChooserStops, ChooserEnds
<1>2. Typed'
  BY <1>1 DEF IInv, Typed
<1>3. Locked'
  <2>1. CASE ChooserGuards
    <3>1. \A i \in Instances : pc[i] \in Outside
      BY <2>1, ServiceAssumption DEF ChooserGuards, IInv, Locked, ServiceAssumption
    <3> QED
      BY <1>1, <2>1, <3>1 DEF ChooserGuards, Locked
  <2>2. CASE ChooserStops
    BY <1>1, <2>2 DEF ChooserStops, IInv, Locked
  <2>3. CASE ChooserEnds
    <3>1. \A i \in Instances : pc[i] \in Outside
      BY <2>3, ServiceAssumption DEF ChooserEnds, IInv, Locked, ServiceAssumption
    <3> QED
      BY <1>1, <2>3, <3>1 DEF ChooserEnds, Locked
  <2> QED
    BY <2>1, <2>2, <2>3
<1>4. Chosen' = Chosen
  BY <1>1 DEF Chosen
<1>5. Trusting'
  BY <1>1, <1>4 DEF IInv, Trusting
<1>6. Current'
  BY <1>1, <1>4 DEF IInv, Current, Agrees
<1> QED
  BY <1>2, <1>3, <1>5, <1>6 DEF IInv

LEMMA SelectStep ==
    ASSUME IInv, NEW f \in Computers, Select(f)
    PROVE  IInv' /\ KeepsSaved
<1>1. /\ choosing = "alone" /\ choosing' = "selected"
      /\ UNCHANGED <<files, running, pc, conf, trust>>
  BY DEF Select, service
<1>2. running = Chooser
  BY <1>1 DEF IInv, Locked
<1>3. cfg' \in Config /\ WellFormed(cfg') /\ KeepsSaved
  BY <1>2, SelectKeeps DEF IInv
<1>4. \A i \in Instances : pc[i] \in Outside
  BY <1>2, ServiceAssumption DEF IInv, Locked, ServiceAssumption
<1>5. Typed'
  BY <1>1, <1>3 DEF IInv, Typed
<1>6. Locked'
  BY <1>1, <1>2, <1>4 DEF Locked
<1>7. \A i \in Instances : trust[i] = "none"
  BY <1>4 DEF IInv, Trusting, Outside, Late
<1>8. Trusting' /\ Current'
  BY <1>1, <1>4, <1>7 DEF Trusting, Current, Outside
<1> QED
  BY <1>3, <1>5, <1>6, <1>8 DEF IInv

-----------------------------------------------------------------------------
(* Theorems *)

LEMMA Initially ==
    ASSUME Init
    PROVE  IInv
<1>1. cfg \in Config /\ WellFormed(cfg)
  <2>1. PICK m \in Connections, e \in Layouts :
          \/ \E peer \in Computers \cup {"missing"} :
               cfg = [current |-> [name |-> IF peer = "missing" THEN "unpaired"
                                            ELSE NameOf[peer],
                                   path |-> Legacy, connection |-> m, edges |-> e],
                      paired  |-> [g \in {} |-> g]]
          \/ \E f \in Computers :
               cfg = [current |-> [name |-> NameOf[f], path |-> f,
                                   connection |-> m, edges |-> e],
                      paired  |-> [g \in Computers |->
                                     [name |-> NameOf[g], path |-> g,
                                      connection |-> m, edges |-> e]]]
    BY DEF Init
  <2>2. \A n \in Names, path \in Paths :
          [name |-> n, path |-> path, connection |-> m, edges |-> e] \in Profiles(Names)
    BY DEF Profiles
  <2>3. CASE \E peer \in Computers \cup {"missing"} :
               cfg = [current |-> [name |-> IF peer = "missing" THEN "unpaired"
                                            ELSE NameOf[peer],
                                   path |-> Legacy, connection |-> m, edges |-> e],
                      paired  |-> [g \in {} |-> g]]
    <3>1. PICK peer \in Computers \cup {"missing"} :
               cfg = [current |-> [name |-> IF peer = "missing" THEN "unpaired"
                                            ELSE NameOf[peer],
                                   path |-> Legacy, connection |-> m, edges |-> e],
                      paired  |-> [g \in {} |-> g]]
      BY <2>3
    <3>2. (IF peer = "missing" THEN "unpaired" ELSE NameOf[peer]) \in Names
      BY DEF Names
    <3>3. /\ cfg = [current |-> cfg.current, paired |-> cfg.paired]
          /\ cfg.current \in Profiles(Names) /\ cfg.current.path = Legacy
          /\ Saved(cfg) = {} /\ cfg.paired \in [{} -> Profiles(Names)]
      BY <2>2, <3>1, <3>2 DEF Saved, Paths
    <3>4. cfg \in Config
      BY <3>3, ConfigParts
    <3> QED
      BY <3>3, <3>4 DEF WellFormed
  <2>4. CASE \E f \in Computers :
               cfg = [current |-> [name |-> NameOf[f], path |-> f,
                                   connection |-> m, edges |-> e],
                      paired  |-> [g \in Computers |->
                                     [name |-> NameOf[g], path |-> g,
                                      connection |-> m, edges |-> e]]]
    <3>1. PICK f \in Computers :
               cfg = [current |-> [name |-> NameOf[f], path |-> f,
                                   connection |-> m, edges |-> e],
                      paired  |-> [g \in Computers |->
                                     [name |-> NameOf[g], path |-> g,
                                      connection |-> m, edges |-> e]]]
      BY <2>4
    <3>2. \A g \in Computers :
             [name |-> NameOf[g], path |-> g, connection |-> m, edges |-> e]
                \in Profiles(Names)
      BY <2>2 DEF Names, Paths
    <3>3. /\ cfg = [current |-> cfg.current, paired |-> cfg.paired]
          /\ cfg.current \in Profiles(Names)
          /\ cfg.current.path = f /\ cfg.current.name = NameOf[f]
          /\ Saved(cfg) = Computers /\ cfg.paired \in [Computers -> Profiles(Names)]
          /\ \A g \in Computers : /\ cfg.paired[g].path = g
                                  /\ cfg.paired[g].name = NameOf[g]
      BY <3>1, <3>2 DEF Saved
    <3>4. cfg \in Config
      BY <3>3, ConfigParts
    <3> QED
      BY <3>1, <3>3, <3>4 DEF WellFormed
  <2> QED
    BY <2>1, <2>3, <2>4
<1>2. files \in [Paths -> Computers \cup {"missing", "damaged"}]
  BY DEF Init, Paths
<1>3. /\ pc \in [Instances -> Outside \cup Early \cup Late]
      /\ conf \in [Instances -> Config \cup {NoView}]
      /\ trust \in [Instances -> Computers \cup {"none"}]
      /\ \A i \in Instances : pc[i] = "stopped" /\ trust[i] = "none"
      /\ choosing = "idle"
  BY DEF Init, Outside
<1> QED
  BY <1>1, <1>2, <1>3 DEF IInv, Typed, Locked, Trusting, Current, Outside

\* Every step keeps the invariant and the saved computers.
LEMMA StepKeeps ==
    ASSUME IInv, [Next]_vars
    PROVE  IInv' /\ [KeepsSaved]_cfg
<1>1. ASSUME NEW i \in Instances, Progress(i)
      PROVE  IInv' /\ UNCHANGED cfg
  <2>1. CASE Restart(i)
    BY <2>1, OutsideKeeps DEF Restart, Launch, Goto, Outside
  <2>2. CASE Guard(i)
    BY <2>2, GuardKeeps DEF Guard
  <2>3. CASE StartServer(i)
    BY <2>3, StartServerKeeps DEF StartServer
  <2>4. CASE Reread(i)
    BY <2>4, RereadKeeps DEF Reread
  <2>5. CASE Bind(i)
    BY <2>5, BindKeeps DEF Bind
  <2>6. CASE Loop(i)
    <3>1. cfg \in Config
      BY DEF IInv, Typed
    <3> QED
      BY <2>6, <3>1, MoveKeeps DEF Loop, Go, Goto, Late
  <2>7. CASE Paused(i)
    BY <2>7, StillKeeps DEF Paused, service
  <2>8. CASE Unlocked(i)
    BY <2>8, MoveKeeps DEF Unlocked, Go, Goto, Late
  <2>9. CASE Panic(i)
    BY <2>9, ExitKeeps DEF Panic
  <2>10. CASE Connect(i)
    BY <2>10, MoveKeeps DEF Connect, Go, Goto, Late
  <2>11. CASE Sleep(i)
    BY <2>11, MoveKeeps DEF Sleep, Go, Goto, Late
  <2>12. CASE GiveUp(i)
    BY <2>12, OutsideKeeps DEF GiveUp, Go, Goto, Outside
  <2> QED
    BY <1>1, <2>1, <2>2, <2>3, <2>4, <2>5, <2>6, <2>7, <2>8, <2>9, <2>10, <2>11, <2>12
       DEF Progress
<1>2. ASSUME NEW i \in Instances,
             Start(i) \/ Refused(i) \/ Disconnect(i) \/ Stop(i) \/ Fail(i)
      PROVE  IInv' /\ UNCHANGED cfg
  <2>1. CASE Start(i)
    BY <2>1, OutsideKeeps DEF Start, Launch, Goto, Outside
  <2>2. CASE Refused(i)
    BY <2>2, MoveKeeps DEF Refused, Go, Goto, Late
  <2>3. CASE Disconnect(i)
    BY <2>3, MoveKeeps DEF Disconnect, Hangup, Go, Goto, Late
  <2>4. CASE Stop(i)
    BY <2>4, ExitKeeps DEF Stop
  <2>5. CASE Fail(i)
    BY <2>5, ExitKeeps DEF Fail
  <2> QED
    BY <1>2, <2>1, <2>2, <2>3, <2>4, <2>5
<1>3. ASSUME NEW i \in Instances, Commands(i)
      PROVE  IInv' /\ UNCHANGED cfg
  <2>1. CASE Command(i)
    BY <2>1, StillKeeps DEF Command, service
  <2>2. CASE CommandBreaks(i)
    BY <2>2, MoveKeeps DEF CommandBreaks, Go, Goto, Late
  <2>3. CASE Saves(i)
    BY <2>3, MoveKeeps DEF Saves, Go, Goto, Late
  <2>4. CASE SaveRefused(i)
    BY <2>4, StillKeeps DEF SaveRefused, service
  <2> QED
    BY <1>3, <2>1, <2>2, <2>3, <2>4 DEF Commands
<1>4. ASSUME NEW k \in Clients, Ask(k) \/ TimeOut(k)
      PROVE  IInv' /\ UNCHANGED cfg
  BY <1>4, StillKeeps DEF Ask, TimeOut, service
<1>5. ASSUME NEW f \in Computers, Import(f) \/ Damage(f)
      PROVE  IInv' /\ KeepsSaved
  <2>1. Steady /\ KeepsSaved
    BY <1>5, ImportSteady, DamageSteady DEF IInv
  <2>2. UNCHANGED <<running, pc, conf, trust, choosing>>
    BY <1>5 DEF Import, Damage, service
  <2> QED
    BY <2>1, <2>2, SteadyKeeps
<1>6. ASSUME NEW m \in Connections, NEW e \in Layouts, Save(m, e)
      PROVE  IInv' /\ KeepsSaved
  <2>1. UNCHANGED <<running, pc, conf, trust, choosing>>
    BY <1>6 DEF Save, service
  <2> QED
    BY <1>6, <2>1, SaveSteady, SteadyKeeps DEF IInv
<1>7. ASSUME NEW m \in Connections, HandEdit(m)
      PROVE  IInv' /\ KeepsSaved
  <2>1. UNCHANGED <<running, pc, conf, trust, choosing>>
    BY <1>7 DEF HandEdit, service
  <2> QED
    BY <1>7, <2>1, HandEditSteady, SteadyKeeps DEF IInv
<1>8. ASSUME Choosing
      PROVE  IInv' /\ [KeepsSaved]_cfg
  <2>1. CASE ChooserGuards \/ ChooserStops \/ ChooserEnds
    <3>1. UNCHANGED cfg
      BY <2>1 DEF ChooserGuards, ChooserStops, ChooserEnds
    <3> QED
      BY <2>1, <3>1, ChooserKeeps
  <2>2. CASE \E f \in Computers : Select(f)
    BY <2>2, SelectStep
  <2> QED
    BY <1>8, <2>1, <2>2 DEF Choosing
<1>9. ASSUME WatchUnlocked \/ WatchLocked
      PROVE  IInv' /\ UNCHANGED cfg
  BY <1>9, StillKeeps DEF WatchUnlocked, WatchLocked, service
<1>10. CASE UNCHANGED vars
  BY <1>10, StillKeeps DEF vars
<1> QED
  BY <1>1, <1>2, <1>3, <1>4, <1>5, <1>6, <1>7, <1>8, <1>9, <1>10 DEF Next

\* What the other theorems rest on: locks, trust and what was read agree.
THEOREM Invariance == Spec => []IInv
<1>1. Init => IInv
  BY Initially
<1>2. IInv /\ [Next]_vars => IInv'
  BY StepKeeps
<1> QED
  BY <1>1, <1>2, PTL DEF Spec

\* At any time at most one service trusts a computer, and it is the selected one,
\* for any number of services, computers, restarts, choices and imports.
THEOREM OnlySelectedTrusted == Spec => []TrustsSelected
<1>1. IInv => TrustsSelected
  <2> SUFFICES ASSUME IInv, NEW i \in Instances, trust[i] # "none"
               PROVE  /\ trust[i] = Chosen
                      /\ \A j \in Instances : trust[j] # "none" => i = j
    BY DEF TrustsSelected
  <2>1. \A j \in Instances : trust[j] # "none" => running = j
    BY DEF IInv, Trusting, Locked, Late, Outside
  <2> QED
    BY <2>1 DEF IInv, Trusting
<1> QED
  BY <1>1, Invariance, PTL

\* No edit, import or choice forgets a saved computer or mixes it up.
THEOREM SavedComputersKept == Spec => SavedKept
<1>1. IInv /\ [Next]_vars => [KeepsSaved]_cfg
  BY StepKeeps
<1> QED
  BY <1>1, Invariance, PTL DEF Spec, SavedKept

-----------------------------------------------------------------------------
(* Answers *)

\* A command on its way: its client was not told anything final, and it has had
\* no effect.
Open(k)     == client[k] \in {"asked", "unconfirmed"} /\ k \notin ran
OpenThen(k) == client'[k] \in {"asked", "unconfirmed"} /\ k \notin ran'

\* Each command is in one place, in the channel or pending, and open there.
Answering ==
    /\ queue \in Seq(Clients) /\ pending \in Clients \cup {"none"}
    /\ client \in [Clients -> {"idle", "asked", "unconfirmed", "refused", "done"}]
    /\ \A a, b \in DOMAIN queue : a # b => queue[a] # queue[b]
    /\ \A a \in DOMAIN queue : queue[a] # pending /\ Open(queue[a])
    /\ pending # "none" => Open(pending)
    /\ \A k \in Clients : /\ client[k] \in {"idle", "refused"} => k \notin ran
                          /\ client[k] = "done" => k \in ran

LEMMA StillAnswering ==
    ASSUME Answering, UNCHANGED <<queue, pending, client, ran>>
    PROVE  Answering'
BY DEF Answering, Open

\* The head of the channel is a command that is nowhere else.
LEMMA HeadOpen ==
    ASSUME Answering, queue # <<>>
    PROVE  /\ Head(queue) \in Clients /\ Head(queue) # pending /\ Open(Head(queue))
           /\ Tail(queue) \in Seq(Clients)
           /\ \A a, b \in DOMAIN Tail(queue) : a # b => Tail(queue)[a] # Tail(queue)[b]
           /\ \A a \in DOMAIN Tail(queue) :
                 /\ Tail(queue)[a] # pending /\ Open(Tail(queue)[a])
                 /\ Tail(queue)[a] # Head(queue) /\ Tail(queue)[a] \in Clients
<1>1. queue \in Seq(Clients) /\ Len(queue) \in Nat \ {0}
  BY DEF Answering
<1>2. /\ Head(queue) = queue[1] /\ 1 \in DOMAIN queue
      /\ Tail(queue) \in Seq(Clients) /\ DOMAIN Tail(queue) = 1 .. (Len(queue) - 1)
      /\ \A a \in 1 .. (Len(queue) - 1) :
            Tail(queue)[a] = queue[a + 1] /\ a + 1 \in DOMAIN queue
  BY <1>1
<1>3. \A a \in DOMAIN queue : queue[a] \in Clients
  BY <1>1
<1>4. \A a, b \in DOMAIN Tail(queue) : a # b => Tail(queue)[a] # Tail(queue)[b]
  <2>1. \A a, b \in 1 .. (Len(queue) - 1) : a # b => a + 1 # b + 1
    OBVIOUS
  <2> QED
    BY <1>2, <2>1 DEF Answering
<1>5. \A a \in DOMAIN Tail(queue) : a + 1 # 1
  BY <1>1, <1>2
<1> QED
  BY <1>2, <1>3, <1>4, <1>5 DEF Answering

LEMMA AskAnswers ==
    ASSUME Answering, NEW k \in Clients, Ask(k)
    PROVE  Answering'
<1>1. client[k] = "idle" /\ UNCHANGED <<pending, ran>>
  BY DEF Ask
<1>2. CASE client' = [client EXCEPT ![k] = "refused"] /\ UNCHANGED queue
  BY <1>1, <1>2 DEF Answering, Open
<1>3. CASE client' = [client EXCEPT ![k] = "asked"] /\ queue' = Append(queue, k)
  <2>1. /\ queue' \in Seq(Clients) /\ DOMAIN queue = 1 .. Len(queue)
        /\ DOMAIN queue' = 1 .. (Len(queue) + 1) /\ Len(queue) \in Nat
        /\ \A a \in DOMAIN queue : queue'[a] = queue[a]
        /\ queue'[Len(queue) + 1] = k
    BY <1>3 DEF Answering
  <2>2. \A a \in DOMAIN queue : queue[a] # k
    BY <1>1 DEF Answering, Open
  <2>3. pending # k
    BY <1>1, ServiceAssumption DEF Answering, Open, ServiceAssumption
  <2>4. k \notin ran
    BY <1>1 DEF Answering
  <2>5. \A a \in DOMAIN queue' : a \in DOMAIN queue \/ a = Len(queue) + 1
    BY <2>1
  <2>6. \A a, b \in DOMAIN queue' : a # b => queue'[a] # queue'[b]
    BY <2>1, <2>2, <2>5 DEF Answering
  <2>7. client' \in [Clients -> {"idle", "asked", "unconfirmed", "refused", "done"}]
    BY <1>3 DEF Answering
  <2>8. \A l \in Clients : client'[l] = IF l = k THEN "asked" ELSE client[l]
    BY <1>3 DEF Answering
  <2>9. \A a \in DOMAIN queue : queue[a] \in Clients
    BY DEF Answering
  <2>10. \A a \in DOMAIN queue' : queue'[a] # pending' /\ OpenThen(queue'[a])
    <3>1. \A a \in DOMAIN queue : queue'[a] # pending' /\ OpenThen(queue'[a])
      BY <1>1, <2>1, <2>2, <2>8, <2>9 DEF Answering, Open, OpenThen
    <3>2. queue'[Len(queue) + 1] # pending' /\ OpenThen(queue'[Len(queue) + 1])
      BY <1>1, <2>1, <2>3, <2>4, <2>8 DEF OpenThen
    <3> QED
      BY <2>5, <3>1, <3>2
  <2>11. pending' # "none" => OpenThen(pending')
    BY <1>1, <2>3, <2>8 DEF Answering, Open, OpenThen
  <2>12. \A l \in Clients : /\ client'[l] \in {"idle", "refused"} => l \notin ran'
                            /\ client'[l] = "done" => l \in ran'
    BY <1>1, <2>8 DEF Answering
  <2>13. pending' \in Clients \cup {"none"}
    BY <1>1 DEF Answering
  <2> QED
    BY <2>1, <2>6, <2>7, <2>10, <2>11, <2>12, <2>13 DEF Answering, Open, OpenThen
<1> QED
  BY <1>2, <1>3 DEF Ask

\* The client whose command was taken hears of it at most what is true.
LEMMA CommandAnswers ==
    ASSUME Answering, NEW i \in Instances, Command(i)
    PROVE  Answering'
<1> DEFINE k == Head(queue)
<1>1. queue # <<>> /\ queue' = Tail(queue)
  BY DEF Command
<1>2. /\ k \in Clients /\ k # pending /\ Open(k) /\ Tail(queue) \in Seq(Clients)
      /\ \A a, b \in DOMAIN Tail(queue) : a # b => Tail(queue)[a] # Tail(queue)[b]
      /\ \A a \in DOMAIN Tail(queue) :
            /\ Tail(queue)[a] # pending /\ Open(Tail(queue)[a])
            /\ Tail(queue)[a] # k /\ Tail(queue)[a] \in Clients
  BY <1>1, HeadOpen
<1>3. \/ ran' = ran \cup {k} /\ client' = Told(client, k, "done") /\ UNCHANGED pending
      \/ client' = Told(client, k, "refused") /\ UNCHANGED <<ran, pending>>
      \/ pending = "none" /\ pending' = k /\ UNCHANGED <<ran, client>>
  BY DEF Command
<1> HIDE DEF k
<1>4. CASE ran' = ran \cup {k} /\ client' = Told(client, k, "done") /\ UNCHANGED pending
  BY <1>1, <1>2, <1>4 DEF Answering, Open, Told
<1>5. CASE client' = Told(client, k, "refused") /\ UNCHANGED <<ran, pending>>
  BY <1>1, <1>2, <1>5 DEF Answering, Open, Told
<1>6. CASE pending = "none" /\ pending' = k /\ UNCHANGED <<ran, client>>
  BY <1>1, <1>2, <1>6 DEF Answering, Open
<1> QED
  BY <1>3, <1>4, <1>5, <1>6

LEMMA BreakAnswers ==
    ASSUME Answering, NEW i \in Instances, CommandBreaks(i)
    PROVE  Answering'
<1> DEFINE k == Head(queue)
<1>1. /\ queue # <<>> /\ queue' = Tail(queue) /\ pending' = "none"
      /\ ran' = ran \cup {k}
      /\ client' = [l \in Clients |-> IF l \in {k, pending} /\ client[l] = "asked"
                                      THEN "unconfirmed" ELSE client[l]]
  BY DEF CommandBreaks
<1>2. /\ k \in Clients /\ Open(k) /\ Tail(queue) \in Seq(Clients)
      /\ \A a, b \in DOMAIN Tail(queue) : a # b => Tail(queue)[a] # Tail(queue)[b]
      /\ \A a \in DOMAIN Tail(queue) :
            /\ Open(Tail(queue)[a])
            /\ Tail(queue)[a] # k /\ Tail(queue)[a] \in Clients
            /\ Tail(queue)[a] # "none"
  BY <1>1, HeadOpen, ServiceAssumption DEF ServiceAssumption
<1> HIDE DEF k
<1>3. /\ client' \in [Clients -> {"idle", "asked", "unconfirmed", "refused", "done"}]
      /\ \A l \in Clients :
            client'[l] = client[l] \/ (client[l] = "asked" /\ client'[l] = "unconfirmed")
      /\ client'[k] = "unconfirmed"
  BY <1>1, <1>2 DEF Answering, Open
<1>4. \A a \in DOMAIN queue' : queue'[a] # pending' /\ OpenThen(queue'[a])
  <2> SUFFICES ASSUME NEW a \in DOMAIN queue'
               PROVE  queue'[a] # pending' /\ OpenThen(queue'[a])
    OBVIOUS
  <2>1. /\ queue'[a] = Tail(queue)[a] /\ a \in DOMAIN Tail(queue)
        /\ queue'[a] \in Clients /\ Open(queue'[a])
        /\ queue'[a] # k /\ queue'[a] # "none"
    BY <1>1, <1>2
  <2> QED
    BY <1>1, <1>3, <2>1 DEF Open, OpenThen
<1>5. \A l \in Clients : /\ client'[l] \in {"idle", "refused"} => l \notin ran'
                        /\ client'[l] = "done" => l \in ran'
  BY <1>1, <1>3 DEF Answering
<1> QED
  BY <1>1, <1>2, <1>3, <1>4, <1>5 DEF Answering, Open, OpenThen

\* A waiting client that is told at most that nothing is certain.
LEMMA DoubtAnswers ==
    ASSUME Answering, NEW D \in SUBSET Clients,
           client' = [k \in Clients |-> IF k \in D /\ client[k] = "asked"
                                        THEN "unconfirmed" ELSE client[k]],
           pending' \in {pending, "none"}, queue' \in {queue, <<>>}, UNCHANGED ran
    PROVE  Answering'
<1>1. /\ client' \in [Clients -> {"idle", "asked", "unconfirmed", "refused", "done"}]
      /\ \A k \in Clients : client'[k] = client[k]
                            \/ (client[k] = "asked" /\ client'[k] = "unconfirmed")
  BY DEF Answering
<1>2. \A k \in Clients : Open(k) => OpenThen(k)
  BY <1>1 DEF Open, OpenThen
<1>3. \A a \in DOMAIN queue : queue[a] \in Clients /\ queue[a] # "none"
  BY ServiceAssumption DEF Answering, ServiceAssumption
<1>4. /\ queue' \in Seq(Clients) /\ pending' \in Clients \cup {"none"}
      /\ \A a, b \in DOMAIN queue' : a # b => queue'[a] # queue'[b]
      /\ \A a \in DOMAIN queue' : a \in DOMAIN queue /\ queue'[a] = queue[a]
  <2>1. CASE queue' = queue
    BY <2>1 DEF Answering
  <2>2. CASE queue' = <<>>
    BY <2>2 DEF Answering
  <2> QED
    BY <2>1, <2>2
<1>5. \A a \in DOMAIN queue' : queue'[a] # pending' /\ OpenThen(queue'[a])
  BY <1>2, <1>3, <1>4 DEF Answering
<1>6. pending' # "none" => OpenThen(pending')
  BY <1>2 DEF Answering
<1>7. \A k \in Clients : /\ client'[k] \in {"idle", "refused"} => k \notin ran'
                         /\ client'[k] = "done" => k \in ran'
  BY <1>1 DEF Answering
<1> QED
  BY <1>1, <1>4, <1>5, <1>6, <1>7 DEF Answering, Open, OpenThen

LEMMA ExitAnswers ==
    ASSUME Answering, NEW i \in Instances, NEW how, Exit(i, how)
    PROVE  Answering'
<1>1. CASE instance = i
  <2>1. /\ queue' = <<>> /\ pending' = "none" /\ UNCHANGED ran
        /\ client' = [k \in Clients |-> IF k \in Clients /\ client[k] = "asked"
                                        THEN "unconfirmed" ELSE client[k]]
    BY <1>1 DEF Exit
  <2> QED
    BY <2>1, DoubtAnswers
<1>2. CASE instance # i
  BY <1>2, StillAnswering DEF Exit
<1> QED
  BY <1>1, <1>2

LEMMA HangupAnswers ==
    ASSUME Answering, NEW i \in Instances, Disconnect(i)
    PROVE  Answering'
<1>1. CASE pending = "none"
  BY <1>1, StillAnswering DEF Disconnect, Hangup
<1>2. CASE pending # "none"
  <2>1. /\ pending \in Clients /\ pending' = "none" /\ UNCHANGED <<queue, ran>>
        /\ client' = Told(client, pending, "unconfirmed")
    BY <1>2 DEF Disconnect, Hangup, Answering
  <2>2. client' = [k \in Clients |-> IF k \in {pending} /\ client[k] = "asked"
                                     THEN "unconfirmed" ELSE client[k]]
    BY <2>1 DEF Told, Answering
  <2> QED
    BY <2>1, <2>2, DoubtAnswers
<1> QED
  BY <1>1, <1>2

\* A client stops waiting.
LEMMA TimeOutAnswers ==
    ASSUME Answering, NEW k \in Clients, TimeOut(k)
    PROVE  Answering'
<1>1. client' = [l \in Clients |-> IF l \in {k} /\ client[l] = "asked"
                                   THEN "unconfirmed" ELSE client[l]]
  BY DEF TimeOut, Answering
<1>2. {k} \in SUBSET Clients /\ UNCHANGED <<queue, pending, ran>>
  BY DEF TimeOut
<1> QED
  BY <1>1, <1>2, DoubtAnswers

\* The pending layout is settled.
LEMMA SettleAnswers ==
    ASSUME Answering, pending # "none", pending' = "none", UNCHANGED queue,
           \/ ran' = ran \cup {pending} /\ client' = Told(client, pending, "done")
           \/ ran' = ran /\ client' = Told(client, pending, "refused")
           \/ ran' = ran /\ client' = Told(client, pending, "unconfirmed")
    PROVE  Answering'
<1>1. pending \in Clients /\ Open(pending)
  BY DEF Answering
<1>2. /\ client' \in [Clients -> {"idle", "asked", "unconfirmed", "refused", "done"}]
      /\ \A k \in Clients : k # pending => client'[k] = client[k]
      /\ ran' \subseteq ran \cup {pending} /\ ran \subseteq ran'
  BY <1>1 DEF Answering, Told
<1>3. \A a \in DOMAIN queue : /\ queue[a] \in Clients /\ queue[a] # pending
                              /\ Open(queue[a]) /\ queue[a] # "none"
  BY ServiceAssumption DEF Answering, ServiceAssumption
<1>4. \A a \in DOMAIN queue' : queue'[a] # pending' /\ OpenThen(queue'[a])
  BY <1>2, <1>3 DEF Open, OpenThen
<1>5. /\ client'[pending] \in {"idle", "refused"} => pending \notin ran'
      /\ client'[pending] = "done" => pending \in ran'
  BY <1>1 DEF Answering, Told, Open
<1>6. \A k \in Clients : /\ client'[k] \in {"idle", "refused"} => k \notin ran'
                         /\ client'[k] = "done" => k \in ran'
  BY <1>2, <1>5 DEF Answering
<1> QED
  BY <1>2, <1>4, <1>6 DEF Answering, Open, OpenThen

LEMMA StepAnswers ==
    ASSUME Answering, [Next]_vars
    PROVE  Answering'
<1>1. ASSUME NEW i \in Instances, Progress(i) \/ Start(i)
      PROVE  Answering'
  <2>1. CASE Restart(i) \/ Start(i)
    BY <2>1, StillAnswering DEF Restart, Start, Launch, commands
  <2>2. CASE Guard(i)
    BY <2>2, StillAnswering, ExitAnswers DEF Guard, commands
  <2>3. CASE StartServer(i)
    BY <2>3, StillAnswering, ExitAnswers DEF StartServer, commands
  <2>4. CASE Bind(i)
    BY <2>4, StillAnswering, ExitAnswers DEF Bind, commands
  <2>5. CASE Panic(i)
    BY <2>5, ExitAnswers DEF Panic
  <2>6. CASE Reread(i) \/ Loop(i) \/ Sleep(i) \/ GiveUp(i)
    BY <2>6, StillAnswering DEF Reread, Loop, Sleep, GiveUp, commands
  <2>7. CASE Paused(i) \/ Unlocked(i) \/ Connect(i)
    BY <2>7, StillAnswering DEF Paused, Unlocked, Connect
  <2> QED
    BY <1>1, <2>1, <2>2, <2>3, <2>4, <2>5, <2>6, <2>7 DEF Progress
<1>2. ASSUME NEW i \in Instances, Refused(i) \/ Disconnect(i) \/ Stop(i) \/ Fail(i)
      PROVE  Answering'
  <2>1. CASE Refused(i)
    BY <2>1, StillAnswering DEF Refused
  <2> QED
    BY <1>2, <2>1, HangupAnswers, ExitAnswers DEF Stop, Fail
<1>3. ASSUME NEW i \in Instances, Commands(i)
      PROVE  Answering'
  <2>1. CASE Saves(i)
    BY <2>1, SettleAnswers DEF Saves
  <2>2. CASE SaveRefused(i)
    BY <2>2, SettleAnswers DEF SaveRefused
  <2> QED
    BY <1>3, <2>1, <2>2, CommandAnswers, BreakAnswers DEF Commands
<1>4. ASSUME NEW k \in Clients, Ask(k) \/ TimeOut(k)
      PROVE  Answering'
  BY <1>4, AskAnswers, TimeOutAnswers
<1>5. ASSUME NEW f \in Computers, Import(f) \/ Damage(f) \/ Select(f)
      PROVE  Answering'
  BY <1>5, StillAnswering DEF Import, Damage, Select, commands
<1>6. ASSUME NEW m \in Connections, NEW e \in Layouts, Save(m, e)
      PROVE  Answering'
  BY <1>6, StillAnswering DEF Save, commands
<1>7. ASSUME NEW m \in Connections, HandEdit(m)
      PROVE  Answering'
  BY <1>7, StillAnswering DEF HandEdit, commands
<1>8. CASE ChooserGuards \/ ChooserStops \/ ChooserEnds
  BY <1>8, StillAnswering DEF ChooserGuards, ChooserStops, ChooserEnds, commands
<1>9. CASE WatchUnlocked \/ WatchLocked
  BY <1>9, StillAnswering DEF WatchUnlocked, WatchLocked, commands
<1>10. CASE UNCHANGED vars
  BY <1>10, StillAnswering DEF vars
<1> QED
  BY <1>1, <1>2, <1>3, <1>4, <1>5, <1>6, <1>7, <1>8, <1>9, <1>10 DEF Next, Choosing

\* What a client was refused never takes effect, through any number of clients,
\* connections, timeouts and crashes; what it was told is done, is.
THEOREM AnswersAreTrue == Spec => []AnswersTrue
<1>1. Init => Answering
  <2> SUFFICES ASSUME Init PROVE Answering
    OBVIOUS
  <2>1. queue = <<>> /\ pending = "none" /\ ran = {}
    BY DEF Init
  <2>2. client = [k \in Clients |-> "idle"]
    BY DEF Init
  <2> QED
    BY <2>1, <2>2 DEF Answering
<1>2. Answering /\ [Next]_vars => Answering'
  BY StepAnswers
<1>3. Answering => AnswersTrue
  BY DEF Answering, AnswersTrue
<1> QED
  BY <1>1, <1>2, <1>3, PTL DEF Spec

=============================================================================
