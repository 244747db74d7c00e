--------------------------- MODULE ListenerProofs ---------------------------
(***************************************************************************)
(* The safety properties of the configuration and of the foreign listener, *)
(* for any number of workers, settings, crashes and Tor processes.         *)
(*                                                                         *)
(* ConfigInv is about the file, the copy in memory and the workers: who    *)
(* holds the wallet mutex (Exclusive), which files a start can find        *)
(* (StartOK), and that what a worker carries between two of its steps      *)
(* still agrees with the file (FreshOK) or cannot be told from it          *)
(* (OldFileOK, for a file without a version).  ListenerInv is about the    *)
(* listener's rounds, its watcher and its Tor process.                     *)
(***************************************************************************)
EXTENDS Listener, FiniteSetTheorems, TLAPS

-----------------------------------------------------------------------------
(* Types.                                                                  *)

Names == Known \cup {"future"}
Values == TorValues \cup {"2", "ext", "off", "x"}
Configs == UNION {[D -> Values] : D \in {E \in SUBSET Names : "tor" \in E}}

Kinds == {"none", "update", "reload", "create", "get"}
Steps == {"idle", "lock", "read", "empty", "fill", "temp", "rename", "set", "insert", "secret", "write"}
Jobs == [at : Steps, m : Kinds, v : Values \cup {"none"}, buf : Configs, old : Configs]

ConfigTyped ==
    /\ file \in [is : {"absent", "torn", "whole"}, has : Configs]
    /\ secret \in [Secrets -> {"absent", "empty", "whole"}]
    /\ cache \in [is : {"none", "cached"}, has : Configs]
    /\ lock \in Workers \cup {"free"} /\ wallet \in Workers \cup {"free"}
    /\ job \in [Workers -> Jobs]
    /\ start \in {"begin", "fill", "owner", "ownerWrite", "api", "apiWrite", "panic", "done"}
    /\ chan \in [tx : {"none", "current"}, waits : BOOLEAN, rx : BOOLEAN]
    /\ crashes \in Nat /\ legacy \in BOOLEAN /\ bare \subseteq Secrets

Places == {"down", "register", "config", "wallet", "serve", "files", "launch", "pid",
           "bootstrap", "started", "join"}

ListenerTyped ==
    /\ lst \in [at : Places, tor : Values, mine : {0, 1}, own : Nat]
    /\ opened \in BOOLEAN /\ restart \in BOOLEAN /\ stop \in BOOLEAN
    /\ watch \in {"none", "recv", "first", "second"}
    /\ launched \in Nat /\ procs \subseteq 1 .. launched /\ pid \in 0 .. launched
    /\ torn \in BOOLEAN /\ served \in BOOLEAN /\ orphans \subseteq Nat
    /\ hs \in {"absent", "dir", "whole"}

-----------------------------------------------------------------------------
(* The configuration.                                                      *)

Holding == {"update", "reload", "create"}

(* Where a job of each kind can be; update, reload and create are those    *)
(* that hold the wallet mutex, from their first step to their last.        *)
JobPlaced(t) ==
    /\ job[t].m = "none" <=> job[t].at = "idle"
    /\ job[t].m = "update" => /\ job[t].at \in {"lock", "read", "empty", "fill", "temp", "rename", "set"}
                              /\ job[t].v \in TorValues
    /\ job[t].m = "reload" => job[t].at \in {"lock", "read", "empty", "fill", "set"}
    /\ job[t].m = "create" => job[t].at \in {"empty", "fill", "lock", "read", "set", "secret", "write"}
    /\ job[t].m = "get" => job[t].at \in {"read", "empty", "fill", "insert"}

Exclusive == \A t \in Workers : JobPlaced(t) /\ (wallet = t <=> job[t].m \in Holding)

(* Until the start is done nothing else runs, and before it has read the   *)
(* file there is no copy of it.  It makes one secret after the other.      *)
StartOK ==
    /\ ~Up => bare = {} /\ \A t \in Workers : job[t].m = "none"
    /\ start \in {"begin", "fill", "panic"} => cache = NoCache
    /\ start = "fill" => file.is = "torn" /\ (~legacy => Known \subseteq DOMAIN file.has)
    /\ start \in {"api", "apiWrite"} => secret["owner"] = "whole"
    /\ Up /\ file.is # "absent" => \A f \in Secrets \ bare : secret[f] = "whole"
    /\ file.is = "absent" => file = NoFile /\ ~legacy

(* create_config makes the file, which then is whole, and the API secret   *)
(* at its end.                                                             *)
CreateOK ==
    \A t \in Workers : job[t].m = "create" =>
        /\ ~legacy /\ bare = Secrets
        /\ job[t].at = "empty" => file.is = "absent"
        /\ job[t].at = "fill" => file.is = "torn"
        /\ job[t].at \notin {"empty", "fill"} => file.is = "whole"

(* What a worker read, it still carries.                                   *)
Carries(t) == job[t].at \in {"temp", "rename", "set"}
HasRead(t) == Carries(t) \/ job[t].at = "insert"
Setting == \E t \in Workers : job[t].at = "set"

(* A file of this version.                                                 *)
FreshOK ==
    ~legacy =>
        /\ file.is = "whole" => Known \subseteq DOMAIN file.has
        /\ file.is # "whole" => cache = NoCache
        /\ \A t \in Workers :
             /\ job[t].at \in {"empty", "fill"} => job[t].m = "create"
             /\ HasRead(t) => file.is = "whole" /\ Known \subseteq DOMAIN job[t].buf
             /\ job[t].at = "rename" /\ "future" \in DOMAIN file.has => "future" \in DOMAIN job[t].old
             /\ job[t].at = "set" => NewMembers(t) = Parse(file.has)
             /\ job[t].at = "insert" /\ cache = NoCache /\ ~Setting => Parse(job[t].buf) = Parse(file.has)
        /\ cache # NoCache /\ ~Setting => cache.has = Parse(file.has)

(* A file without a version came from an earlier program, and the settings *)
(* this one does not know are in every copy of it.                         *)
OldFileOK ==
    legacy =>
        /\ file.is # "absent"
        /\ file.is = "whole" \/ start = "fill" => "future" \in DOMAIN file.has
        /\ \A t \in Workers :
             /\ HasRead(t) \/ job[t].at \in {"empty", "fill"} => "future" \in DOMAIN job[t].buf
             /\ job[t].at = "rename" => "future" \in DOMAIN job[t].old

ConfigInv == ConfigTyped /\ Exclusive /\ StartOK /\ CreateOK /\ FreshOK /\ OldFileOK

-----------------------------------------------------------------------------
(* The listener.                                                           *)

ListenerInv ==
    /\ ListenerTyped
    /\ Listening => Up
    /\ stop \/ watch = "second" => restart
    /\ served => lst.tor = "int" /\ lst.at \in {"started", "join"}
    /\ procs \ orphans \subseteq IF lst.at = "pid" THEN {launched} ELSE {pid}
    /\ lst.at \in {"files", "launch", "pid", "bootstrap"} => lst.tor = "ext"
    /\ lst.own # 0 => lst.own = pid /\ lst.tor = "ext" /\ lst.at \in {"bootstrap", "started", "join"}

Inv == ConfigInv /\ ListenerInv

-----------------------------------------------------------------------------
(* Configurations.                                                         *)

(* What it takes to be a configuration.                                    *)
LEMMA ConfigIntro ==
    ASSUME NEW D \in SUBSET Names, "tor" \in D, NEW c \in [D -> Values]
    PROVE  c \in Configs
BY DEF Configs

(* What a configuration is.                                                *)
LEMMA ConfigElim ==
    ASSUME NEW c \in Configs
    PROVE  DOMAIN c \subseteq Names /\ "tor" \in DOMAIN c /\ c \in [DOMAIN c -> Values]
BY DEF Configs

(* The default is a configuration of this version.                         *)
LEMMA DefaultConfig == Default \in Configs /\ DOMAIN Default = Known
<1>1. Default \in [Known -> Values] /\ Known \in SUBSET Names /\ "tor" \in Known
  BY DEF Default, Known, Values, Names
<1> QED
  BY <1>1, ConfigIntro

(* Reading keeps what the program knows.                                   *)
LEMMA ParseConfig ==
    ASSUME NEW c \in Configs
    PROVE  Parse(c) \in Configs /\ DOMAIN Parse(c) = DOMAIN c \cap Known /\ Parse(Parse(c)) = Parse(c)
<1>1. Parse(c) \in [DOMAIN c \cap Known -> Values] /\ "tor" \in DOMAIN c \cap Known
  BY ConfigElim DEF Parse, Known
<1>2. Parse(c) \in Configs
  BY <1>1, ConfigIntro DEF Names
<1>3. Parse(Parse(c)) = Parse(c)
  BY DEF Parse
<1> QED
  BY <1>1, <1>2, <1>3

(* Migration gives every setting a value, and changes none.                *)
LEMMA MigratedConfig ==
    ASSUME NEW c \in Configs
    PROVE  /\ Migrated(c) \in Configs /\ DOMAIN Migrated(c) = Known
           /\ Parse(Migrated(c)) = Migrated(c)
           /\ Known \subseteq DOMAIN c => Migrated(c) = Parse(c)
<1>1. Migrated(c) \in [Known -> Values]
  BY ConfigElim DEF Migrated, Known, Values, Default
<1>2. Migrated(c) \in Configs
  BY <1>1, ConfigIntro DEF Names, Known
<1>3. Parse(Migrated(c)) = Migrated(c)
  BY DEF Parse, Migrated
<1>4. Known \subseteq DOMAIN c => Migrated(c) = Parse(c)
  BY DEF Parse, Migrated
<1> QED
  BY <1>1, <1>2, <1>3, <1>4

(* SetTor changes one setting.                                             *)
LEMMA SetTorConfig ==
    ASSUME NEW c \in Configs, NEW v \in Values
    PROVE  LET d == SetTor(Parse(c), v)
           IN  d \in Configs /\ DOMAIN d = DOMAIN c \cap Known /\ Parse(d) = d
<1> DEFINE d == SetTor(Parse(c), v)
<1>1. DOMAIN Parse(c) = DOMAIN c \cap Known /\ "tor" \in DOMAIN c \cap Known
  BY ConfigElim, ParseConfig DEF Known
<1>2. d \in [DOMAIN c \cap Known -> Values]
  BY <1>1, ParseConfig, ConfigElim DEF SetTor
<1>3. d \in Configs
  BY <1>1, <1>2, ConfigIntro DEF Names
<1>4. Parse(d) = d
  BY <1>1 DEF Parse, SetTor
<1> QED
  BY <1>2, <1>3, <1>4

(* merge_config: reading a merged file gives what was saved, and a setting *)
(* the program does not know stays.                                        *)
LEMMA MergeConfig ==
    ASSUME NEW old \in Configs, NEW new \in Configs
    PROVE  LET d == merge_config(old, new)
           IN  /\ d \in Configs
               /\ DOMAIN new \subseteq DOMAIN d
               /\ "future" \in DOMAIN d <=> "future" \in DOMAIN old \cup DOMAIN new
               /\ Parse(d) = Parse(new)
<1> DEFINE kept == (DOMAIN old \ (DOMAIN Parse(old) \ DOMAIN new)) \cup DOMAIN new
           d == merge_config(old, new)
<1>1. DOMAIN Parse(old) = DOMAIN old \cap Known
  BY DEF Parse
<1>2. DOMAIN d = kept
  BY DEF merge_config
<1>3. d \in [kept -> Values]
  BY <1>1, ConfigElim DEF merge_config
<1>4. kept \subseteq Names /\ "tor" \in kept
  BY ConfigElim
<1>5. d \in Configs
  BY <1>3, <1>4, ConfigIntro
<1>6. "future" \in DOMAIN d <=> "future" \in DOMAIN old \cup DOMAIN new
  BY <1>1, <1>2 DEF Known
<1>7. DOMAIN d \cap Known = DOMAIN new \cap Known
  BY <1>1, <1>2
<1>8. \A k \in DOMAIN new : d[k] = new[k]
  BY DEF merge_config
<1>9. Parse(d) = Parse(new)
  BY <1>7, <1>8 DEF Parse
<1> QED
  BY <1>2, <1>5, <1>6, <1>9

-----------------------------------------------------------------------------
(* The steps of a worker.                                                  *)

(* What is carried has the right shape.                                    *)
LEMMA JobFacts ==
    ASSUME ConfigInv, NEW t \in Workers
    PROVE  /\ job[t] \in Jobs /\ job[t].buf \in Configs /\ job[t].old \in Configs
           /\ file.has \in Configs /\ NoWork \in Jobs /\ Default \in Configs /\ t # "free"
           /\ \A u \in Workers : u # t /\ job[t].m \in Holding => job[u].m \notin Holding
BY DefaultConfig, ConfigAssumption DEF ConfigInv, ConfigTyped, Exclusive, Jobs, NoWork, Steps, Kinds

(* What set_global_config will be given.                                   *)
LEMMA NewMembersFacts ==
    ASSUME ConfigInv, NEW t \in Workers
    PROVE  /\ NewMembers(t) \in Configs
           /\ DOMAIN NewMembers(t) = DOMAIN job[t].buf \cap Known
           /\ Parse(NewMembers(t)) = NewMembers(t)
<1>1. job[t].m = "update" => job[t].v \in Values
  BY DEF ConfigInv, Exclusive, JobPlaced, Values
<1> QED
  BY <1>1, JobFacts, ParseConfig, SetTorConfig DEF NewMembers
(* A job begins.                                                           *)
LEMMA BeginFacts ==
    ASSUME ConfigInv, NEW t \in Workers, NEW m \in Kinds, NEW v \in TorValues \cup {"none"}, NEW at \in Steps,
           Begin(t, m, v, at)
    PROVE  /\ Up /\ job[t].m = "none" /\ job[t].at = "idle"
           /\ job' \in [Workers -> Jobs]
           /\ job'[t].at = at /\ job'[t].m = m /\ job'[t].v = v
           /\ \A u \in Workers : u # t => job'[u] = job[u]
<1> DEFINE j == [NoWork EXCEPT !.at = at, !.m = m, !.v = v]
<1>1. j \in Jobs /\ j.at = at /\ j.m = m /\ j.v = v
  BY JobFacts DEF NoWork, Jobs, Values
<1>2. job[t].m = "none" /\ job[t].at = "idle"
  BY DEF Begin, NoWork
<1>3. job' = [job EXCEPT ![t] = j] /\ Up
  BY DEF Begin
<1> HIDE DEF j
<1> QED
  BY <1>1, <1>2, <1>3 DEF ConfigInv, ConfigTyped

(* Every kind of job starts where no step but the taking of the lock, the  *)
(* reading or the creating of the file was done.                           *)
LEMMA BeginInv ==
    ASSUME ConfigInv, NEW t \in Workers,
           set_tor_config(t) \/ reload_global_config(t) \/ create_config(t) \/ get_global_config(t)
    PROVE  ConfigInv'
<1> DEFINE started(m, at) ==
             /\ Up /\ job[t].m = "none" /\ job[t].at = "idle"
             /\ job' \in [Workers -> Jobs]
             /\ job'[t].at = at /\ job'[t].m = m /\ (m = "update" => job'[t].v \in TorValues)
             /\ \A u \in Workers : u # t => job'[u] = job[u]
<1>1. /\ UNCHANGED <<file, secret, cache, lock, start, chan, crashes, legacy>>
      /\ \/ /\ started("update", "lock") \/ started("reload", "lock")
            /\ wallet = "free" /\ wallet' = t /\ UNCHANGED bare
         \/ /\ started("create", "empty") /\ file.is = "absent"
            /\ wallet = "free" /\ wallet' = t /\ bare' = Secrets
         \/ started("get", "read") /\ UNCHANGED <<wallet, bare>>
  <2>1. CASE set_tor_config(t)
    <3>1. PICK v \in TorValues : Begin(t, "update", v, "lock")
      BY <2>1 DEF set_tor_config
    <3> QED
      BY <2>1, <3>1, BeginFacts DEF set_tor_config, Kinds, Steps
  <2>2. CASE reload_global_config(t)
    BY <2>2, BeginFacts DEF reload_global_config, Kinds, Steps
  <2>3. CASE create_config(t)
    BY <2>3, BeginFacts DEF create_config, Kinds, Steps
  <2>4. CASE get_global_config(t)
    BY <2>4, BeginFacts DEF get_global_config, Kinds, Steps
  <2> QED
    BY <2>1, <2>2, <2>3, <2>4
<1> USE JobFacts DEF ConfigInv
<1>2. ConfigTyped'
  BY <1>1 DEF ConfigTyped
<1>3. Exclusive'
  BY <1>1 DEF Exclusive, JobPlaced, Holding
<1>4. StartOK'
  BY <1>1 DEF StartOK, Up
<1>5. CreateOK'
  BY <1>1 DEF CreateOK, StartOK
<1>6. FreshOK'
  BY <1>1 DEF FreshOK, HasRead, Carries, Setting, NewMembers
<1>7. OldFileOK'
  BY <1>1 DEF OldFileOK, HasRead, Carries, StartOK
<1> QED
  BY <1>2, <1>3, <1>4, <1>5, <1>6, <1>7

(* What a worker moves to; the other workers stay where they are.          *)
Moved(t) ==
    /\ job' \in [Workers -> Jobs]
    /\ \A u \in Workers : u # t => job'[u] = job[u]

(* The save lock is taken.                                                 *)
LEMMA TakeLockInv ==
    ASSUME ConfigInv, NEW t \in Workers, TakeLock(t)
    PROVE  ConfigInv'
<1> USE JobFacts DEF ConfigInv
<1>1. /\ Moved(t) /\ job[t].at = "lock" /\ job'[t].at = "read" /\ job'[t].m = job[t].m
      /\ job'[t].v = job[t].v /\ job'[t].buf = job[t].buf /\ job'[t].old = job[t].old
  BY DEF TakeLock, Go, ConfigTyped, Jobs, Steps, Moved
<1>2. UNCHANGED <<file, secret, cache, wallet, start, chan, crashes, legacy, bare>> /\ lock' = t
  BY DEF TakeLock
<1> USE DEF Moved
<1>3. ConfigTyped'
  BY <1>1, <1>2 DEF ConfigTyped
<1>4. Exclusive'
  BY <1>1, <1>2 DEF Exclusive, JobPlaced, Holding
<1>5. StartOK'
  BY <1>1, <1>2 DEF StartOK, Up
<1>6. CreateOK'
  BY <1>1, <1>2 DEF CreateOK
<1>7. FreshOK'
  BY <1>1, <1>2 DEF FreshOK, HasRead, Carries, Setting, NewMembers
<1>8. OldFileOK'
  BY <1>1, <1>2 DEF OldFileOK, HasRead, Carries
<1> QED
  BY <1>3, <1>4, <1>5, <1>6, <1>7, <1>8

(* The end of a job that did not change the file or its copy.              *)
LEMMA EndInv ==
    ASSUME ConfigInv, NEW t \in Workers, job[t].at # "set",
           Finish(t), wallet' = IF wallet = t THEN "free" ELSE wallet, lock' \in {lock, "free"},
           \/ UNCHANGED <<secret, bare>>
           \/ /\ job[t].m = "create" /\ bare' = bare \ {"api"}
              /\ secret' \in [Secrets -> {"absent", "empty", "whole"}] /\ secret'["api"] = "whole",
           crashes' \in Nat, UNCHANGED <<file, cache, start, chan, legacy>>
    PROVE  ConfigInv'
<1> USE JobFacts DEF ConfigInv
<1>1. Moved(t) /\ job'[t].m = "none" /\ job'[t].at = "idle"
  BY DEF ConfigTyped, Finish, NoWork, Moved
<1> USE DEF Moved
<1>2. ConfigTyped'
  BY <1>1 DEF ConfigTyped
<1>3. Exclusive'
  BY <1>1 DEF Exclusive, JobPlaced, Holding
<1>4. StartOK'
  BY <1>1 DEF StartOK, Up, CreateOK, Secrets
<1>5. CreateOK'
  BY <1>1 DEF CreateOK, Exclusive, JobPlaced, Holding, Whole, Torn
<1>6. FreshOK'
  BY <1>1 DEF FreshOK, HasRead, Carries, Setting, NewMembers, CreateOK, Exclusive, JobPlaced, Holding, Whole, Torn
<1>7. OldFileOK'
  BY <1>1 DEF OldFileOK, HasRead, Carries, Whole, Torn, CreateOK
<1> QED
  BY <1>2, <1>3, <1>4, <1>5, <1>6, <1>7

(* read_config.                                                            *)
LEMMA ReadInv ==
    ASSUME ConfigInv, NEW t \in Workers, read_config(t)
    PROVE  ConfigInv'
<1>1. CASE file.is # "whole"
  <2>1. job[t].m # "create"
    BY <1>1 DEF ConfigInv, CreateOK, read_config
  <2> QED
    BY <1>1, <2>1, EndInv DEF read_config, Release, ConfigInv, ConfigTyped
<1>2. CASE file.is = "whole"
  <2> USE JobFacts DEF ConfigInv
  <2> DEFINE next == IF NeedsMigration(file.has) THEN "empty" ELSE AfterRead(t)
  <2>1. job[t].m \in Holding \cup {"get"} /\ job[t].at = "read"
    BY DEF Exclusive, JobPlaced, read_config, ConfigTyped, Jobs, Kinds, Holding
  <2>2. next \in {"empty", "temp", "insert", "set"}
    BY DEF AfterRead
  <2>3. job' = [job EXCEPT ![t].buf = file.has, ![t].at = next]
    BY <1>2 DEF read_config
  <2>4. /\ Moved(t)
        /\ job'[t].at = next /\ job'[t].m = job[t].m /\ job'[t].v = job[t].v
        /\ job'[t].buf = file.has
    <3> DEFINE j == [job[t] EXCEPT !.buf = file.has, !.at = next]
    <3>1. j \in Jobs /\ j.at = next /\ j.m = job[t].m /\ j.v = job[t].v /\ j.buf = file.has
      BY <2>2 DEF Jobs, Steps
    <3>2. job' = [job EXCEPT ![t] = j]
      BY <2>3 DEF ConfigTyped
    <3> HIDE DEF j
    <3> QED
      BY <3>1, <3>2 DEF ConfigTyped, Moved
  <2>5. UNCHANGED <<file, secret, cache, lock, wallet, start, chan, crashes, legacy, bare>>
    BY <1>2 DEF read_config
  <2>6. /\ next = "empty" <=> "version" \notin DOMAIN file.has
        /\ next = "temp" => job[t].m = "update"
        /\ next = "insert" <=> job[t].m = "get" /\ next # "empty"
        /\ next = "set" => job[t].m \in {"reload", "create"}
    BY <2>1 DEF AfterRead, NeedsMigration, Holding
  <2>7. "version" \in Known
    BY DEF Known
  <2> HIDE DEF next
  <2> USE DEF Moved
  <2>8. next = "empty" => legacy
    BY <1>2, <2>6, <2>7 DEF FreshOK, ConfigTyped
<2>9. ConfigTyped'
  BY <1>2, <2>1, <2>2, <2>4, <2>5, <2>6, <2>7, <2>8 DEF ConfigTyped
<2>10. Exclusive'
  BY <1>2, <2>1, <2>2, <2>4, <2>5, <2>6, <2>7, <2>8 DEF Exclusive, JobPlaced, Holding
<2>11. StartOK'
  BY <1>2, <2>1, <2>2, <2>4, <2>5, <2>6, <2>7, <2>8 DEF StartOK, Up, NoFile, Whole, Torn
<2>12. CreateOK'
  BY <1>2, <2>1, <2>2, <2>4, <2>5, <2>6, <2>7, <2>8 DEF CreateOK, Exclusive, JobPlaced, Holding, Whole, Torn
<2>13. FreshOK'
  BY <1>2, <2>1, <2>2, <2>4, <2>5, <2>6, <2>7, <2>8 DEF FreshOK, HasRead, Carries, Setting, NewMembers, CreateOK, Exclusive, JobPlaced, Holding, Whole, Torn
<2>14. OldFileOK'
  BY <1>2, <2>1, <2>2, <2>4, <2>5, <2>6, <2>7, <2>8 DEF OldFileOK, HasRead, Carries, Whole, Torn, CreateOK
<2> QED
  BY <2>9, <2>10, <2>11, <2>12, <2>13, <2>14
<1> QED
  BY <1>1, <1>2
(* A file is emptied.                                                      *)
LEMMA EmptiedInv ==
    ASSUME ConfigInv, NEW t \in Workers, FileEmptied(t)
    PROVE  ConfigInv'
<1> USE JobFacts DEF ConfigInv
<1>1. /\ Moved(t) /\ job[t].at = "empty"
      /\ job'[t].at = "fill" /\ job'[t].m = job[t].m /\ job'[t].v = job[t].v
      /\ job'[t].buf = job[t].buf
  BY DEF FileEmptied, Go, ConfigTyped, Jobs, Steps, Moved
<1>2. file'.is = "torn" /\ file'.has = Default /\ UNCHANGED <<secret, cache, lock, wallet, start, chan, crashes, legacy, bare>>
  BY DEF FileEmptied, Torn
<1>3. /\ job[t].m # "create" => legacy
      /\ \A u \in Workers : u # t /\ job[u].m = "create" => job[t].m # "create" /\ ~legacy
  BY <1>1 DEF ConfigTyped, Exclusive, Holding, CreateOK, FreshOK
<1> USE DEF Moved
<1>4. ConfigTyped'
  BY <1>1, <1>2, <1>3 DEF ConfigTyped, FileEmptied, Torn
<1>5. Exclusive'
  BY <1>1, <1>2, <1>3 DEF Exclusive, JobPlaced, Holding
<1>6. StartOK'
  BY <1>1, <1>2, <1>3 DEF StartOK, Exclusive, JobPlaced, Up, CreateOK, OldFileOK
<1>7. CreateOK'
  BY <1>1, <1>2, <1>3 DEF CreateOK, Exclusive, JobPlaced, Holding
<1>8. FreshOK'
  BY <1>1, <1>2, <1>3 DEF FreshOK, HasRead, Carries, Setting, NewMembers, CreateOK, Exclusive, JobPlaced, Holding
<1>9. OldFileOK'
  BY <1>1, <1>2, <1>3 DEF OldFileOK, HasRead, Carries, CreateOK, StartOK, Exclusive, JobPlaced, Up
<1> QED
  BY <1>4, <1>5, <1>6, <1>7, <1>8, <1>9

(* A file is filled.                                                       *)
LEMMA FilledInv ==
    ASSUME ConfigInv, NEW t \in Workers, FileFilled(t)
    PROVE  ConfigInv'
<1> USE JobFacts DEF ConfigInv
<1> DEFINE c == IF job[t].m = "create" THEN Default ELSE merge_config(job[t].buf, Migrated(job[t].buf))
           next == IF job[t].m = "create" THEN "lock" ELSE AfterRead(t)
<1>1. /\ c \in Configs
      /\ job[t].m # "create" /\ "future" \in DOMAIN job[t].buf => "future" \in DOMAIN c
  BY MigratedConfig, MergeConfig
<1>2. DOMAIN Default = Known
  BY DefaultConfig
<1>3. next \in {"lock", "temp", "insert", "set"}
  BY DEF AfterRead
<1>4. /\ Moved(t) /\ job[t].at = "fill"
      /\ job'[t].at = next /\ job'[t].m = job[t].m /\ job'[t].v = job[t].v
      /\ job'[t].buf = c
  <2> DEFINE j == [job[t] EXCEPT !.buf = c, !.at = next]
  <2> HIDE DEF c
  <2>1. j \in Jobs /\ j.at = next /\ j.m = job[t].m /\ j.v = job[t].v /\ j.buf = c
    BY <1>1, <1>3 DEF Jobs, Steps
  <2>2. job' = [job EXCEPT ![t] = j] /\ job[t].at = "fill"
    BY DEF c, ConfigTyped, FileFilled
  <2> HIDE DEF j
  <2> QED
    BY <2>1, <2>2 DEF ConfigTyped, Moved
<1>5. file' = [is |-> "whole", has |-> c] /\ UNCHANGED <<secret, cache, lock, wallet, start, chan, crashes, legacy, bare>>
  BY DEF FileFilled, Whole
<1>6. /\ job[t].m = "create" => next = "lock" /\ c = Default
      /\ next = "temp" => job[t].m = "update"
      /\ next = "insert" => job[t].m \notin Holding
      /\ job[t].m = "get" => next = "insert"
      /\ next = "lock" => job[t].m = "create"
      /\ job[t].m = "update" => next = "temp"
      /\ job[t].m = "reload" => next = "set"
  BY DEF AfterRead, Holding
<1>7. job[t].m # "none" /\ job[t].m \in Kinds
  BY <1>4 DEF Exclusive, JobPlaced, ConfigTyped, Jobs
<1>8. /\ job[t].m # "create" => legacy
      /\ \A u \in Workers : u # t /\ job[u].m = "create" => job[t].m # "create" /\ ~legacy
  BY <1>4 DEF ConfigTyped, Exclusive, Holding, CreateOK, FreshOK
<1> HIDE DEF c, next
<1> USE DEF Moved
<1>9. ConfigTyped'
  BY <1>1, <1>2, <1>3, <1>4, <1>5, <1>6, <1>7, <1>8 DEF ConfigTyped
<1>10. Exclusive'
  BY <1>1, <1>2, <1>3, <1>4, <1>5, <1>6, <1>7, <1>8 DEF Exclusive, JobPlaced, Holding, Kinds
<1>11. StartOK'
  BY <1>1, <1>2, <1>3, <1>4, <1>5, <1>6, <1>7, <1>8 DEF StartOK, Exclusive, JobPlaced, Up, CreateOK, OldFileOK
<1>12. CreateOK'
  BY <1>1, <1>2, <1>3, <1>4, <1>5, <1>6, <1>7, <1>8 DEF CreateOK, Exclusive, JobPlaced, Holding, Kinds
<1>13. FreshOK'
  BY <1>1, <1>2, <1>3, <1>4, <1>5, <1>6, <1>7, <1>8 DEF FreshOK, HasRead, Carries, Setting, NewMembers, CreateOK, Exclusive, JobPlaced, Holding, Kinds
<1>14. OldFileOK'
  BY <1>1, <1>2, <1>3, <1>4, <1>5, <1>6, <1>7, <1>8 DEF OldFileOK, HasRead, Carries, CreateOK
<1> QED
  BY <1>9, <1>10, <1>11, <1>12, <1>13, <1>14

(* A failing file ends a job, whatever it has done so far.                 *)
LEMMA JobFailsInv ==
    ASSUME ConfigInv, NEW t \in Workers, JobFails(t)
    PROVE  ConfigInv'
<1>1. job[t].at # "set" /\ crashes' \in Nat
  BY DEF ConfigInv, ConfigTyped, JobFails
<1> QED
  BY <1>1, EndInv DEF JobFails, Release, ConfigInv, ConfigTyped

(* save_locked, up to the rename.                                          *)
LEMMA WriteTempInv ==
    ASSUME ConfigInv, NEW t \in Workers, WriteTemp(t)
    PROVE  ConfigInv'
<1>1. job[t].at = "temp" /\ job[t].m = "update" /\ crashes \in Nat
  BY DEF ConfigInv, ConfigTyped, Exclusive, JobPlaced, Jobs, Kinds, WriteTemp
<1>2. CASE file.is # "whole"
  BY <1>1, <1>2, EndInv DEF WriteTemp, Release, ConfigInv, ConfigTyped
<1>3. CASE file.is = "whole"
  <2> USE JobFacts DEF ConfigInv
  <2>1. /\ Moved(t) /\ job[t].at = "temp"
        /\ job'[t].at = "rename" /\ job'[t].m = job[t].m /\ job'[t].v = job[t].v
        /\ job'[t].buf = job[t].buf /\ job'[t].old = file.has
    <3> DEFINE j == [job[t] EXCEPT !.old = file.has, !.at = "rename"]
    <3>1. j \in Jobs /\ j.at = "rename" /\ j.m = job[t].m /\ j.v = job[t].v /\ j.buf = job[t].buf /\ j.old = file.has
      BY DEF Jobs, Steps
    <3>2. job' = [job EXCEPT ![t] = j] /\ job[t].at = "temp"
      BY <1>3 DEF ConfigTyped, WriteTemp
    <3> HIDE DEF j
    <3> QED
      BY <3>1, <3>2 DEF ConfigTyped, Moved
  <2>2. UNCHANGED <<file, secret, cache, lock, wallet, start, chan, crashes, legacy, bare>>
    BY <1>3 DEF WriteTemp
  <2> USE DEF Moved
<2>3. ConfigTyped'
  BY <1>1, <1>3, <2>1, <2>2 DEF ConfigTyped
<2>4. Exclusive'
  BY <1>1, <1>3, <2>1, <2>2 DEF Exclusive, JobPlaced, Holding
<2>5. StartOK'
  BY <1>1, <1>3, <2>1, <2>2 DEF StartOK, Exclusive, JobPlaced, Up, NoFile
<2>6. CreateOK'
  BY <1>1, <1>3, <2>1, <2>2 DEF CreateOK, Exclusive, JobPlaced, Holding
<2>7. FreshOK'
  BY <1>1, <1>3, <2>1, <2>2 DEF FreshOK, HasRead, Carries, Setting, NewMembers, CreateOK, Exclusive, JobPlaced, Holding
<2>8. OldFileOK'
  BY <1>1, <1>3, <2>1, <2>2 DEF OldFileOK, HasRead, Carries, CreateOK
<2> QED
  BY <2>3, <2>4, <2>5, <2>6, <2>7, <2>8
<1> QED
  BY <1>2, <1>3

(* The rename: the new file says what set_global_config will be given.     *)
LEMMA RenameInv ==
    ASSUME ConfigInv, NEW t \in Workers, Rename(t)
    PROVE  ConfigInv'
<1> USE JobFacts DEF ConfigInv
<1> DEFINE c == merge_config(job[t].old, NewMembers(t))
<1>1. job[t].at = "rename" /\ job[t].m = "update"
  BY DEF Rename, ConfigTyped, Exclusive, JobPlaced, Jobs, Kinds
<1>2. /\ c \in Configs
      /\ Parse(c) = NewMembers(t)
      /\ Known \subseteq DOMAIN job[t].buf => Known \subseteq DOMAIN c
      /\ "future" \in DOMAIN job[t].old => "future" \in DOMAIN c
  BY NewMembersFacts, MergeConfig
<1>3. /\ Moved(t) /\ job'[t].at = "set" /\ job'[t].m = job[t].m /\ job'[t].v = job[t].v
      /\ job'[t].buf = job[t].buf
  BY DEF Rename, Go, ConfigTyped, Jobs, Steps, Moved
<1>4. file' = [is |-> "whole", has |-> c] /\ UNCHANGED <<secret, cache, lock, wallet, start, chan, crashes, legacy, bare>>
  BY DEF Rename, Saved, Whole
<1>5. NewMembers(t)' = NewMembers(t)
  BY <1>3 DEF NewMembers
<1>6. \A u \in Workers : u # t =>
        job[u].m \in {"none", "get"} /\ job[u].at \notin {"set", "temp", "rename"}
  BY <1>1 DEF Exclusive, JobPlaced, Holding, ConfigTyped, Jobs, Kinds
<1>7. Up
  BY <1>1 DEF StartOK
<1> HIDE DEF c
<1> USE DEF Moved
<1>8. /\ ~legacy => file.is = "whole" /\ Known \subseteq DOMAIN job[t].buf
      /\ file.is # "absent"
  BY <1>1 DEF FreshOK, HasRead, Carries, OldFileOK
<1>9. Setting'
  BY <1>3 DEF Setting
<1>10. \A u \in Workers : job'[u].at = "set" => NewMembers(u)' = Parse(file'.has)
  <2> SUFFICES ASSUME NEW u \in Workers, job'[u].at = "set" PROVE NewMembers(u)' = Parse(file'.has)
    OBVIOUS
  <2>1. u = t
    BY <1>3, <1>6
  <2> QED
    BY <2>1, <1>2, <1>4, <1>5
<1>11. ConfigTyped'
  BY <1>1, <1>2, <1>3, <1>4, <1>6, <1>7 DEF ConfigTyped
<1>12. Exclusive'
  BY <1>1, <1>2, <1>3, <1>4, <1>6, <1>7 DEF Exclusive, JobPlaced, Holding
<1>13. StartOK'
  BY <1>1, <1>3, <1>4, <1>6, <1>7, <1>8 DEF StartOK, Up
<1>14. CreateOK'
  BY <1>1, <1>2, <1>3, <1>4, <1>6, <1>7 DEF CreateOK, Exclusive, JobPlaced, Holding
<1>15. FreshOK'
  BY <1>1, <1>2, <1>3, <1>4, <1>6, <1>7, <1>8, <1>9, <1>10 DEF FreshOK, HasRead, Carries, CreateOK, Exclusive, JobPlaced, Holding
<1>16. OldFileOK'
  BY <1>1, <1>2, <1>3, <1>4, <1>6, <1>7 DEF OldFileOK, HasRead, Carries, CreateOK
<1> QED
  BY <1>11, <1>12, <1>13, <1>14, <1>15, <1>16

(* The copy is replaced by what the file says.                             *)
LEMMA SetInv ==
    ASSUME ConfigInv, NEW t \in Workers, SetConfig(t)
    PROVE  ConfigInv'
<1> USE JobFacts DEF ConfigInv
<1>1. job[t].at = "set" /\ job[t].m \in Holding
  BY DEF SetConfig, ConfigTyped, Exclusive, JobPlaced, Jobs, Kinds, Holding
<1>2. /\ Moved(t)
      /\ \/ /\ job[t].m = "create" /\ job'[t].m = "create" /\ job'[t].at = "secret"
            /\ lock' = "free" /\ wallet' = wallet
         \/ /\ job[t].m # "create" /\ job'[t].m = "none" /\ job'[t].at = "idle"
            /\ lock' \in {lock, "free"} /\ wallet' = IF wallet = t THEN "free" ELSE wallet
  BY DEF SetConfig, Go, Finish, Release, ConfigTyped, Jobs, Steps, Moved, NoWork
<1>3. /\ cache' = [is |-> "cached", has |-> NewMembers(t)]
      /\ chan' \in [tx : {"none", "current"}, waits : BOOLEAN, rx : BOOLEAN]
      /\ UNCHANGED <<file, secret, start, crashes, legacy, bare>>
  BY DEF SetConfig, set_global_config, Cached, Notified, ConfigTyped
<1>4. NewMembers(t) \in Configs
  BY NewMembersFacts
<1>5. \A u \in Workers : u # t => job[u].at # "set"
  BY <1>1 DEF Exclusive, JobPlaced, Holding, ConfigTyped, Jobs, Kinds
<1>6. ~legacy => file.is = "whole" /\ NewMembers(t) = Parse(file.has)
  BY <1>1 DEF FreshOK, HasRead, Carries
<1>7. Up /\ file.is # "absent"
  BY <1>1, <1>6 DEF StartOK, Exclusive, JobPlaced, OldFileOK, ConfigTyped
<1> USE DEF Moved
<1>8. ConfigTyped'
  BY <1>2, <1>3, <1>4 DEF ConfigTyped
<1>9. Exclusive'
  BY <1>1, <1>2 DEF Exclusive, JobPlaced, Holding
<1>10. StartOK'
  BY <1>1, <1>2, <1>3, <1>7 DEF StartOK, Up, Holding
<1>11. CreateOK'
  BY <1>1, <1>2, <1>3 DEF CreateOK
<1>12. FreshOK'
  <2>1. cache' # NoCache /\ ~Setting'
    BY <1>2, <1>3, <1>5 DEF NoCache, Setting
  <2> QED
    BY <1>1, <1>2, <1>3, <1>5, <1>6, <2>1 DEF FreshOK, HasRead, Carries, NewMembers
<1>13. OldFileOK'
  BY <1>1, <1>2, <1>3 DEF OldFileOK, HasRead, Carries
<1> QED
  BY <1>8, <1>9, <1>10, <1>11, <1>12, <1>13

(* The first copy, unless there is one by then.                            *)
LEMMA InsertInv ==
    ASSUME ConfigInv, NEW t \in Workers, InsertConfig(t)
    PROVE  ConfigInv'
<1> USE JobFacts DEF ConfigInv
<1>1. job[t].at = "insert" /\ job[t].m = "get" /\ Up
  BY DEF InsertConfig, ConfigTyped, Exclusive, JobPlaced, Jobs, Kinds, StartOK
<1>2. Moved(t) /\ job'[t].m = "none" /\ job'[t].at = "idle"
  BY DEF InsertConfig, Finish, ConfigTyped, NoWork, Moved
<1>3. /\ cache' = IF cache = NoCache THEN [is |-> "cached", has |-> Parse(job[t].buf)] ELSE cache
      /\ UNCHANGED <<file, secret, lock, wallet, start, chan, crashes, legacy, bare>>
  BY DEF InsertConfig, cache_loaded_config, Cached
<1>4. Parse(job[t].buf) \in Configs
  BY ParseConfig
<1> USE DEF Moved
<1>5. ConfigTyped'
  BY <1>2, <1>3, <1>4 DEF ConfigTyped
<1>6. Exclusive'
  BY <1>1, <1>2, <1>3 DEF Exclusive, JobPlaced, Holding
<1>7. StartOK'
  BY <1>1, <1>2, <1>3 DEF StartOK, Up
<1>8. CreateOK'
  BY <1>2, <1>3 DEF CreateOK
<1>9. FreshOK'
  <2> USE DEF HasRead, Carries
  <2>1. cache' # NoCache /\ Setting' = Setting
    BY <1>1, <1>2, <1>3 DEF NoCache, Setting
  <2>2. ~legacy => file.is = "whole"
    BY <1>1 DEF FreshOK
  <2>3. ~legacy /\ ~Setting => cache'.has = Parse(file.has)
    BY <1>1, <1>3 DEF FreshOK
  <2>4. \A u \in Workers : job'[u].at = "set" => job'[u] = job[u] /\ NewMembers(u)' = NewMembers(u)
    BY <1>2 DEF NewMembers
  <2> QED
    BY <1>2, <1>3, <2>1, <2>2, <2>3, <2>4 DEF FreshOK
<1>10. OldFileOK'
  BY <1>2, <1>3 DEF OldFileOK, HasRead, Carries
<1> QED
  BY <1>5, <1>6, <1>7, <1>8, <1>9, <1>10

(* The API secret of a new configuration.                                  *)
LEMMA SecretInv ==
    ASSUME ConfigInv, NEW t \in Workers, CreateSecret(t)
    PROVE  ConfigInv'
<1>1. job[t].at \in {"secret", "write"} /\ job[t].m = "create" /\ crashes \in Nat
  BY DEF ConfigInv, ConfigTyped, Exclusive, JobPlaced, Jobs, Kinds, CreateSecret
<1>2. CASE /\ Finish(t) /\ Release(t) /\ bare' = bare \ {"api"}
           /\ \/ UNCHANGED secret /\ secret["api"] = "whole"
              \/ MakeSecret("api", "whole")
  <2>1. secret' \in [Secrets -> {"absent", "empty", "whole"}] /\ secret'["api"] = "whole"
    BY <1>2 DEF MakeSecret, ConfigInv, ConfigTyped, Secrets
  <2> QED
    BY <1>1, <1>2, <2>1, EndInv DEF CreateSecret, Release
<1>3. CASE Go(t, "write") /\ MakeSecret("api", "empty") /\ UNCHANGED <<lock, wallet, bare>>
  <2> USE JobFacts DEF ConfigInv
  <2>1. /\ Moved(t) /\ job'[t].m = job[t].m /\ job'[t].at = "write"
        /\ job'[t].v = job[t].v /\ job'[t].buf = job[t].buf /\ job'[t].old = job[t].old
    BY <1>3 DEF Go, ConfigTyped, Jobs, Steps, Moved
  <2>2. UNCHANGED <<file, cache, lock, wallet, start, chan, crashes, legacy, bare>>
    BY <1>3 DEF CreateSecret
  <2> USE DEF Moved
  <2>3. ConfigTyped'
    BY <1>3, <2>1, <2>2 DEF ConfigTyped, MakeSecret
  <2>4. Exclusive'
    BY <1>1, <2>1, <2>2 DEF Exclusive, JobPlaced, Holding
  <2>5. StartOK'
    BY <1>1, <1>3, <2>1, <2>2 DEF StartOK, Up, CreateOK
  <2>6. CreateOK'
    BY <1>1, <2>1, <2>2 DEF CreateOK
  <2>7. FreshOK'
    <3>1. \A u \in Workers : NewMembers(u)' = NewMembers(u)
      BY <1>1, <2>1 DEF NewMembers
    <3>2. Setting' = Setting
      BY <1>1, <2>1 DEF Setting
    <3> QED
      BY <1>1, <2>1, <2>2, <3>1, <3>2 DEF FreshOK, HasRead, Carries
  <2>8. OldFileOK'
    BY <1>1, <2>1, <2>2 DEF OldFileOK, HasRead, Carries
  <2> QED
    BY <2>3, <2>4, <2>5, <2>6, <2>7, <2>8
<1> QED
  BY <1>1, <1>2, <1>3 DEF CreateSecret, check_api_secret

(* Every step of a worker, and every job it may begin.                     *)
WorkerNext(t) ==
    \/ WorkerStep(t)
    \/ set_tor_config(t) \/ create_config(t) \/ get_global_config(t) \/ JobFails(t)
    \/ reload_global_config(t)

(* Each of them keeps the invariant.                                       *)
LEMMA WorkerInv ==
    ASSUME ConfigInv, NEW t \in Workers, WorkerNext(t)
    PROVE  ConfigInv'
BY BeginInv, JobFailsInv, TakeLockInv, ReadInv, EmptiedInv, FilledInv, WriteTempInv, RenameInv, SetInv, InsertInv, SecretInv
   DEF WorkerNext, WorkerStep

-----------------------------------------------------------------------------
(* The start of the process, its death, and the listener's load.           *)

(* Without a worker, what is left of the invariant.                        *)
Resting ==
    /\ ConfigTyped /\ StartOK
    /\ \A t \in Workers : job[t].m = "none" /\ job[t].at = "idle"
    /\ wallet = "free"
    /\ file.is = "whole" => IF legacy THEN "future" \in DOMAIN file.has ELSE Known \subseteq DOMAIN file.has
    /\ legacy => file.is # "absent" /\ (start = "fill" => "future" \in DOMAIN file.has)
    /\ ~legacy /\ cache # NoCache => file.is = "whole" /\ cache.has = Parse(file.has)

(* It is enough: nothing is half done and nobody holds a copy.             *)
LEMMA RestingInv == Resting => ConfigInv
<1> SUFFICES ASSUME Resting PROVE ConfigInv
  OBVIOUS
<1> USE DEF Resting
<1>1. Exclusive
  BY ConfigAssumption DEF Exclusive, JobPlaced, Holding
<1>2. CreateOK
  BY DEF CreateOK
<1>3. FreshOK
  BY DEF FreshOK, HasRead, Carries, Setting, ConfigTyped
<1>4. OldFileOK
  BY DEF OldFileOK, HasRead, Carries
<1> QED
  BY <1>1, <1>2, <1>3, <1>4 DEF ConfigInv

(* The same of the next state.                                             *)
LEMMA RestingInvNext == Resting' => ConfigInv'
BY RestingInv, PTL

(* The first states.                                                       *)
LEMMA ConfigInitInv == ConfigInit => ConfigInv
<1> SUFFICES ASSUME ConfigInit PROVE ConfigInv
  OBVIOUS
<1>1. \A c \in Configs : Future(c) \in Configs /\ "future" \in DOMAIN Future(c) /\ DOMAIN c \subseteq DOMAIN Future(c)
  <2> SUFFICES ASSUME NEW c \in Configs
               PROVE  Future(c) \in Configs /\ "future" \in DOMAIN Future(c) /\ DOMAIN c \subseteq DOMAIN Future(c)
    OBVIOUS
  <2>1. Future(c) \in [DOMAIN c \cup {"future"} -> Values]
    BY ConfigElim DEF Future, Values
  <2> QED
    BY <2>1, ConfigElim, ConfigIntro DEF Names
<1>2. Default \in Configs /\ DOMAIN Default = Known /\ [k \in {"tor"} |-> "off"] \in Configs
  <2>1. [k \in {"tor"} |-> "off"] \in [{"tor"} -> Values] /\ {"tor"} \in SUBSET Names
    BY DEF Values, Names, Known
  <2> QED
    BY <2>1, ConfigIntro, DefaultConfig
<1>3. "version" \in Known /\ DOMAIN Future([k \in {"tor"} |-> "off"]) = {"tor", "future"}
  BY DEF Known, Future
<1>4. PICK f \in {NoFile, Whole(Future(Default)), Whole(Future([k \in {"tor"} |-> "off"]))} :
         /\ file = f
         /\ legacy = (f.is = "whole" /\ NeedsMigration(f.has))
         /\ start \in {"begin", "done"}
         /\ secret = [s \in Secrets |->
                        IF f.is = "whole" /\ start = "done" THEN "whole" ELSE "absent"]
  BY DEF ConfigInit
<1>5. /\ cache = NoCache /\ lock = "free" /\ wallet = "free" /\ chan = NoChan
      /\ job = [t \in Workers |-> NoWork] /\ crashes = 0 /\ bare = {}
  BY DEF ConfigInit
<1>6. NoWork \in Jobs /\ NoWork.m = "none" /\ NoWork.at = "idle"
  BY <1>2 DEF NoWork, Jobs, Steps, Kinds
<1>7. /\ file.is \in {"absent", "whole"} /\ file.has \in Configs
      /\ file \in [is : {"absent", "torn", "whole"}, has : Configs]
      /\ file.is = "absent" => file = NoFile
      /\ file.is = "whole" => "future" \in DOMAIN file.has
      /\ legacy \in BOOLEAN /\ (legacy => file.is = "whole")
      /\ ~legacy /\ file.is = "whole" => Known \subseteq DOMAIN file.has
  <2>1. CASE f = NoFile
    BY <1>2, <1>4, <2>1 DEF NoFile
  <2>2. CASE f = Whole(Future(Default))
    BY <1>1, <1>2, <1>3, <1>4, <2>2 DEF Whole, NeedsMigration
  <2>3. CASE f = Whole(Future([k \in {"tor"} |-> "off"]))
    BY <1>1, <1>2, <1>3, <1>4, <2>3 DEF Whole, NeedsMigration
  <2> QED
    BY <1>4, <2>1, <2>2, <2>3
<1>8. ConfigTyped
  BY <1>2, <1>4, <1>5, <1>6, <1>7 DEF ConfigTyped, NoCache, NoChan
<1>9. StartOK
  BY <1>4, <1>5, <1>6, <1>7 DEF StartOK, Up
<1> QED
  BY <1>4, <1>5, <1>6, <1>7, <1>8, <1>9, RestingInv DEF Resting

(* The start of the process.                                               *)
LEMMA SetupInv ==
    ASSUME ConfigInv, Setup \/ SetupSecret
    PROVE  ConfigInv'
<1> USE DEF ConfigInv
<1>1. /\ ~Up /\ UNCHANGED <<lock, wallet, job, crashes, legacy, bare>>
      /\ \A t \in Workers : job[t].m = "none" /\ job[t].at = "idle"
  BY DEF Setup, SetupSecret, SetupFile, Up, StartOK, Exclusive, JobPlaced, Secrets, Writing
<1>2. wallet = "free"
  BY <1>1 DEF ConfigTyped, Exclusive, Holding
<1>3. file.has \in Configs /\ Default \in Configs /\ DOMAIN Default = Known
  BY DefaultConfig DEF ConfigTyped
<1>4. CASE SetupSecret
  <2>1. PICK f \in Secrets :
          \/ start = f /\ ~check_api_secret(secret[f]) /\ start' = Writing(f) /\ MakeSecret(f, "empty")
          \/ start = f /\ check_api_secret(secret[f]) /\ start' = AfterSecret(f) /\ UNCHANGED secret
          \/ start = Writing(f) /\ start' = AfterSecret(f) /\ MakeSecret(f, "whole")
    BY <1>4 DEF SetupSecret
  <2>6. /\ secret["owner"] \in {"absent", "empty", "whole"} /\ secret["api"] \in {"absent", "empty", "whole"}
        /\ DOMAIN secret = Secrets /\ "owner" \in Secrets /\ "api" \in Secrets
    BY DEF ConfigTyped, Secrets
  <2>2. /\ UNCHANGED <<file, cache, chan>>
        /\ \/ f = "owner" /\ start \in {"owner", "ownerWrite"} /\ start' \in {"ownerWrite", "api"}
           \/ f = "api" /\ start \in {"api", "apiWrite"} /\ start' \in {"apiWrite", "done"}
        /\ secret' \in [Secrets -> {"absent", "empty", "whole"}]
        /\ \A g \in Secrets : g # f => secret'[g] = secret[g]
        /\ start' = AfterSecret(f) => secret'[f] = "whole"
    <3>1. UNCHANGED <<file, cache, chan>>
      BY <1>4 DEF SetupSecret
    <3>2. \/ f = "owner" /\ start \in {"owner", "ownerWrite"} /\ start' \in {"ownerWrite", "api"}
          \/ f = "api" /\ start \in {"api", "apiWrite"} /\ start' \in {"apiWrite", "done"}
      BY <2>1 DEF Secrets, Writing, AfterSecret
    <3>3. \/ secret' = [secret EXCEPT ![f] = "empty"] /\ start' # AfterSecret(f)
          \/ secret' = secret /\ secret[f] = "whole"
          \/ secret' = [secret EXCEPT ![f] = "whole"]
      BY <2>1 DEF MakeSecret, check_api_secret, Secrets, Writing, AfterSecret
    <3>4. /\ secret' \in [Secrets -> {"absent", "empty", "whole"}]
          /\ \A g \in Secrets : g # f => secret'[g] = secret[g]
      BY <3>3 DEF ConfigTyped
    <3>5. start' = AfterSecret(f) => secret'[f] = "whole"
      BY <2>1, <3>3 DEF ConfigTyped
    <3> QED
      BY <3>1, <3>2, <3>4, <3>5
  <2>3. ConfigTyped'
    BY <1>1, <2>2 DEF ConfigTyped
  <2>4. StartOK'
    BY <1>1, <2>2 DEF StartOK, Up, Secrets, AfterSecret
  <2>5. Setting = FALSE
    BY <1>1 DEF Setting
  <2> QED
    BY <1>1, <1>2, <2>2, <2>3, <2>4, <2>5, RestingInvNext DEF Resting, FreshOK, OldFileOK, ConfigTyped
<1>5. CASE Setup
  <2> DEFINE m == merge_config(file.has, Migrated(file.has))
  <2>1. /\ UNCHANGED secret
        /\ chan' \in [tx : {"none", "current"}, waits : BOOLEAN, rx : BOOLEAN]
    BY <1>5 DEF Setup, SetupFile, set_global_config, Notified, ConfigTyped
  <2>2. /\ Parse(file.has) \in Configs /\ m \in Configs
        /\ Known \subseteq DOMAIN m
        /\ "future" \in DOMAIN file.has => "future" \in DOMAIN m
    BY <1>3, MigratedConfig, MergeConfig, ParseConfig
  <2> HIDE DEF m
  <2>3. CASE start = "begin" /\ file.is = "absent" /\ file' = InPlace(Default) /\ start' = "fill" /\ cache' = cache
    <3>1. ConfigTyped'
      BY <1>1, <1>3, <2>1, <2>3 DEF ConfigTyped, InPlace
    <3>2. StartOK'
      BY <1>1, <1>3, <2>1, <2>3 DEF StartOK, Up, InPlace
    <3> QED
      BY <1>1, <1>2, <2>3, <3>1, <3>2, RestingInvNext DEF Resting, StartOK, InPlace
  <2>4. CASE start = "begin" /\ file.is = "whole" /\ file' = InPlace(m) /\ start' = "fill" /\ cache' = cache
    <3>1. ConfigTyped'
      BY <1>1, <2>1, <2>2, <2>4 DEF ConfigTyped, InPlace
    <3>2. StartOK'
      BY <1>1, <2>1, <2>2, <2>4 DEF StartOK, Up, InPlace
    <3> QED
      BY <1>1, <1>2, <2>2, <2>4, <3>1, <3>2, RestingInvNext DEF Resting, StartOK, OldFileOK, InPlace
  <2>5. CASE start = "fill" /\ file' = Whole(file.has) /\ start' = "owner" /\ cache' = Cached(Parse(file.has))
    <3>1. ConfigTyped'
      BY <1>1, <1>3, <2>1, <2>2, <2>5 DEF ConfigTyped, Whole, Cached
    <3>2. StartOK'
      BY <1>1, <2>1, <2>5 DEF StartOK, Up, Whole
    <3> QED
      BY <1>1, <1>2, <2>5, <3>1, <3>2, RestingInvNext DEF Resting, StartOK, OldFileOK, Whole, Cached
  <2>6. CASE start = "begin" /\ start' = "panic" /\ file.is = "torn" /\ UNCHANGED <<file, cache, chan>>
    <3>1. ConfigTyped'
      BY <1>1, <2>1, <2>6 DEF ConfigTyped
    <3>2. StartOK' /\ cache = NoCache
      BY <1>1, <2>1, <2>6 DEF StartOK, Up
    <3> QED
      BY <1>1, <1>2, <2>6, <3>1, <3>2, RestingInvNext DEF Resting
  <2>7. CASE /\ start = "begin" /\ file.is = "whole" /\ start' = "owner" /\ UNCHANGED file
             /\ ~NeedsMigration(file.has) /\ cache' = Cached(Parse(file.has))
    <3>1. ConfigTyped'
      BY <1>1, <2>1, <2>2, <2>7 DEF ConfigTyped, Cached
    <3>2. StartOK'
      BY <1>1, <2>1, <2>7 DEF StartOK, Up
    <3> QED
      BY <1>1, <1>2, <2>7, <3>1, <3>2, RestingInvNext DEF Resting, FreshOK, OldFileOK, Cached
  <2> QED
    BY <1>5, <2>3, <2>4, <2>5, <2>6, <2>7 DEF Setup, SetupFile, set_global_config, m
<1> QED
  BY <1>4, <1>5

(* The death of the process: the file and the secret stay as they are.     *)
LEMMA CrashConfigInv ==
    ASSUME ConfigInv, CrashConfig
    PROVE  ConfigInv'
<1> USE DEF ConfigInv
<1>1. /\ job' \in [Workers -> Jobs] /\ wallet' = "free" /\ lock' = "free" /\ start' = "begin" /\ cache' = NoCache
      /\ \A t \in Workers : job'[t].m = "none" /\ job'[t].at = "idle"
      /\ chan' = NoChan /\ crashes' = crashes + 1 /\ bare' = {} /\ UNCHANGED <<file, secret, legacy>>
  BY DefaultConfig DEF CrashConfig, NoWork, Jobs, Steps, Kinds
<1>2. ConfigTyped'
  BY <1>1, DefaultConfig DEF ConfigTyped, NoCache, NoChan
<1>3. StartOK'
  BY <1>1 DEF StartOK, Up
<1> QED
  BY <1>1, <1>2, <1>3, RestingInvNext DEF Resting, FreshOK, OldFileOK

(* A step that leaves the configuration alone, but for the notice.         *)
LEMMA OtherInv ==
    ASSUME ConfigInv, chan' \in [tx : {"none", "current"}, waits : BOOLEAN, rx : BOOLEAN],
           crashes' \in Nat, UNCHANGED <<file, secret, cache, lock, wallet, job, start, legacy, bare>>
    PROVE  ConfigInv'
<1> USE DEF ConfigInv
<1>1. ConfigTyped'
  BY DEF ConfigTyped
<1>2. Exclusive' /\ StartOK' /\ CreateOK' /\ OldFileOK'
  BY DEF Exclusive, JobPlaced, StartOK, Up, CreateOK, OldFileOK, HasRead, Carries
<1>3. FreshOK'
  BY DEF FreshOK, HasRead, Carries, Setting, NewMembers
<1> QED
  BY <1>1, <1>2, <1>3

(* register_config_listener: the load migrates a file in place, while      *)
(* workers may be between two of their steps.                              *)
LEMMA RegisterConfigInv ==
    ASSUME ConfigInv, Up, register_config_listener
    PROVE  ConfigInv'
<1>1. /\ UNCHANGED <<secret, lock, wallet, job, start, crashes, legacy, bare>>
      /\ chan' \in [tx : {"none", "current"}, waits : BOOLEAN, rx : BOOLEAN]
  BY DEF register_config_listener
<1>2. CASE UNCHANGED <<cache, file>>
  BY <1>1, <1>2, OtherInv DEF ConfigInv, ConfigTyped
<1>3. CASE cache = NoCache /\ ~UNCHANGED <<cache, file>>
  <2> USE DEF ConfigInv
  <2> DEFINE m == Migrated(file.has)
             c == merge_config(file.has, m)
  <2>1. file.is = "whole" /\ cache' = Cached(m) /\ file' = Whole(c)
    BY <1>3 DEF register_config_listener
  <2>2. /\ m \in Configs /\ c \in Configs /\ Parse(c) = m /\ Known \subseteq DOMAIN c
        /\ Known \subseteq DOMAIN file.has => m = Parse(file.has)
        /\ "future" \in DOMAIN c <=> "future" \in DOMAIN file.has
    <3>1. file.has \in Configs
      BY DEF ConfigTyped
    <3>2. "future" \notin Known
      BY DEF Known
    <3> QED
      BY <3>1, <3>2, MigratedConfig, MergeConfig
  <2> HIDE DEF m, c
  <2>3. ConfigTyped'
    BY <1>1, <2>1, <2>2 DEF ConfigTyped, Cached, Whole
  <2>4. Exclusive' /\ StartOK'
    BY <1>1, <2>1 DEF Exclusive, JobPlaced, StartOK, Up, Whole
  <2>5. CreateOK' /\ OldFileOK'
    BY <1>1, <2>1, <2>2 DEF CreateOK, OldFileOK, HasRead, Carries, Whole
  <2>6. FreshOK'
    <3>1. cache' # NoCache /\ file'.has = c /\ file'.is = "whole" /\ cache'.has = m
      BY <2>1 DEF Cached, NoCache, Whole
    <3>2. \A t \in Workers : NewMembers(t)' = NewMembers(t)
      BY <1>1 DEF NewMembers
    <3>3. Setting' = Setting
      BY <1>1 DEF Setting
    <3> QED
      BY <1>1, <2>1, <2>2, <3>1, <3>2, <3>3 DEF FreshOK, HasRead, Carries
  <2> QED
    BY <2>3, <2>4, <2>5, <2>6
<1> QED
  BY <1>2, <1>3 DEF register_config_listener

-----------------------------------------------------------------------------
(* The listener's own steps.                                               *)

(* The first states.                                                       *)
LEMMA InitInv == Init => Inv
<1> SUFFICES ASSUME Init PROVE Inv
  OBVIOUS
<1>1. ConfigInv
  BY ConfigInitInv DEF Init
<1>2. lst.at = "down" /\ lst \in [at : Places, tor : Values, mine : {0, 1}, own : Nat]
  BY DEF Init, Places, Values
<1>3. ListenerTyped
  <2>1. launched \in Nat /\ procs \subseteq 1 .. launched /\ pid \in 0 .. launched
    BY DEF Init
  <2>2. opened \in BOOLEAN /\ restart \in BOOLEAN /\ stop \in BOOLEAN
        /\ torn \in BOOLEAN /\ served \in BOOLEAN /\ orphans \subseteq Nat
    BY DEF Init
  <2> QED
    BY <1>2, <2>1, <2>2 DEF Init, ListenerTyped
<1>4. ListenerInv
  BY <1>2, <1>3 DEF Init, ListenerInv, Listening
<1> QED
  BY <1>1, <1>4 DEF Inv

(* The rounds of foreign_listener, but for the registration.               *)
LEMMA RoundInv ==
    ASSUME Inv, Listen \/ RegisterFails \/ ReadTorConfig \/ TakeKey \/ Watch \/ Received \/ WatcherActs
                \/ Joined \/ StopFails \/ ApiFails \/ OpenClose
    PROVE  Inv'
<1>0. /\ chan \in [tx : {"none", "current"}, waits : BOOLEAN, rx : BOOLEAN]
      /\ crashes \in Nat
  BY DEF Inv, ConfigInv, ConfigTyped
<1>1. /\ UNCHANGED <<file, secret, cache, lock, wallet, job, start, legacy, bare>> /\ crashes' \in Nat
      /\ chan' \in [tx : {"none", "current"}, waits : BOOLEAN, rx : BOOLEAN]
  <2>1. CASE Listen \/ RegisterFails \/ ReadTorConfig \/ Watch \/ WatcherActs \/ OpenClose
    BY <1>0, <2>1 DEF Listen, RegisterFails, ReadTorConfig, Watch, WatcherActs, OpenClose, cvars
  <2>2. CASE TakeKey \/ Received \/ Joined \/ StopFails \/ ApiFails
    <3>1. CASE TakeKey
      BY <1>0, <3>1 DEF TakeKey
    <3>2. CASE Received
      BY <1>0, <3>2 DEF Received
    <3>3. CASE Joined
      BY <1>0, <3>3 DEF Joined
    <3>4. CASE StopFails
      BY <1>0, <3>4 DEF StopFails
    <3>5. CASE ApiFails
      BY <1>0, <3>5 DEF ApiFails
    <3> QED
      BY <2>2, <3>1, <3>2, <3>3, <3>4, <3>5
  <2> QED
    BY <2>1, <2>2
<1>2. ConfigInv'
  BY <1>1, OtherInv DEF Inv
<1>3. listener_tor_config \in Values
  BY ConfigElim DEF Inv, ConfigInv, ConfigTyped, listener_tor_config
<1> USE DEF Inv, ListenerInv, ListenerTyped, Places, Listening, Up
<1>4. CASE Listen
  BY <1>1, <1>2, <1>4 DEF Listen, To, tvars
<1>5. CASE RegisterFails
  BY <1>1, <1>2, <1>5 DEF RegisterFails, To, tvars
<1>6. CASE ReadTorConfig
  BY <1>1, <1>2, <1>3, <1>6 DEF ReadTorConfig, tvars
<1>7. CASE TakeKey
  BY <1>1, <1>2, <1>7 DEF TakeKey, To, tvars
<1>8. CASE Watch
  BY <1>1, <1>2, <1>8 DEF Watch, To, tvars
<1>9. CASE Received
  BY <1>1, <1>2, <1>9 DEF Received, tvars
<1>10. CASE WatcherActs
  BY <1>1, <1>2, <1>10 DEF WatcherActs, WatcherSteps, tvars
<1>11. CASE Joined
  BY <1>1, <1>2, <1>11 DEF Joined
<1>12. CASE OpenClose
  BY <1>1, <1>2, <1>12 DEF OpenClose, tvars
<1>13. CASE StopFails
  BY <1>1, <1>2, <1>13 DEF StopFails, To
<1>14. CASE ApiFails
  BY <1>1, <1>2, <1>14 DEF ApiFails, To, tvars
<1> QED
  BY <1>4, <1>5, <1>6, <1>7, <1>8, <1>9, <1>10, <1>11, <1>12, <1>13, <1>14

(* Tor is started, or it fails to.                                         *)
LEMMA TorInv ==
    ASSUME Inv, NoTor \/ start_tor_service \/ OnionDir \/ OnionFiles \/ Launch \/ LaunchFails
                \/ PidEmptied \/ PidWritten \/ PidFails \/ Bootstrap
    PROVE  Inv'
<1>1. UNCHANGED <<file, secret, cache, lock, wallet, job, start, chan, legacy, bare>> /\ crashes' \in Nat
  <2>1. crashes \in Nat
    BY DEF Inv, ConfigInv, ConfigTyped
  <2> QED
    <3>1. CASE PidFails
      BY <2>1, <3>1 DEF PidFails
    <3>2. CASE ~PidFails
      BY <2>1, <3>2 DEF NoTor, start_tor_service, OnionDir, OnionFiles, Launch, LaunchFails, PidEmptied,
                        PidWritten, Bootstrap, cvars
    <3> QED
      BY <3>1, <3>2
<1>2. ConfigInv'
  BY <1>1, OtherInv DEF Inv, ConfigInv, ConfigTyped
<1> USE <1>1, <1>2 DEF Inv, ListenerInv, ListenerTyped, Places, Listening, Up, To
<1>3. CASE NoTor
  BY <1>3 DEF NoTor, tvars
<1>4. CASE start_tor_service
  BY <1>4 DEF start_tor_service
<1>5. CASE OnionDir
  BY <1>5 DEF OnionDir
<1>6. CASE OnionFiles
  BY <1>6 DEF OnionFiles
<1>7. CASE Launch
  BY <1>7 DEF Launch, KilledFirst
<1>8. CASE LaunchFails
  BY <1>8 DEF LaunchFails, KilledFirst
<1>9. CASE PidEmptied
  BY <1>9 DEF PidEmptied, lvars
<1>10. CASE PidWritten
  <2>1. lst'.at = "bootstrap" /\ lst'.tor = lst.tor /\ lst'.own = launched /\ lst' \in [at : Places, tor : Values, mine : {0, 1}, own : Nat]
    BY <1>10 DEF PidWritten
  <2>2. pid' \in 0 .. launched'
    BY <1>10 DEF PidWritten
  <2> QED
    BY <1>10, <2>1, <2>2 DEF PidWritten
<1>11. CASE Bootstrap
  <2>1. lst' = [lst EXCEPT !.at = "started"] \/ lst' = [lst EXCEPT !.at = "started", !.own = 0]
    BY <1>11 DEF Bootstrap
  <2>3. lst'.at = "started" /\ lst'.tor = lst.tor /\ lst'.own \in {0, lst.own}
        /\ lst' \in [at : Places, tor : Values, mine : {0, 1}, own : Nat]
    <3>1. lst \in [at : Places, tor : Values, mine : {0, 1}, own : Nat]
      OBVIOUS
    <3>2. CASE lst' = [lst EXCEPT !.at = "started"]
      BY <3>1, <3>2
    <3>3. CASE lst' = [lst EXCEPT !.at = "started", !.own = 0]
      <4> DEFINE r == [lst EXCEPT !.at = "started"]
      <4>1. r \in [at : Places, tor : Values, mine : {0, 1}, own : Nat] /\ r.at = "started" /\ r.tor = lst.tor
        BY <3>1
      <4>2. lst' = [r EXCEPT !.own = 0]
        BY <3>1, <3>3
      <4> HIDE DEF r
      <4> QED
        BY <4>1, <4>2
    <3> QED
      BY <2>1, <3>2, <3>3
  <2>2. procs' \subseteq procs
    BY <1>11 DEF Bootstrap
  <2> QED
    BY <1>11, <2>2, <2>3 DEF Bootstrap
<1>12. CASE PidFails
  BY <1>12 DEF PidFails
<1> QED
  BY <1>3, <1>4, <1>5, <1>6, <1>7, <1>8, <1>9, <1>10, <1>11, <1>12

(* Every step keeps the invariant.                                         *)
LEMMA NextInv ==
    ASSUME Inv, [Next]_vars
    PROVE  Inv'
<1>1. CASE UNCHANGED vars
  <2>1. ConfigInv'
    BY <1>1, OtherInv DEF Inv, ConfigInv, ConfigTyped, vars, cvars
  <2> QED
    BY <1>1, <2>1 DEF Inv, ListenerInv, ListenerTyped, Listening, Up, vars, cvars, lvars, tvars
<1>2. ASSUME NEW t \in Workers, WorkerNext(t), UNCHANGED <<lvars, tvars>>
      PROVE  Inv'
  <2>1. ConfigInv'
    BY <1>2, WorkerInv DEF Inv
  <2>2. UNCHANGED start
    BY <1>2 DEF WorkerNext, WorkerStep, TakeLock, read_config, FileEmptied, FileFilled, WriteTemp, Rename,
                SetConfig, InsertConfig, CreateSecret, set_tor_config, create_config, get_global_config,
                JobFails, reload_global_config
  <2> QED
    BY <1>2, <2>1, <2>2 DEF Inv, ListenerInv, ListenerTyped, Listening, Up, lvars, tvars
<1>3. CASE (Setup \/ SetupSecret) /\ UNCHANGED <<lvars, tvars>>
  <2>1. ConfigInv'
    BY <1>3, SetupInv DEF Inv
  <2>2. ~Up
    BY <1>3 DEF Setup, SetupFile, SetupSecret, Up, Secrets, Writing
  <2> QED
    BY <1>3, <2>1, <2>2 DEF Inv, ListenerInv, ListenerTyped, Listening, lvars, tvars
<1>4. CASE Crash
  <2>1. ConfigInv'
    BY <1>4, CrashConfigInv DEF Inv, Crash
  <2> QED
    BY <1>4, <2>1 DEF Crash, Inv, ListenerInv, ListenerTyped, Listening, Places
<1>5. CASE register_config_listener
  <2>1. ConfigInv'
    BY <1>5, RegisterConfigInv DEF Inv, ListenerInv, Listening, register_config_listener
  <2>2. UNCHANGED start
    BY <1>5 DEF register_config_listener
  <2> QED
    BY <1>5, <2>1, <2>2 DEF register_config_listener, To, Inv, ListenerInv, ListenerTyped, Listening, Places, Up, tvars
<1>6. CASE Listen \/ (ListenerStep /\ ~register_config_listener) \/ WatcherStep \/ OpenClose
           \/ ApiFails \/ StopFails \/ PidFails
  BY <1>6, RoundInv, TorInv DEF ListenerStep, WatcherStep
<1> QED
  BY <1>1, <1>2, <1>3, <1>4, <1>5, <1>6 DEF Next, Work, WorkerNext, ListenerStep

-----------------------------------------------------------------------------
(* What the invariant gives.                                               *)

(* The types are part of it.                                               *)
TypeOK == ConfigTyped /\ ListenerTyped

(* Files, copies of them, jobs, the listener and its Tor process stay well *)
(* typed; in particular every configuration that is read, migrated, merged *)
(* or cached has a value for the setting the listener looks up.            *)
THEOREM TypeCorrect == Spec => []TypeOK
<1>1. Inv => TypeOK
  BY DEF Inv, ConfigInv, ListenerInv, TypeOK
<1> QED
  BY <1>1, InitInv, NextInv, PTL DEF Spec

(* Both API secrets are there whenever a wallet that is up has a           *)
(* configuration: check_api_secret_file makes good for a start that died   *)
(* half way, and for a create_config that died or failed in an earlier     *)
(* process; a create_config that is done has made the one it makes.        *)
THEOREM SecretIsWhole == Spec => []SecretWhole
<1>1. Inv => SecretWhole
  BY DEF Inv, ConfigInv, StartOK, SecretWhole
<1> QED
  BY <1>1, InitInv, NextInv, PTL DEF Spec

(* The copy of the configuration in memory is what the file says, but for  *)
(* the step between the rename and set_global_config: a load, a migration, *)
(* an update and a reload may interleave in any way.                       *)
THEOREM CacheIsFresh == Spec => []CacheFresh
<1>1. Inv => CacheFresh
  BY DEF Inv, ConfigInv, FreshOK, Setting, CacheFresh
<1> QED
  BY <1>1, InitInv, NextInv, PTL DEF Spec

(* Of the Tor processes that got into the pid file at most one runs, over  *)
(* restarts of the listener and of the wallet, whatever else fails in      *)
(* between; and an onion service inside the wallet only runs while the     *)
(* listener is configured for it.                                          *)
THEOREM OneTorProcess == Spec => []OneTor
<1>1. Inv => OneTor
  <2> SUFFICES ASSUME Inv PROVE OneTor
    OBVIOUS
  <2> DEFINE noted == procs \ orphans
  <2>1. \E p : noted \subseteq {p}
    BY DEF Inv, ListenerInv
  <2>2. \A p : noted \subseteq {p} => Cardinality(noted) <= 1
    <3> SUFFICES ASSUME NEW p, noted \subseteq {p} PROVE Cardinality(noted) <= 1
      OBVIOUS
    <3>1. IsFiniteSet({p}) /\ Cardinality({p}) = 1
      BY FS_Singleton
    <3>2. Cardinality(noted) <= Cardinality({p})
      BY <3>1, FS_Subset
    <3> QED
      BY <3>1, <3>2
  <2> QED
    BY <2>1, <2>2 DEF Inv, ListenerInv, OneTor
<1> QED
  BY <1>1, InitInv, NextInv, PTL DEF Spec

(* What a step may do to the file.                                         *)
FileKept ==
    /\ ~legacy /\ file.is = "whole" => file'.is = "whole"
    /\ file'.is = "whole" /\ (legacy \/ (file.is = "whole" /\ "future" \in DOMAIN file.has))
         => "future" \in DOMAIN file'.has

(* A worker writes the file in place, or renames a new one over it.        *)
LEMMA WorkerKeepsFile ==
    ASSUME ConfigInv, NEW t \in Workers, WorkerNext(t)
    PROVE  FileKept
<1> USE JobFacts DEF ConfigInv
<1>1. CASE UNCHANGED file
  BY <1>1 DEF FileKept, OldFileOK
<1>2. CASE FileEmptied(t)
  <2>1. file.is = "whole" => legacy
    BY <1>2 DEF FileEmptied, FreshOK, CreateOK, ConfigTyped
  <2> QED
    BY <1>2, <2>1 DEF FileEmptied, Torn, FileKept
<1>3. CASE FileFilled(t)
  <2>1. file.is = "whole" \/ legacy => job[t].m # "create" /\ "future" \in DOMAIN job[t].buf
    BY <1>3 DEF FileFilled, FreshOK, CreateOK, OldFileOK, ConfigTyped
  <2>2. "future" \in DOMAIN job[t].buf => "future" \in DOMAIN merge_config(job[t].buf, Migrated(job[t].buf))
    BY MigratedConfig, MergeConfig
  <2> QED
    BY <1>3, <2>1, <2>2 DEF FileFilled, Whole, FileKept
<1>4. CASE Rename(t)
  <2>1. legacy \/ ("future" \in DOMAIN file.has /\ file.is = "whole") => "future" \in DOMAIN job[t].old
    BY <1>4 DEF Rename, FreshOK, OldFileOK, ConfigTyped
  <2>2. "future" \in DOMAIN job[t].old => "future" \in DOMAIN merge_config(job[t].old, NewMembers(t))
    BY NewMembersFacts, MergeConfig
  <2> QED
    BY <1>4, <2>1, <2>2 DEF Rename, Saved, Whole, FileKept
<1> QED
  BY <1>1, <1>2, <1>3, <1>4
     DEF WorkerNext, WorkerStep, TakeLock, read_config, WriteTemp, SetConfig, InsertConfig, CreateSecret,
         set_tor_config, create_config, get_global_config, JobFails, reload_global_config

(* So do the start of the process and a load by the listener.              *)
LEMMA LoadKeepsFile ==
    ASSUME ConfigInv, Setup \/ register_config_listener
    PROVE  FileKept
<1> USE DEF ConfigInv
<1>1. file.has \in Configs
  BY DEF ConfigTyped
<1>2. "future" \in DOMAIN file.has => "future" \in DOMAIN merge_config(file.has, Migrated(file.has))
  BY <1>1, MigratedConfig, MergeConfig
<1>3. start = "fill" => file.is = "torn"
  BY DEF StartOK
<1>4. \/ UNCHANGED file
      \/ file'.is = "torn" /\ (file.is = "whole" => NeedsMigration(file.has))
      \/ start = "fill" /\ file' = Whole(file.has)
      \/ file.is = "whole" /\ file' = Whole(merge_config(file.has, Migrated(file.has)))
  BY DEF Setup, SetupFile, InPlace, register_config_listener
<1>5. ~legacy /\ file.is = "whole" => ~NeedsMigration(file.has)
  BY DEF FreshOK, NeedsMigration, Known
<1> QED
  BY <1>2, <1>3, <1>4, <1>5 DEF FileKept, OldFileOK, Whole

(* No crash, failed save or other thread leaves a file that was whole      *)
(* incomplete, and settings this version does not know survive every save, *)
(* load and migration (merge_config).                                      *)
THEOREM ConfigStaysIntact == Spec => ConfigIntact
<1>1. Inv /\ [Next]_vars => [FileKept]_vars
  <2> SUFFICES ASSUME Inv, [Next]_vars PROVE FileKept \/ UNCHANGED vars
    OBVIOUS
  <2>1. UNCHANGED file => FileKept
    BY DEF FileKept, Inv, ConfigInv, OldFileOK
  <2>2. \A t \in Workers : WorkerNext(t) => FileKept
    BY WorkerKeepsFile DEF Inv
  <2>3. Setup \/ register_config_listener => FileKept
    BY LoadKeepsFile DEF Inv
  <2>4. Listen \/ (ListenerStep /\ ~register_config_listener) \/ WatcherStep \/ OpenClose \/ Crash \/ SetupSecret
           \/ ApiFails \/ StopFails \/ PidFails
          => UNCHANGED file
    BY DEF Listen, ListenerStep, WatcherStep, OpenClose, Crash, CrashConfig, SetupSecret, RegisterFails,
           ReadTorConfig, TakeKey, Watch, Joined, NoTor, start_tor_service, OnionDir, OnionFiles, Launch,
           LaunchFails, PidEmptied, PidWritten, Bootstrap, Received, WatcherActs, ApiFails, StopFails, PidFails,
           cvars
  <2> QED
    BY <2>1, <2>2, <2>3, <2>4 DEF Next, Work, WorkerNext, ListenerStep
<1>2. [FileKept]_vars =>
         [/\ ~legacy /\ file.is = "whole" => file'.is = "whole"
          /\ file'.is = "whole" /\ (legacy \/ (file.is = "whole" /\ "future" \in DOMAIN file.has))
               => "future" \in DOMAIN file'.has]_vars
  BY DEF FileKept
<1> QED
  BY <1>1, <1>2, InitInv, NextInv, PTL DEF Spec, ConfigIntact

(* A change of the configuration restarts the listener: the watcher raises *)
(* restart_needed before it stops the server, so the join never sees a     *)
(* stopped server and a flag that is down.  What is left is the death of   *)
(* the process, and a stop_tor_service that returns an error.              *)
THEOREM ListenerRestarts == Spec => RestartsNotEnds
<1> DEFINE ended == ~Up' \/ (served /\ ~served' /\ crashes' > crashes)
<1>1. Inv /\ [Next]_vars => [lst.at = "join" /\ lst'.at = "down" => ended]_vars
  <2> SUFFICES ASSUME Inv, Next, lst.at = "join", lst'.at = "down"
               PROVE  ended
    OBVIOUS
  <2>1. CASE Crash
    BY <2>1 DEF Crash, CrashConfig, Up
  <2>2. CASE StopFails
    BY <2>2 DEF StopFails, Inv, ConfigInv, ConfigTyped
  <2>3. Joined => FALSE
    BY DEF Joined, Inv, ListenerInv
  <2>4. UNCHANGED lst => FALSE
    OBVIOUS
  <2>5. ~Listen /\ ~(ListenerStep /\ ~Joined) /\ ~ApiFails /\ ~PidFails
    BY DEF Listen, ListenerStep, register_config_listener, RegisterFails, ReadTorConfig, TakeKey, Watch,
           NoTor, start_tor_service, OnionDir, OnionFiles, Launch, LaunchFails, PidEmptied, PidWritten, Bootstrap,
           To, ApiFails, PidFails
  <2>6. WatcherStep \/ OpenClose => UNCHANGED lst
    BY DEF WatcherStep, OpenClose, Received, WatcherActs
  <2> QED
    BY <2>1, <2>2, <2>3, <2>4, <2>5, <2>6 DEF Next, Work, lvars
<1> QED
  BY <1>1, InitInv, NextInv, PTL DEF Spec, RestartsNotEnds

=============================================================================
