-------------------------- MODULE PlacementProofs --------------------------
(***************************************************************************)
(* Where processes are put and what they get there, for any lords, loads,  *)
(* limits and numbers of respawns and restarts: the operators of           *)
(* Placement, the way of a request through Launch, and the autoscaler.     *)
(***************************************************************************)
EXTENDS Launch, Autoscale, FiniteSetTheorems, TLAPS

-----------------------------------------------------------------------------
(* Placement: scores are positive fractions, and a search for the best one  *)
(* among finitely many lords finds one.                                     *)

Fraction == [num: Nat, den: Nat \ {0}]

LEMMA NatTimes == \A m, n \in Nat : m * n \in Nat
  OBVIOUS

LEMMA PosTimes == \A m, n \in Nat \ {0} : m * n \in Nat \ {0}
  OBVIOUS

\* The clamps make every part of a score a natural number, whatever is reported.
LEMMA ScoreType ==
    ASSUME NEW ld \in Load
    PROVE  ScoreLord(ld) \in Fraction
<1>1. ld.cpu \in Nat /\ ld.used \in Nat /\ ld.adv \in Nat /\ ld.phys \in Nat /\ ld.procs \in Nat
  BY DEF Load
<1>2. CpuFree(ld) \in Nat
  BY <1>1 DEF CpuFree, Clamp
<1>3. Total(ld) \in Nat
  BY <1>1 DEF Total
<1>4. MemTop(ld) \in Nat \ {0}
  BY <1>3 DEF MemTop
<1>5. MemFree(ld) \in Nat
  BY <1>1, <1>3 DEF MemFree, Clamp
<1> DEFINE c == CpuFree(ld)
           m == MemTop(ld)
           f == MemFree(ld)
           p == 1 + ld.procs
<1>6. p \in Nat \ {0}
  BY <1>1
<1> HIDE DEF c, m, f, p
<1>7. 5 * c * m \in Nat
  BY <1>2, <1>4, NatTimes DEF c, m
<1>8. 5 * c * m + 400 * f \in Nat
  BY <1>5, <1>7 DEF f
<1>9. p * (5 * c * m + 400 * f) \in Nat
  BY <1>6, <1>8, NatTimes
<1>10. p * (5 * c * m + 400 * f) + 100 * m \in Nat
  BY <1>4, <1>9 DEF m
<1>11. 1000 * m \in Nat \ {0}
  BY <1>4 DEF m
<1>12. 1000 * m * p \in Nat \ {0}
  BY <1>6, <1>11, PosTimes
<1>. QED
  BY <1>10, <1>12 DEF ScoreLord, Fraction, c, m, f, p

\* A fraction that is no greater than a second, which is no greater than a
\* third, is no greater than the third.
LEMMA GreaterTransitive ==
    ASSUME NEW a \in Fraction, NEW b \in Fraction, NEW c \in Fraction,
           ~Greater(a, b), ~Greater(b, c)
    PROVE  ~Greater(a, c)
<1> DEFINE an == a.num  ad == a.den  bn == b.num  bd == b.den  cn == c.num  cd == c.den
<1>1. an \in Nat /\ bn \in Nat /\ cn \in Nat /\ ad \in Nat \ {0} /\ bd \in Nat \ {0} /\ cd \in Nat \ {0}
  BY DEF Fraction
<1>2. an * bd <= bn * ad /\ bn * cd <= cn * bd
  BY <1>1, NatTimes DEF Greater
<1> SUFFICES an * cd <= cn * ad
  BY <1>1, NatTimes DEF Greater
<1> HIDE DEF an, ad, bn, bd, cn, cd
<1>3. \A x, y, k \in Nat : x <= y => x * k <= y * k
  OBVIOUS
<1>4. (an * bd) * cd <= (bn * ad) * cd
  BY <1>1, <1>2, <1>3, NatTimes
<1>5. (bn * cd) * ad <= (cn * bd) * ad
  BY <1>1, <1>2, <1>3, NatTimes
<1>6. (an * cd) * bd <= (cn * ad) * bd
  BY <1>1, <1>4, <1>5
<1>7. \A x, y \in Nat, k \in Nat \ {0} : x * k <= y * k => x <= y
  OBVIOUS
<1>. QED
  BY <1>1, <1>6, <1>7, NatTimes

\* Two fractions are comparable.
LEMMA GreaterTotal ==
    ASSUME NEW a \in Fraction, NEW b \in Fraction, Greater(a, b)
    PROVE  ~Greater(b, a)
<1>1. a.num * b.den \in Int /\ b.num * a.den \in Int
  BY DEF Fraction
<1>. QED
  BY <1>1 DEF Greater

\* Finitely many fractions have a greatest one. A least set without would have
\* an element whose removal leaves one with.
LEMMA Greatest ==
    ASSUME NEW L, IsFiniteSet(L), L # {}, NEW f \in [L -> Fraction]
    PROVE  \E m \in L : \A k \in L : ~Greater(f[k], f[m])
<1> DEFINE Top(T, m) == m \in T /\ \A k \in T : ~Greater(f[k], f[m])
           Bad == {T \in FiniteSubsetsOf(L) : T # {} /\ \A m \in T : ~Top(T, m)}
<1>1. SUFFICES ASSUME Bad # {} PROVE FALSE
  BY DEF FiniteSubsetsOf
<1>2. PICK T \in Bad : \A U \in Bad : ~(<<U, T>> \in StrictSubsetOrdering(L))
  BY <1>1, WFMin, FS_StrictSubsetOrderingWellFounded
<1>3. PICK x \in T : TRUE
  OBVIOUS
<1> DEFINE U == T \ {x}
<1>4. U \in FiniteSubsetsOf(L) /\ <<U, T>> \in StrictSubsetOrdering(L)
  BY FS_Subset DEF FiniteSubsetsOf, StrictSubsetOrdering
<1>5. \A k \in T : f[k] \in Fraction
  BY DEF FiniteSubsetsOf
<1>6. \A k \in T : ~Greater(f[k], f[k])
  BY <1>5, GreaterTotal
<1>7. CASE U = {}
  BY <1>6, <1>7
<1>8. CASE U # {}
  <2>1. PICK m \in U : \A k \in U : ~Greater(f[k], f[m])
    BY <1>2, <1>4, <1>8
  <2>2. CASE Greater(f[x], f[m])
    <3>1. ~Greater(f[m], f[x])
      BY <1>5, <2>2, GreaterTotal
    <3>2. \A k \in U : ~Greater(f[k], f[x])
      BY <1>5, <2>1, <3>1, GreaterTransitive
    <3>. QED
      BY <1>6, <3>2
  <2>3. CASE ~Greater(f[x], f[m])
    BY <2>1, <2>3
  <2>. QED
    BY <2>2, <2>3
<1>. QED
  BY <1>7, <1>8

\* The search for the best score comes back empty only if there is no lord,
\* whatever lords report: -1 is below every score.
THEOREM BestFound ==
    ASSUME NEW L, IsFiniteSet(L), NEW load, \A l \in L : load[l] \in Load
    PROVE  Best(L, load) = {} => L = {}
<1> SUFFICES ASSUME L # {} PROVE Best(L, load) # {}
  OBVIOUS
<1> DEFINE f == [l \in L |-> ScoreLord(load[l])]
<1>1. f \in [L -> Fraction]
  BY ScoreType
<1>2. PICK m \in L : \A k \in L : ~Greater(f[k], f[m])
  BY <1>1, Greatest
<1>3. ScoreLord(load[m]) \in Fraction
  BY ScoreType
<1>4. Greater(ScoreLord(load[m]), [num |-> -1, den |-> 1])
  BY <1>3 DEF Greater, Fraction
<1>. QED
  BY <1>2, <1>4 DEF Best

\* Pick finds a lord if one is eligible, with either algorithm and any preference.
THEOREM PickFound ==
    ASSUME NEW algo, NEW prefer, NEW L, IsFiniteSet(L), NEW load, \A l \in L : load[l] \in Load
    PROVE  Pick(algo, prefer, L, load) = {} => L = {}
BY BestFound DEF Pick

\* PickDifferent finds a lord if there is one besides the one to leave.
THEOREM PickDifferentFound ==
    ASSUME NEW exclude, NEW L, IsFiniteSet(L), NEW load, \A l \in L : load[l] \in Load
    PROVE  PickDifferent(exclude, L, load) = {} => L \subseteq {exclude}
<1>1. IsFiniteSet(L \ {exclude})
  BY FS_Subset
<1>. QED
  BY <1>1, BestFound DEF PickDifferent

\* What is picked is eligible.
LEMMA PickedEligible ==
    ASSUME NEW algo, NEW prefer, NEW L, NEW load, NEW exclude
    PROVE  /\ Pick(algo, prefer, L, load) \subseteq L
           /\ PickDifferent(exclude, L, load) \subseteq L
BY DEF Pick, PickDifferent, Best

-----------------------------------------------------------------------------
(* Launch.  Its properties speak of copies that run; Kept says the same of    *)
(* the entry, the log and the spawn events a copy is made from, Order that    *)
(* none of them is there before the request is.                               *)

\* The request comes first, and the entry has its record in the log.
Order ==
    /\ asked = None => answer = "none"
    /\ answer = "none" => entry = None /\ record = None /\ queue = {} /\ started = {}
    /\ entry # None => record # None

\* What the tenant asked for is in x.
AsAsked(x) == x.limits = asked.limits /\ x.dump = asked.dump

Kept ==
    /\ entry # None => AsAsked(entry)
    /\ record # None => AsAsked(record)
    /\ \A e \in queue : AsAsked(e) /\ e.stdin = (asked.stdin /\ e.n = 0)
    /\ AskedForIsStarted

\* The restarts of this run of the scheduler are counted and within bounds, and
\* those of every earlier run were.
Counted ==
    /\ entry = None => respawns = 0
    /\ record # None => record.count = 0
    /\ entry # None =>
          /\ entry.max = record.max
          /\ entry.max >= 0 => /\ entry.count <= entry.max
                               /\ respawns <= entry.max * crashes + entry.count

\* No lord passes controllers on to the slices of processes.
NothingEnabled == \A l \in Lords : base[l] # None => base[l].enabled = {}

Unlimited == \A c \in started : c.written = {}

LaunchInv ==
    /\ TypeOK /\ Order /\ Kept /\ Counted /\ NoneOverlooked
    /\ NothingEnabled /\ SlicedIsAttached /\ Unlimited

LEMMA LaunchInit == Init => LaunchInv
<1> SUFFICES ASSUME Init PROVE LaunchInv
  OBVIOUS
<1> USE DEF Init
<1>1. TypeOK
  <2>1. NoSlice \in Slice
    BY DEF NoSlice, Slice
  <2>. QED
    BY <2>1, LaunchAssumption DEF TypeOK
<1>2. Order /\ NothingEnabled /\ SlicedIsAttached /\ Unlimited /\ NoneOverlooked
  BY DEF Order, NothingEnabled, SlicedIsAttached, Unlimited, NoneOverlooked
<1>3. Kept /\ Counted
  BY DEF Kept, Counted, AskedForIsStarted
<1>. QED
  BY <1>1, <1>2, <1>3 DEF LaunchInv

\* A request is made once, before there is anything that depends on it.
LEMMA TenantKeeps ==
    ASSUME LaunchInv, Tenant
    PROVE  LaunchInv'
<1> USE DEF LaunchInv
<1>1. /\ asked = None /\ asked' \in Request
      /\ UNCHANGED <<answer, overlooked, entry, record, respawns, crashes, queue,
                     started, base, slice>>
  <2>1. NoLimits \in Limits /\ \A c, m \in Values : [NoLimits EXCEPT ![Cpu] = c, ![Mem] = m] \in Limits
    BY LaunchAssumption DEF NoLimits, Limits
  <2>2. ASSUME NEW n \in {-1, 0}, NEW cpu \in Values, NEW mem \in Values,
               NEW dump \in BOOLEAN, NEW prefer \in Lords \cup {NoLord},
               RunCmd(n, cpu, mem, dump, prefer)
        PROVE  <1>1
    BY <2>1, <2>2 DEF RunCmd, Request
  <2>3. ASSUME NEW prefer \in Lords \cup {NoLord}, ShellCmd(prefer) PROVE <1>1
    BY <2>1, <2>3 DEF ShellCmd, Request
  <2>4. ASSUME NEW limits \in Limits, ApiCall(limits) PROVE <1>1
    BY <2>4 DEF ApiCall, Request
  <2>. QED
    BY <2>2, <2>3, <2>4 DEF Tenant
<1>2. answer = "none" /\ entry = None /\ record = None /\ queue = {} /\ started = {}
  BY <1>1 DEF Order
<1>3. TypeOK'
  BY <1>1 DEF TypeOK
<1>4. Order' /\ NothingEnabled' /\ SlicedIsAttached' /\ Unlimited' /\ NoneOverlooked' /\ Counted'
  BY <1>1, <1>2 DEF Order, NothingEnabled, SlicedIsAttached, Unlimited, NoneOverlooked, Counted
<1>5. Kept'
  BY <1>1, <1>2 DEF Kept, AskedForIsStarted
<1>. QED
  BY <1>3, <1>4, <1>5

\* Nothing that Spawn, a respawn or a restart of the scheduler leaves alone.
LordsAlone == UNCHANGED <<started, base, slice>>

LEMMA LordsAloneKeep ==
    ASSUME LaunchInv, LordsAlone
    PROVE  NothingEnabled' /\ SlicedIsAttached' /\ Unlimited'
BY DEF LaunchInv, LordsAlone, NothingEnabled, SlicedIsAttached, Unlimited

\* The entry, its record and the first spawn event have what is asked for.
LEMMA SpawnKeeps ==
    ASSUME LaunchInv, NEW L \in SUBSET Lords, NEW load \in [L -> Loads], Spawn(L, load)
    PROVE  LaunchInv'
<1> USE DEF LaunchInv
<1>1. /\ asked \in Request /\ answer = "none"
      /\ asked' = [asked EXCEPT !.prefer = NoLord]
      /\ UNCHANGED <<respawns, crashes, started, base, slice>>
  BY DEF Spawn, TypeOK
<1>2. entry = None /\ record = None /\ queue = {} /\ started = {} /\ respawns = 0
  BY <1>1 DEF Order, Counted
<1>3. /\ asked' \in Request
      /\ asked'.limits = asked.limits /\ asked'.dump = asked.dump /\ asked'.stdin = asked.stdin
  BY <1>1 DEF Request
<1>4. NothingEnabled' /\ SlicedIsAttached' /\ Unlimited'
  BY <1>1, LordsAloneKeep DEF LordsAlone
<1>5. \A l \in L : NewInfo(l) \in Info /\ NewInfo(l).count = 0
                    /\ NewInfo(l).limits = asked.limits /\ NewInfo(l).dump = asked.dump
  BY <1>1, LaunchAssumption DEF NewInfo, Info, Request
<1>6. IsFiniteSet(L) /\ \A l \in L : load[l] \in Load
  BY FS_Subset, LaunchAssumption
<1>7. CASE answer' \in {"invalid", "unavailable"} /\ UNCHANGED <<entry, record, queue>> /\ overlooked' = {}
  <2>1. TypeOK'
    BY <1>1, <1>3, <1>7 DEF TypeOK
  <2>2. Order' /\ NoneOverlooked' /\ Counted'
    BY <1>1, <1>2, <1>3, <1>7 DEF Order, NoneOverlooked, Counted, Request, None
  <2>3. Kept'
    BY <1>1, <1>2, <1>7 DEF Kept, AskedForIsStarted
  <2>. QED
    BY <1>4, <2>1, <2>2, <2>3
<1>8. ASSUME NEW l \in L, record' = NewInfo(l), UNCHANGED overlooked,
             \/ /\ answer' = "sent"
                /\ entry' = NewInfo(l)
                /\ queue' = queue \cup {BuildSpawnRequest(NewInfo(l), 0, asked.stdin)}
             \/ /\ answer' = "failed"
                /\ entry' = [NewInfo(l) EXCEPT !.final = TRUE]
                /\ UNCHANGED queue
      PROVE  LaunchInv'
  <2> DEFINE e == BuildSpawnRequest(NewInfo(l), 0, asked.stdin)
  <2>1. /\ e \in Event /\ e.n = 0 /\ e.stdin = asked.stdin
        /\ e.limits = asked.limits /\ e.dump = asked.dump
    BY <1>1, <1>5 DEF BuildSpawnRequest, Event, Info, Request
  <2>2. /\ entry' \in Info /\ entry'.count = 0 /\ entry'.max = record'.max
        /\ entry'.limits = asked.limits /\ entry'.dump = asked.dump
    BY <1>5, <1>8 DEF Info
  <2>3. queue' \subseteq {e} /\ answer' \in {"sent", "failed"} /\ record' \in Info
    BY <1>2, <1>5, <1>8
  <2> HIDE DEF e
  <2>4. record'.count = 0 /\ record'.limits = asked.limits /\ record'.dump = asked.dump
    BY <1>5, <1>8
  <2>5. TypeOK'
    BY <1>1, <1>3, <1>8, <2>1, <2>2, <2>3 DEF TypeOK
  <2>6. NoneOverlooked'
    BY <1>8 DEF NoneOverlooked
  <2>7. Order'
    <3>1. \A i \in Info : i # None
      BY DEF Info, None
    <3>2. asked' # None
      BY <1>3 DEF Request, None
    <3>. QED
      BY <2>3, <3>1, <3>2 DEF Order
  <2>8. Kept'
    <3>1. e.stdin = (asked'.stdin /\ e.n = 0)
      BY <1>1, <1>3, <2>1 DEF Request
    <3>2. \A d \in queue' : AsAsked(d)' /\ d.stdin = (asked'.stdin /\ d.n = 0)
      BY <1>3, <2>1, <2>3, <3>1 DEF AsAsked
    <3>3. AskedForIsStarted'
      BY <1>1, <1>2 DEF AskedForIsStarted
    <3>. QED
      BY <1>3, <2>2, <2>4, <3>2, <3>3 DEF Kept, AsAsked
  <2>9. Counted'
    <3>1. entry'.max \in Int /\ crashes \in Nat
      BY <2>2 DEF Info, TypeOK
    <3>2. entry'.max >= 0 => 0 <= entry'.max * crashes
      BY <3>1, NatTimes
    <3>3. \A i \in Info : i # None
      BY DEF Info, None
    <3>. QED
      BY <1>1, <1>2, <2>2, <2>4, <3>1, <3>2, <3>3 DEF Counted
  <2>. QED
    BY <1>4, <2>5, <2>6, <2>7, <2>8, <2>9
<1>. QED
  BY <1>7, <1>8, <1>6, PickFound, PickedEligible DEF Spawn, NoneOverlooked

\* A respawn takes limits and dump from the entry, counts itself, and does not
\* pass max_restarts.
LEMMA RespawnKeeps ==
    ASSUME LaunchInv, entry # None, NEW t \in Lords, RespawnProcessOnLord(t),
           UNCHANGED <<asked, answer, overlooked, record, crashes>>, LordsAlone
    PROVE  LaunchInv'
<1> USE DEF LaunchInv
<1>1. /\ entry \in Info /\ AsAsked(entry) /\ record # None /\ entry.max = record.max
      /\ respawns \in Nat /\ crashes \in Nat /\ respawns < MaxRespawns
  BY DEF TypeOK, Order, Kept, Counted, RespawnProcessOnLord
<1>2. /\ entry.max \in Int \ {0} /\ entry.count \in Nat
      /\ entry.max >= 0 => /\ entry.count <= entry.max
                           /\ respawns <= entry.max * crashes + entry.count
  BY <1>1 DEF Info, Counted
<1>3. NothingEnabled' /\ SlicedIsAttached' /\ Unlimited' /\ NoneOverlooked'
  BY LordsAloneKeep DEF NoneOverlooked
<1>4. \A i \in Info : i # None
  BY DEF Info, None
<1> DEFINE moved == [entry EXCEPT !.lord = t, !.count = @ + 1]
           n == respawns + 1
           e == BuildSpawnRequest(moved, n, FALSE)
<1>5. /\ moved \in Info /\ moved.limits = entry.limits /\ moved.dump = entry.dump
      /\ moved.max = entry.max /\ moved.count = entry.count + 1
  <2>1. entry.count + 1 \in Nat
    BY <1>2
  <2>. QED
    BY <1>1, <2>1 DEF Info
<1>6. /\ e \in Event /\ e.n = n /\ e.stdin = FALSE
      /\ e.limits = entry.limits /\ e.dump = entry.dump
  BY <1>1, <1>5 DEF BuildSpawnRequest, Event, Info
<1>7. /\ entry' \in Info /\ entry'.limits = entry.limits /\ entry'.dump = entry.dump
      /\ entry'.max = entry.max
      /\ \/ entry'.count = entry.count /\ respawns' = respawns
         \/ /\ entry'.count = entry.count + 1 /\ respawns' = n
            /\ entry.max >= 0 => entry.count < entry.max
      /\ queue' \subseteq queue \cup {e}
      /\ respawns' \in 0..MaxRespawns
  <2>1. CASE entry' = Final /\ UNCHANGED <<queue, respawns>>
    BY <1>1, <2>1, LaunchAssumption DEF Final, Info, TypeOK
  <2>2. CASE /\ ~(entry.max >= 0 /\ entry.count >= entry.max)
             /\ respawns' = respawns + 1
             /\ \/ entry' = moved /\ queue' = queue \cup {BuildSpawnRequest(moved, respawns', FALSE)}
                \/ entry' = [moved EXCEPT !.final = TRUE] /\ UNCHANGED queue
    <3>1. /\ entry' \in Info /\ entry'.limits = entry.limits /\ entry'.dump = entry.dump
          /\ entry'.max = entry.max /\ entry'.count = entry.count + 1
      BY <1>5, <2>2 DEF Info
    <3>2. respawns' \in 0..MaxRespawns /\ respawns' = n
      BY <1>1, <2>2, LaunchAssumption
    <3>3. queue' \subseteq queue \cup {e}
      BY <2>2
    <3>4. entry.max >= 0 => entry.count < entry.max
      BY <1>2, <2>2
    <3>. QED
      BY <3>1, <3>2, <3>3, <3>4
  <2>. QED
    BY <2>1, <2>2 DEF RespawnProcessOnLord
<1> HIDE DEF moved, e
<1>8. TypeOK'
  <2>1. queue' \subseteq Event
    BY <1>6, <1>7 DEF TypeOK
  <2>. QED
    BY <1>7, <2>1 DEF TypeOK, LordsAlone
<1>9. Order'
  <2>1. answer # "none"
    BY DEF Order
  <2>. QED
    BY <1>1, <2>1 DEF Order
<1>10. Kept'
  <2>0. e.n # 0
    BY <1>1, <1>6
  <2>1. e.stdin = (asked.stdin /\ e.n = 0)
    BY <1>6, <2>0
  <2>2. \A d \in queue' : AsAsked(d)' /\ d.stdin = (asked'.stdin /\ d.n = 0)
    BY <1>1, <1>6, <1>7, <2>1 DEF Kept, AsAsked
  <2>3. AskedForIsStarted'
    BY DEF Kept, AskedForIsStarted, LordsAlone
  <2>4. AsAsked(entry)' /\ (record # None => AsAsked(record))'
    BY <1>1, <1>7 DEF Kept, AsAsked
  <2>. QED
    BY <2>2, <2>3, <2>4 DEF Kept
<1>11. Counted'
  <2>1. entry.max * crashes \in Int
    BY <1>1, <1>2
  <2>2. entry'.max >= 0 => /\ entry'.count <= entry'.max
                           /\ respawns' <= entry'.max * crashes' + entry'.count
    BY <1>1, <1>2, <1>7, <2>1
  <2>. QED
    BY <1>1, <1>4, <1>7, <2>2 DEF Counted
<1>. QED
  BY <1>3, <1>8, <1>9, <1>10, <1>11

\* A pick that finds nobody changes nothing: nobody was overlooked.
LEMMA NotFoundKeeps ==
    ASSUME LaunchInv, NotFound({}), UNCHANGED <<asked, answer, record, crashes>>, LordsAlone
    PROVE  LaunchInv'
<1>1. UNCHANGED vars
  BY DEF NotFound, LordsAlone, vars, scheduler
<1>. QED
  BY <1>1 DEF vars, scheduler, LaunchInv, TypeOK, Order, Kept, AsAsked, AskedForIsStarted, Counted,
              NoneOverlooked, NothingEnabled, SlicedIsAttached, Unlimited

LEMMA MovesKeep ==
    ASSUME LaunchInv, NEW L \in SUBSET Lords, NEW load \in [L -> Loads],
           Recover(L, load) \/ MigrateAuto(L, load)
    PROVE  LaunchInv'
<1>1. /\ entry # None /\ LordsAlone
      /\ UNCHANGED <<asked, answer, record, crashes>>
  BY DEF Recover, MigrateAuto, LordsAlone
<1>2. IsFiniteSet(L) /\ \A l \in L : load[l] \in Load
  BY FS_Subset, LaunchAssumption
<1>3. ASSUME NEW t \in L, RespawnProcessOnLord(t), UNCHANGED overlooked PROVE LaunchInv'
  BY <1>1, <1>3, RespawnKeeps
<1>4. CASE Recover(L, load)
  <2>1. CASE Pick(Algo, NoLord, L, load) = {} /\ NotFound(L)
    BY <1>1, <1>2, <2>1, PickFound, NotFoundKeeps
  <2>. QED
    BY <1>3, <1>4, <2>1, PickedEligible DEF Recover
<1>5. CASE MigrateAuto(L, load)
  <2>1. CASE PickDifferent(entry.lord, L, load) = {} /\ NotFound(L \ {entry.lord})
    <3>1. L \ {entry.lord} = {}
      BY <1>2, <2>1, PickDifferentFound
    <3>. QED
      BY <1>1, <2>1, <3>1, NotFoundKeeps
  <2>. QED
    BY <1>3, <1>5, <2>1, PickedEligible DEF MigrateAuto
<1>. QED
  BY <1>4, <1>5

\* The replayed entry is the record's; what this run has used of max_restarts is
\* at most all of it.
LEMMA RestartKeeps ==
    ASSUME LaunchInv, Restart
    PROVE  LaunchInv'
<1> USE DEF LaunchInv
<1>1. /\ entry # None /\ record # None /\ entry \in Info /\ record \in Info
      /\ crashes \in Nat /\ crashes < MaxCrashes /\ crashes' = crashes + 1 /\ queue' = {}
      /\ UNCHANGED <<asked, answer, overlooked, record, respawns, started, base, slice>>
  BY DEF Restart, TypeOK, Order
<1>2. /\ entry' \in Info /\ entry'.limits = record.limits /\ entry'.dump = record.dump
      /\ entry'.max = record.max /\ entry'.count = record.count
  <2>1. PICK l \in {record.lord} \cup {c.lord : c \in started} :
            entry' = [record EXCEPT !.lord = l, !.final = entry.final]
    BY DEF Restart
  <2>2. l \in Lords
    BY <1>1, <2>1 DEF TypeOK, Info, Copy
  <2>3. entry.final \in BOOLEAN
    BY <1>1 DEF Info
  <2>. QED
    BY <1>1, <2>1, <2>2, <2>3 DEF Info
<1>3. NothingEnabled' /\ SlicedIsAttached' /\ Unlimited' /\ NoneOverlooked'
  BY <1>1, LordsAloneKeep DEF NoneOverlooked, LordsAlone
<1>4. TypeOK'
  <2>1. crashes' \in 0..MaxCrashes
    BY <1>1, LaunchAssumption
  <2>. QED
    BY <1>1, <1>2, <2>1 DEF TypeOK
<1>5. Order'
  BY <1>1, <1>2 DEF Order, Info, None
<1>6. Kept'
  BY <1>1, <1>2 DEF Kept, AsAsked, AskedForIsStarted
<1>7. Counted'
  <2>1. /\ entry.max \in Int /\ entry.count \in Nat /\ respawns \in Nat /\ record.count = 0
        /\ entry.max = record.max
        /\ entry.max >= 0 => /\ entry.count <= entry.max
                             /\ respawns <= entry.max * crashes + entry.count
    BY <1>1 DEF Info, TypeOK, Counted
  <2>2. /\ entry.max * crashes \in Int
        /\ entry.max * (crashes + 1) = entry.max * crashes + entry.max
    BY <1>1, <2>1
  <2>3. \A i \in Info : i # None
    BY DEF Info, None
  <2>. QED
    BY <1>1, <1>2, <2>1, <2>2, <2>3 DEF Counted
<1>. QED
  BY <1>3, <1>4, <1>5, <1>6, <1>7

\* A lord's own cgroup never has a controller enabled for the slices below it.
LEMMA RegisteredKeeps ==
    ASSUME LaunchInv, NEW l \in Lords, Registered(l)
    PROVE  LaunchInv'
<1> USE DEF LaunchInv
<1> DEFINE b == [available |-> EnableControllers(Delegated[l], FALSE), enabled |-> {}]
<1>1. /\ base' = [base EXCEPT ![l] = b] \/ base' = base
      /\ UNCHANGED <<scheduler, queue, started, slice>>
  BY DEF Registered, NewCgroupManager
<1>2. b \in Base /\ b.enabled = {}
  BY LaunchAssumption DEF EnableControllers, Base
<1> HIDE DEF b
<1>3. NothingEnabled'
  BY <1>1, <1>2 DEF NothingEnabled, TypeOK
<1>4. TypeOK'
  BY <1>1, <1>2 DEF TypeOK, scheduler
<1>5. Order' /\ SlicedIsAttached' /\ Unlimited' /\ NoneOverlooked' /\ Counted'
  BY <1>1 DEF Order, SlicedIsAttached, Unlimited, NoneOverlooked, Counted, scheduler
<1>6. Kept'
  BY <1>1 DEF Kept, AsAsked, AskedForIsStarted, scheduler
<1>. QED
  BY <1>3, <1>4, <1>5, <1>6

\* A copy gets what its spawn event says; since nothing is enabled for its slice
\* it can be moved there, and there is no file for its limits.
LEMMA HandleSpawnKeeps ==
    ASSUME LaunchInv, NEW e \in queue, HandleSpawn(e)
    PROVE  LaunchInv'
<1> USE DEF LaunchInv
<1> DEFINE l == e.lord
           managed == base[l] # None
           sl == SliceFor(l)
           in == managed /\ CanAttach(sl)
           c == [n |-> e.n, lord |-> l, limits |-> e.limits, dump |-> e.dump,
                 stdin |-> e.stdin, sliced |-> managed, attached |-> in,
                 written |-> IF managed THEN ApplyResources(l, e.limits) ELSE {}]
<1>1. e \in Event /\ l \in Lords /\ e.n \in Nat /\ slice[l] \in Slice
  BY DEF TypeOK, Event
<1>2. managed => base[l].enabled = {}
  BY <1>1 DEF NothingEnabled
<1>3. managed => sl \in Slice /\ sl.enabled = {}
  BY <1>1, <1>2 DEF SliceFor, EnableControllers, Slice
<1>4. in = managed
  BY <1>3 DEF CanAttach
<1>5. (IF managed THEN ApplyResources(l, e.limits) ELSE {}) = {}
  BY <1>2 DEF ApplyResources
<1>6. /\ c \in Copy /\ c.written = {} /\ (c.sliced => c.attached)
      /\ c.limits = e.limits /\ c.dump = e.dump /\ c.stdin = e.stdin /\ c.n = e.n
  BY <1>1, <1>4, <1>5 DEF Copy, Event
<1>7. /\ queue' = queue \ {e} /\ started' = started \cup {c}
      /\ UNCHANGED <<scheduler, base>>
      /\ slice' = IF managed
                  THEN [slice EXCEPT ![l] = IF in THEN [sl EXCEPT !.inside = @ \cup {e.n}] ELSE sl]
                  ELSE slice
  BY DEF HandleSpawn
<1>8. slice' \in [Lords -> Slice]
  <2>1. CASE managed
    <3>1. [sl EXCEPT !.inside = @ \cup {e.n}] \in Slice
      BY <1>1, <1>3, <2>1 DEF Slice
    <3>. QED
      BY <1>1, <1>3, <1>7, <2>1, <3>1 DEF TypeOK
  <2>2. CASE ~managed
    BY <1>7, <2>2 DEF TypeOK
  <2>. QED
    BY <2>1, <2>2
<1> HIDE DEF c, managed, in, sl
<1>9. TypeOK'
  BY <1>6, <1>7, <1>8 DEF TypeOK, scheduler
<1>10. Order' /\ NoneOverlooked' /\ Counted' /\ NothingEnabled'
  BY <1>7 DEF Order, NoneOverlooked, Counted, NothingEnabled, scheduler
<1>11. SlicedIsAttached' /\ Unlimited'
  BY <1>6, <1>7 DEF SlicedIsAttached, Unlimited
<1>12. Kept'
  <2>1. AsAsked(e) /\ e.stdin = (asked.stdin /\ e.n = 0)
    BY DEF Kept
  <2>2. c.limits = asked.limits /\ c.dump = asked.dump /\ c.stdin = (asked.stdin /\ c.n = 0)
    BY <1>6, <2>1 DEF AsAsked
  <2>3. AskedForIsStarted'
    BY <1>7, <2>2 DEF Kept, AskedForIsStarted, scheduler
  <2>. QED
    BY <1>7, <2>3 DEF Kept, AsAsked, scheduler
<1>. QED
  BY <1>9, <1>10, <1>11, <1>12

LEMMA ExitKeeps ==
    ASSUME LaunchInv, NEW c \in started, ProcessExit(c)
    PROVE  LaunchInv'
<1> USE DEF LaunchInv
<1>1. c \in Copy /\ c.lord \in Lords /\ slice[c.lord] \in Slice
  BY DEF TypeOK, Copy
<1>2. /\ started' = started \ {c}
      /\ UNCHANGED <<asked, answer, overlooked, record, respawns, crashes, queue, base>>
  BY DEF ProcessExit
<1>3. slice' \in [Lords -> Slice]
  <2> DEFINE inside == slice[c.lord].inside \ {c.n}
             sl == IF inside = {} THEN NoSlice ELSE [slice[c.lord] EXCEPT !.inside = inside]
  <2>1. sl \in Slice
    BY <1>1 DEF Slice, NoSlice
  <2>2. slice' = [slice EXCEPT ![c.lord] = sl]
    BY DEF ProcessExit
  <2> HIDE DEF sl
  <2>. QED
    BY <1>1, <2>1, <2>2 DEF TypeOK
<1>4. /\ entry = None => entry' = None
      /\ entry # None => /\ entry \in Info /\ entry' \in Info
                         /\ entry'.limits = entry.limits /\ entry'.dump = entry.dump
                         /\ entry'.max = entry.max /\ entry'.count = entry.count
  BY DEF ProcessExit, Final, TypeOK, Info
<1>5. \A i \in Info : i # None
  BY DEF Info, None
<1>6. TypeOK'
  BY <1>2, <1>3, <1>4 DEF TypeOK
<1>7. Order' /\ NoneOverlooked' /\ Counted' /\ NothingEnabled'
  BY <1>2, <1>4, <1>5 DEF Order, NoneOverlooked, Counted, NothingEnabled
<1>8. SlicedIsAttached' /\ Unlimited'
  BY <1>2 DEF SlicedIsAttached, Unlimited
<1>9. Kept'
  BY <1>2, <1>4, <1>5 DEF Kept, AsAsked, AskedForIsStarted
<1>. QED
  BY <1>6, <1>7, <1>8, <1>9

LEMMA LaunchStep == LaunchInv /\ [Next]_vars => LaunchInv'
<1> SUFFICES ASSUME LaunchInv, [Next]_vars PROVE LaunchInv'
  OBVIOUS
<1>1. CASE Tenant
  BY <1>1, TenantKeeps
<1>2. ASSUME NEW L \in SUBSET Lords, NEW load \in [L -> Loads],
             Spawn(L, load) \/ Recover(L, load) \/ MigrateAuto(L, load)
      PROVE  LaunchInv'
  BY <1>2, SpawnKeeps, MovesKeep
<1>3. ASSUME NEW t \in Lords, MigrateTo(t) PROVE LaunchInv'
  BY <1>3, RespawnKeeps DEF MigrateTo, LordsAlone
<1>4. CASE Restart
  BY <1>4, RestartKeeps
<1>5. ASSUME NEW l \in Lords, Registered(l) PROVE LaunchInv'
  BY <1>5, RegisteredKeeps
<1>6. ASSUME NEW e \in queue, HandleSpawn(e) PROVE LaunchInv'
  BY <1>6, HandleSpawnKeeps
<1>7. ASSUME NEW c \in started, ProcessExit(c) PROVE LaunchInv'
  BY <1>7, ExitKeeps
<1>8. CASE UNCHANGED vars
  BY <1>8 DEF vars, scheduler, LaunchInv, TypeOK, Order, Kept, AsAsked, AskedForIsStarted, Counted,
              NoneOverlooked, NothingEnabled, SlicedIsAttached, Unlimited
<1>. QED
  BY <1>1, <1>2, <1>3, <1>4, <1>5, <1>6, <1>7, <1>8 DEF Next

LEMMA LaunchAlways == Spec => []LaunchInv
BY LaunchInit, LaunchStep, PTL DEF Spec

\* Every handler keeps the types of request, entry, record, events and cgroups.
THEOREM LaunchTypeOK == Spec => []TypeOK
<1>1. LaunchInv => TypeOK
  BY DEF LaunchInv
<1>. QED
  BY <1>1, LaunchAlways, PTL

\* Spawn, recovery and Migrate find a lord whenever one is eligible, whatever
\* lords report of their load.
THEOREM LaunchNoneOverlooked == Spec => []NoneOverlooked
<1>1. LaunchInv => NoneOverlooked
  BY DEF LaunchInv
<1>. QED
  BY <1>1, LaunchAlways, PTL

\* Every copy, over any number of respawns, migrations and restarts of the
\* scheduler, is started with what the tenant asked for.
THEOREM LaunchAskedForIsStarted == Spec => []AskedForIsStarted
<1>1. LaunchInv => AskedForIsStarted
  BY DEF LaunchInv, Kept
<1>. QED
  BY <1>1, LaunchAlways, PTL

\* With any number of restarts of the scheduler, each gives out max_restarts at
\* most once.
THEOREM LaunchBudgetPerRun == Spec => []BudgetPerRun
<1>1. LaunchInv => BudgetPerRun
  <2> SUFFICES ASSUME LaunchInv, entry # None, entry.max >= 0
               PROVE  respawns <= entry.max * (crashes + 1)
    BY DEF BudgetPerRun
  <2>1. /\ entry.max \in Int /\ entry.count \in Nat /\ respawns \in Nat /\ crashes \in Nat
        /\ entry.count <= entry.max /\ respawns <= entry.max * crashes + entry.count
    BY DEF LaunchInv, TypeOK, Info, Counted
  <2>2. /\ entry.max * crashes \in Int
        /\ entry.max * (crashes + 1) = entry.max * crashes + entry.max
    BY <2>1
  <2>. QED
    BY <2>1, <2>2
<1>. QED
  BY <1>1, LaunchAlways, PTL

\* On any lords, with any controllers passed on to them, a copy that has a slice
\* is moved into it.
THEOREM LaunchSlicedIsAttached == Spec => []SlicedIsAttached
<1>1. LaunchInv => SlicedIsAttached
  BY DEF LaunchInv
<1>. QED
  BY <1>1, LaunchAlways, PTL

\* For the same reason no limit is ever written: whatever a tenant asks for and
\* a lord is given, the files of the slice do not exist (cgroup.go:61).
THEOREM LaunchUnlimited == Spec => []Unlimited
<1>1. LaunchInv => Unlimited
  BY DEF LaunchInv
<1>. QED
  BY <1>1, LaunchAlways, PTL

-----------------------------------------------------------------------------
(* The autoscaler, on the same lords.  Neither of its limits is inductive:    *)
(* Decide sees only LastMigration and the pruned list, the limits speak of    *)
(* every migration ever decided.  Marked and Recalled say what those two      *)
(* remember of it.                                                            *)

\* Decisions are dated at a cycle that has run.
Dated == \A m \in moves : 1 <= m.at /\ m.at <= now

\* LastMigration is at least the date of any migration off the lord.
Marked == \A m \in moves : m.at <= lastMigration[m.from]

\* Pruning drops nothing of the last minute.
Recalled == \A m \in moves : m.at > now - Minute => m \in migrations

ScalerInv == ScalerTypeOK /\ Dated /\ Marked /\ Recalled /\ CooldownKept /\ RebalanceLimited

-----------------------------------------------------------------------------
\* What a cycle at t decides: new migrations, all of t, at most one off each
\* lord, only off lords that are not cooling, and a rebalance only below the
\* rate limit.
Decided(new, t) ==
    /\ new \subseteq Move(registered)
    /\ \A m \in new : m.at = t /\ ~Cooling(m.from, t)
    /\ \A m, n \in new : m.from = n.from => m = n
    /\ \A m \in new : m.action = "rebalance" => Cardinality(Recent(t)) < MaxPerMin

\* Steps 4 and 5 of Decide meet Decided: a rebalance never joins an overload
\* migration off the same lord.
LEMMA CycleDecides ==
    ASSUME ScalerTypeOK, NEW cpu \in [Lords -> CpuLevels], NEW other \in [Lords -> OtherLevels],
           Cycle(cpu, other)
    PROVE  \E new : Decided(new, now + 1) /\ Record(new, now + 1)
<1> DEFINE t == now + 1
           score == Score(cpu, other)
           over == Overloaded(t, cpu)
           move(action, l) == [action |-> action, from |-> l, at |-> t]
           migrate == {move("migrate", l) : l \in over}
<1>1. t \in Nat
  BY DEF ScalerTypeOK
<1>2. over \subseteq registered /\ \A l \in over : ~Cooling(l, t)
  BY DEF Overloaded
<1>3. PICK e \in Extremes(score) :
         Record(IF Rebalance(e[1], e[2], t, over, score)
                THEN migrate \cup {move("rebalance", e[1])} ELSE migrate, t)
  BY DEF Cycle
<1>4. e[1] \in registered
  BY <1>3 DEF Extremes
<1>5. Decided(migrate, t)
  <2>1. migrate \subseteq Move(registered)
    BY <1>1, <1>2 DEF Move
  <2>2. \A m \in migrate : m.at = t /\ m.action = "migrate" /\ m.from \in over
    OBVIOUS
  <2>3. \A m, n \in migrate : m.from = n.from => m = n
    OBVIOUS
  <2>. QED
    BY <1>2, <2>1, <2>2, <2>3 DEF Decided
<1>6. CASE ~Rebalance(e[1], e[2], t, over, score)
  BY <1>3, <1>5, <1>6
<1>7. CASE Rebalance(e[1], e[2], t, over, score)
  <2> DEFINE r == move("rebalance", e[1])
  <2>1. /\ e[1] \notin over
        /\ ~Cooling(e[1], t)
        /\ Cardinality(Recent(t)) < MaxPerMin
    BY <1>7 DEF Rebalance, Cool
  <2>2. r \in Move(registered) /\ r.at = t /\ r.from = e[1]
    BY <1>1, <1>4 DEF Move
  <2>3. \A m \in migrate : m.from # r.from
    BY <2>1, <2>2
  <2>4. Decided(migrate \cup {r}, t)
    BY <1>5, <2>1, <2>2, <2>3 DEF Decided
  <2>. QED
    BY <1>3, <1>7, <2>4
<1>. QED
  BY <1>6, <1>7

\* A cycle keeps every part of the invariant.
LEMMA CycleKeeps ==
    ASSUME ScalerInv, NEW cpu \in [Lords -> CpuLevels],
           NEW other \in [Lords -> OtherLevels], Cycle(cpu, other)
    PROVE  ScalerInv'
<1> DEFINE t == now + 1
<1>1. PICK new : Decided(new, t) /\ Record(new, t)
  BY CycleDecides DEF ScalerInv
<1>2. /\ now' = t
      /\ usage' = cpu
      /\ UNCHANGED <<registered, healthy, state, home, sent, restarts, changed, lastError>>
  BY DEF Cycle, lordReg, procs
<1>3. /\ migrations' = Recent(t) \cup new
      /\ moves' = moves \cup new
      /\ pending' = new
      /\ lastMigration' = [l \in Lords |-> IF \E m \in new : m.from = l THEN t
                                           ELSE lastMigration[l]]
  BY <1>1 DEF Record
<1>4. /\ new \subseteq Move(registered)
      /\ \A m \in new : m.at = t /\ ~Cooling(m.from, t)
      /\ \A m, n \in new : m.from = n.from => m = n
      /\ \A m \in new : m.action = "rebalance" => Cardinality(Recent(t)) < MaxPerMin
  BY <1>1 DEF Decided
<1>5. /\ ScalerTypeOK /\ now \in Nat /\ registered \subseteq Lords
      /\ lastMigration \in [Lords -> Nat]
      /\ moves \subseteq Move(registered)
      /\ migrations \subseteq moves
  BY DEF ScalerInv, ScalerTypeOK
<1>6. /\ \A m \in moves : m.at \in Nat /\ m.from \in Lords
      /\ \A m \in new : m.from \in Lords
  BY <1>4, <1>5 DEF Move
<1>7. /\ \A m \in moves : 1 <= m.at /\ m.at <= now
      /\ \A m \in moves : m.at <= lastMigration[m.from]
      /\ \A m \in moves : m.at > now - Minute => m \in migrations
  BY DEF ScalerInv, Dated, Marked, Recalled
<1>8. ScalerTypeOK'
  <2>1. usage' \in [Lords -> Int]
    BY <1>2, AutoscaleAssumption
  <2>2. lastMigration' \in [Lords -> Nat]
    BY <1>3, <1>5
  <2>3. moves' \subseteq Move(registered) /\ migrations' \subseteq moves' /\ pending' \subseteq moves'
    BY <1>3, <1>4, <1>5 DEF Recent
  <2>4. now' \in Nat
    BY <1>2, <1>5
  <2>. QED
    BY <1>2, <1>5, <2>1, <2>2, <2>3, <2>4 DEF ScalerTypeOK
<1>9. Dated'
  BY <1>2, <1>3, <1>4, <1>5, <1>6, <1>7 DEF Dated
<1>10. Marked'
  <2>1. \A m \in moves : m.at <= lastMigration'[m.from]
    BY <1>3, <1>5, <1>6, <1>7
  <2>2. \A m \in new : m.at <= lastMigration'[m.from]
    BY <1>3, <1>4, <1>5, <1>6
  <2>. QED
    BY <1>3, <2>1, <2>2 DEF Marked
<1>11. Recalled'
  BY <1>2, <1>3, <1>4, <1>5, <1>6, <1>7, AutoscaleAssumption DEF Recalled, Recent
<1>12. CooldownKept'
  <2>1. \A m, n \in moves : (m.from = n.from /\ m # n) =>
            (m.at - n.at >= Cooldown \/ n.at - m.at >= Cooldown)
    BY DEF ScalerInv, CooldownKept
  <2>2. \A m \in new, n \in moves : m.from = n.from => m.at - n.at >= Cooldown
    BY <1>4, <1>5, <1>6, <1>7, AutoscaleAssumption DEF Cooling
  <2>. QED
    BY <1>3, <1>4, <2>1, <2>2 DEF CooldownKept
<1>13. RebalanceLimited'
  <2> DEFINE before(r, s) == {m \in s : r.at - Minute < m.at /\ m.at < r.at}
  <2>1. ASSUME NEW r \in moves, r.action = "rebalance"
        PROVE  Cardinality(before(r, moves')) < MaxPerMin
    <3>1. before(r, moves') = before(r, moves)
      BY <1>3, <1>4, <1>5, <1>6, <1>7
    <3>2. Cardinality(before(r, moves)) < MaxPerMin
      BY <2>1 DEF ScalerInv, RebalanceLimited
    <3>. QED
      BY <3>1, <3>2
  <2>2. ASSUME NEW r \in new, r.action = "rebalance"
        PROVE  Cardinality(before(r, moves')) < MaxPerMin
    <3>1. before(r, moves') = Recent(t)
      BY <1>3, <1>4, <1>5, <1>6, <1>7, AutoscaleAssumption DEF Recent
    <3>. QED
      BY <1>4, <2>2, <3>1
  <2>. QED
    BY <1>3, <2>1, <2>2 DEF RebalanceLimited
<1>. QED
  BY <1>8, <1>9, <1>10, <1>11, <1>12, <1>13 DEF ScalerInv

\* No other step touches the clock or what Decide remembers.
LEMMA ScalerAlone ==
    ASSUME ScalerInv, UNCHANGED scaler, ScalerTypeOK'
    PROVE  ScalerInv'
BY DEF ScalerInv, scaler, Dated, Marked, Recalled, CooldownKept, RebalanceLimited

-----------------------------------------------------------------------------
\* respawnProcessOnLord keeps the types of the entry.
LEMMA RespawnTypes ==
    ASSUME ScalerTypeOK, NEW p \in Procs, NEW t \in registered, Respawn(p, t),
           UNCHANGED <<scaler, lordReg>>, pending' \subseteq pending
    PROVE  ScalerTypeOK'
<1> USE DEF scaler, lordReg
<1>1. CASE state[p] \in FinalStates /\ UNCHANGED procs
  BY <1>1 DEF ScalerTypeOK, procs
<1>2. CASE /\ SetState(p, "STOPPED")
           /\ lastError' = [lastError EXCEPT ![p] = "maxRestarts"]
           /\ UNCHANGED <<home, sent, restarts>>
  BY <1>2 DEF ScalerTypeOK, SetState, FinalStates
<1>3. CASE /\ home' = [home EXCEPT ![p] = t]
           /\ restarts' = [restarts EXCEPT ![p] = @ + 1]
           /\ sent' = [sent EXCEPT ![p] = @ \cup {t}]
           /\ SetState(p, "RESTARTING")
           /\ UNCHANGED lastError
  BY <1>3 DEF ScalerTypeOK, SetState
<1>4. CASE /\ home' = [home EXCEPT ![p] = t]
           /\ restarts' = [restarts EXCEPT ![p] = @ + 1]
           /\ SetState(p, "STOPPED")
           /\ lastError' = [lastError EXCEPT ![p] = "respawnFailed"]
           /\ UNCHANGED sent
  BY <1>4 DEF ScalerTypeOK, SetState, FinalStates
<1>. QED
  BY <1>1, <1>2, <1>3, <1>4 DEF Respawn

\* Every step keeps the invariant.
LEMMA ScalerStep ==
    ASSUME ScalerInv, [ScalerNext]_scalerVars
    PROVE  ScalerInv'
<1>0. ScalerTypeOK
  BY DEF ScalerInv
<1>1. ASSUME NEW cpu \in [Lords -> CpuLevels], NEW other \in [Lords -> OtherLevels],
             Cycle(cpu, other)
      PROVE  ScalerInv'
  BY <1>1, CycleKeeps
<1>2. ASSUME NEW m \in pending, ApplyDecision(m) PROVE ScalerInv'
  <2>1. UNCHANGED <<scaler, lordReg>> /\ pending' \subseteq pending
    BY <1>2 DEF ApplyDecision
  <2>2. healthy \subseteq registered
    BY <1>0 DEF ScalerTypeOK
  <2>3. CASE UNCHANGED procs
    <3>1. ScalerTypeOK'
      BY <1>0, <2>1, <2>3 DEF ScalerTypeOK, scaler, lordReg, procs
    <3>. QED
      BY <2>1, <3>1, ScalerAlone
  <2>4. CASE \E p \in Youngest(m.from), t \in Candidates(m.from) : Respawn(p, t)
    <3>1. PICK p \in Procs, t \in registered : Respawn(p, t)
      BY <2>2, <2>4 DEF Youngest, Candidates
    <3>2. ScalerTypeOK'
      BY <1>0, <2>1, <3>1, RespawnTypes
    <3>. QED
      BY <2>1, <3>2, ScalerAlone
  <2>. QED
    BY <1>2, <2>3, <2>4 DEF ApplyDecision
<1>3. ASSUME NEW l \in Lords, Beat(l) PROVE ScalerInv'
  <2>1. registered \subseteq registered' /\ healthy' \subseteq registered' /\ registered' \subseteq Lords
    BY <1>0, <1>3 DEF Beat, ScalerTypeOK
  <2>2. UNCHANGED scaler /\ UNCHANGED pending /\ UNCHANGED procs
    BY <1>3 DEF Beat
  <2>3. Move(registered) \subseteq Move(registered')
    BY <2>1 DEF Move
  <2>4. home \in [Procs -> registered'] /\ sent \in [Procs -> SUBSET registered']
    BY <1>0, <2>1 DEF ScalerTypeOK
  <2>5. ScalerTypeOK'
    BY <1>0, <2>1, <2>2, <2>3, <2>4 DEF ScalerTypeOK, scaler, procs
  <2>. QED
    BY <2>2, <2>5, ScalerAlone
<1>4. ASSUME NEW l \in Lords, MarkUnhealthy(l) PROVE ScalerInv'
  <2>1. ScalerTypeOK'
    BY <1>0, <1>4 DEF MarkUnhealthy, ScalerTypeOK, scaler, procs
  <2>. QED
    BY <1>4, <2>1, ScalerAlone DEF MarkUnhealthy
<1>5. ASSUME NEW p \in Procs, NEW l \in Lords, Started(p, l) PROVE ScalerInv'
  <2>1. l \in registered
    BY <1>0, <1>5 DEF Started, ScalerTypeOK
  <2>2. ScalerTypeOK'
    BY <1>0, <1>5, <2>1 DEF Started, SetState, ScalerTypeOK, scaler, lordReg
  <2>. QED
    BY <1>5, <2>2, ScalerAlone DEF Started
<1>6. ASSUME NEW p \in Procs, NEW st \in FinalStates, Ended(p, st) PROVE ScalerInv'
  <2>1. ScalerTypeOK'
    BY <1>0, <1>6 DEF Ended, SetState, ScalerTypeOK, scaler, lordReg
  <2>. QED
    BY <1>6, <2>1, ScalerAlone DEF Ended
<1>7. CASE UNCHANGED scalerVars
  <2>1. ScalerTypeOK'
    BY <1>0, <1>7 DEF scalerVars, scaler, lordReg, procs, ScalerTypeOK
  <2>. QED
    BY <1>7, <2>1, ScalerAlone DEF scalerVars
<1>. QED
  BY <1>1, <1>2, <1>3, <1>4, <1>5, <1>6, <1>7 DEF ScalerNext

\* It holds at the start.
LEMMA ScalerStart ==
    ASSUME ScalerInit
    PROVE  ScalerInv
<1>1. moves = {} /\ migrations = {} /\ pending = {}
  BY DEF ScalerInit
<1>2. ScalerTypeOK
  BY <1>1, AutoscaleAssumption DEF ScalerInit, ScalerTypeOK
<1>. QED
  BY <1>1, <1>2 DEF ScalerInv, Dated, Marked, Recalled, CooldownKept, RebalanceLimited

LEMMA ScalerAlways == ScalerSpec => []ScalerInv
<1>1. ScalerInit => ScalerInv
  BY ScalerStart
<1>2. ScalerInv /\ [ScalerNext]_scalerVars => ScalerInv'
  BY ScalerStep
<1>. QED
  BY <1>1, <1>2, PTL DEF ScalerSpec

-----------------------------------------------------------------------------
\* Types are kept, and lords are healthy, decided about and given processes
\* only once they have registered.
THEOREM AutoscaleTypeOK == ScalerSpec => []ScalerTypeOK
<1>1. ScalerInv => ScalerTypeOK
  BY DEF ScalerInv
<1>. QED
  BY <1>1, ScalerAlways, PTL

\* The cooldown holds for any number of lords and cycles and any load.
THEOREM AutoscaleCooldownKept == ScalerSpec => []CooldownKept
<1>1. ScalerInv => CooldownKept
  BY DEF ScalerInv
<1>. QED
  BY <1>1, ScalerAlways, PTL

\* The rate limit of rebalances survives the pruning of the list.
THEOREM AutoscaleRebalanceLimited == ScalerSpec => []RebalanceLimited
<1>1. ScalerInv => RebalanceLimited
  BY DEF ScalerInv
<1>. QED
  BY <1>1, ScalerAlways, PTL
=============================================================================
