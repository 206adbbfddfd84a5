------------------------ MODULE MappingDataflowProofs ------------------------
(***************************************************************************)
(* Safety of MappingDataflow for any sets of targets, sources, readers and *)
(* triggers, and any number of calls: while a thread is inside a target    *)
(* nobody else changes it, and what is sent or read is what TargetSnapshot *)
(* promises.  The inductive invariant ties each thread's place to its      *)
(* locks (LocksMatch, LocksExclude), what a source has written so far to   *)
(* its place in the loops (ElementsMatch) and a copy begun to the buffer   *)
(* as it is (CopiesMatch).                                                 *)
(***************************************************************************)
EXTENDS MappingDataflow, FiniteSetTheorems, TLAPS

Inside == {"update", "copy first", "copy second", "release"}

\* Where a thread is in its loops.
Looping ==
  \A th \in Threads :
    /\ pc[th] \in {"lock", "write", "unlock"} => /\ th \in Sources
                                                 /\ todo[th] \subseteq Writes[th]
    /\ pc[th] \notin {"idle", "fire"} => todo[th] # {}
    /\ pc[th] = "fire" => th \in Sources
    /\ pc[th] # "idle" => calls[th] > 0
    /\ pc[th] = "update" => th \notin Readers
    /\ th \in Sources /\ pc[th] # "write" => part[th] = 1

\* The targets a source shares: locked ahead, written, to be unlocked.
Shares(th, t) ==
  \/ pc[th] = "lock" /\ t \in Writes[th] \ todo[th]
  \/ pc[th] = "write" /\ t \in Writes[th]
  \/ pc[th] = "unlock" /\ t \in todo[th]

\* The locks know who holds them.
LocksMatch ==
  \A t \in Targets, th \in Threads :
    /\ lock[t][th] = "shared" <=> Shares(th, t)
    /\ lock[t][th] = "claimed" <=> pc[th] = "enter" /\ NextTarget(th) = t
    /\ lock[t][th] = "exclusive" <=> pc[th] \in Inside /\ NextTarget(th) = t

\* One thread at most claims a lock, and alone once it is in.
LocksExclude ==
  \A t \in Targets, th, u \in Threads :
    /\ lock[t][th] \in {"claimed", "exclusive"} /\ lock[t][u] \in {"claimed", "exclusive"} => th = u
    /\ ~(lock[t][th] = "exclusive" /\ lock[t][u] = "shared")

\* What a source has written so far; a target it is not at work on shows its
\* last sample.
ElementMatches(s, t) ==
  IF t \notin Writes[s] THEN buf[t][1][s] = 0 /\ buf[t][2][s] = 0
  ELSE /\ pc[s] # "write" => buf[t][1][s] = written[s] /\ buf[t][2][s] = written[s]
       /\ pc[s] = "write" /\ (t \notin todo[s] \/ part[s] = 2) => buf[t][1][s] = calls[s]
       /\ pc[s] = "write" /\ t \notin todo[s] /\ part[s] = 2 => buf[t][2][s] = calls[s]

ElementsMatch == \A s \in Sources, t \in Targets : ElementMatches(s, t)

\* A copy begun is one of the buffer as it is.
CopiesMatch ==
  \A th \in Threads :
    pc[th] = "copy second" => /\ copy[th].first = buf[NextTarget(th)][1]
                              /\ copy[th].counter = counter[NextTarget(th)]

IInv == /\ TypeOK /\ Looping /\ LocksMatch /\ LocksExclude
        /\ ElementsMatch /\ CopiesMatch

-----------------------------------------------------------------------------
(* The next target of a loop.                                              *)

LEMMA LeastIn ==
  ASSUME NEW S \in SUBSET Nat, S # {}
  PROVE  Min(S) \in S
<1> DEFINE R == {p \in Nat \X Nat : p[1] < p[2]}
<1>a. IsWellFoundedOn(R, Nat)
  BY NatLessThanWellFounded DEF OpToRel
<1>b. \A x, y \in Nat : y < x => <<y, x>> \in R
  OBVIOUS
<1> HIDE DEF R
<1>1. \E x \in S : \A y \in S : <<y, x>> \notin R
  BY <1>a, WFMin
<1>2. \E x \in S : \A y \in S : x =< y
  <2> PICK x \in S : \A y \in S : <<y, x>> \notin R
    BY <1>1
  <2>1. \A y \in S : x \in Nat /\ y \in Nat /\ ~(y < x)
    BY <1>b
  <2> QED
    BY <2>1
<1> QED
  BY <1>2 DEF Min

LEMMA NextTargetIn ==
  ASSUME TypeOK, NEW th \in Threads, todo[th] # {}
  PROVE  NextTarget(th) \in todo[th] /\ NextTarget(th) \in Targets
<1>1. todo[th] \in SUBSET Nat /\ todo[th] \subseteq Targets
  BY TargetsAssumption DEF TypeOK
<1> QED
  BY <1>1, LeastIn DEF NextTarget

LEMMA SourcesAreThreads ==
  Sources \subseteq Threads /\ Timer \in Threads /\ Readers \subseteq Threads
  BY DataflowThreadsAssumption

-----------------------------------------------------------------------------
LEMMA InitHolds == Init => IInv
<1> SUFFICES ASSUME Init PROVE IInv
  OBVIOUS
<1> USE SourcesAreThreads, MaxCallsAssumption
<1>1. TypeOK
  <2>1. Zero \in Values /\ NoCopy \in Copies /\ FreeLock \in [Threads -> Holds]
    BY DEF Zero, Values, NoCopy, Copies, FreeLock, Holds
  <2>2. /\ pc \in [Threads -> Places] /\ todo \in [Threads -> SUBSET Targets]
        /\ part \in [Sources -> {1, 2}] /\ calls \in [Threads -> 0..MaxCalls]
    BY DEF Init, Places
  <2>3. /\ copy \in [Threads -> Copies] /\ lock \in [Targets -> [Threads -> Holds]]
        /\ buf \in [Targets -> [{1, 2} -> Values]]
    BY <2>1 DEF Init
  <2>4. /\ counter \in [Targets -> Nat] /\ time \in [Targets -> Nat]
        /\ on \in [Transmitters -> BOOLEAN] /\ running \in BOOLEAN
        /\ switching \subseteq Transmitters /\ written \in Values
        /\ \A th \in Threads : seen[th] = <<>>
    BY <2>1 DEF Init
  <2> QED
    BY <2>2, <2>3, <2>4 DEF TypeOK
<1>2. Looping /\ LocksMatch /\ LocksExclude
  BY DEF Init, Looping, LocksMatch, LocksExclude, Shares, Inside, FreeLock
<1>3. ElementsMatch /\ CopiesMatch
  BY DEF Init, ElementsMatch, ElementMatches, CopiesMatch, Zero
<1> QED
  BY <1>1, <1>2, <1>3 DEF IInv

-----------------------------------------------------------------------------
(* What a step changes of the thread that takes it, and of the locks.      *)

LEMMA Going ==
  ASSUME TypeOK, NEW th \in Threads, NEW place \in Places, NEW targets \in SUBSET Targets,
         GoTo(th, place, targets)
  PROVE  /\ pc' \in [Threads -> Places] /\ todo' \in [Threads -> SUBSET Targets]
         /\ pc'[th] = place /\ todo'[th] = targets
         /\ \A u \in Threads \ {th} : pc'[u] = pc[u] /\ todo'[u] = todo[u]
  BY DEF GoTo, TypeOK

LEMMA Holding ==
  ASSUME TypeOK, NEW th \in Threads, NEW t \in Targets, NEW h \in Holds, LockAs(th, t, h)
  PROVE  /\ lock' \in [Targets -> [Threads -> Holds]]
         /\ lock'[t][th] = h
         /\ \A x \in Targets, u \in Threads :
               x # t \/ u # th => lock'[x][u] = lock[x][u]
  BY DEF LockAs, Hold, TypeOK

LEMMA PartsDiffer == 1 # 2
  OBVIOUS

LEMMA Kept ==
  /\ UNCHANGED dataVars => buf' = buf /\ counter' = counter /\ time' = time
  /\ UNCHANGED controlVars => on' = on /\ running' = running /\ switching' = switching
  /\ UNCHANGED historyVars => written' = written /\ seen' = seen
  BY DEF dataVars, controlVars, historyVars

\* The locks match their holders after a step of th if they do for th.
LEMMA OthersMatch ==
  ASSUME LocksMatch, NEW th \in Threads,
         \A x \in Targets, u \in Threads \ {th} : lock'[x][u] = lock[x][u],
         \A u \in Threads \ {th} : pc'[u] = pc[u] /\ todo'[u] = todo[u],
         \A t \in Targets :
           /\ lock'[t][th] = "shared" <=> Shares(th, t)'
           /\ lock'[t][th] = "claimed" <=> pc'[th] = "enter" /\ NextTarget(th)' = t
           /\ lock'[t][th] = "exclusive" <=> pc'[th] \in Inside /\ NextTarget(th)' = t
  PROVE  LocksMatch'
<1> SUFFICES ASSUME NEW t \in Targets, NEW u \in Threads \ {th}
             PROVE  /\ lock'[t][u] = "shared" <=> Shares(u, t)'
                    /\ lock'[t][u] = "claimed" <=> pc'[u] = "enter" /\ NextTarget(u)' = t
                    /\ lock'[t][u] = "exclusive" <=> pc'[u] \in Inside /\ NextTarget(u)' = t
  BY DEF LocksMatch
<1>1. lock'[t][u] = lock[t][u] /\ pc'[u] = pc[u] /\ todo'[u] = todo[u]
  OBVIOUS
<1>2. Shares(u, t)' <=> Shares(u, t)
  BY <1>1 DEF Shares
<1>3. NextTarget(u)' = NextTarget(u)
  BY <1>1 DEF NextTarget
<1> QED
  BY <1>1, <1>2, <1>3 DEF LocksMatch

\* A step in which th goes on, taking and giving back locks, without a look at
\* the buffers.
LEMMA ThreadMoves ==
  ASSUME IInv, NEW th \in Threads,
         pc' \in [Threads -> Places], todo' \in [Threads -> SUBSET Targets],
         calls' \in [Threads -> 0..MaxCalls], lock' \in [Targets -> [Threads -> Holds]],
         time' \in [Targets -> Nat],
         \A u \in Threads \ {th} :
           pc'[u] = pc[u] /\ todo'[u] = todo[u] /\ calls'[u] = calls[u],
         \A x \in Targets, u \in Threads \ {th} : lock'[x][u] = lock[x][u],
         part' = part, copy' = copy, buf' = buf, counter' = counter, on' = on,
         running' = running, switching' = switching, written' = written, seen' = seen,
         pc[th] # "write",
         pc'[th] # "copy second",
         pc'[th] \in {"lock", "write", "unlock"} => th \in Sources /\ todo'[th] \subseteq Writes[th],
         pc'[th] \notin {"idle", "fire"} => todo'[th] # {},
         pc'[th] = "fire" => th \in Sources,
         pc'[th] # "idle" => calls'[th] > 0,
         pc'[th] = "update" => th \notin Readers,
         pc'[th] = "write" => todo'[th] = Writes[th],
         \A t \in Targets :
           /\ lock'[t][th] = "shared" <=> Shares(th, t)'
           /\ lock'[t][th] = "claimed" <=> pc'[th] = "enter" /\ NextTarget(th)' = t
           /\ lock'[t][th] = "exclusive" <=> pc'[th] \in Inside /\ NextTarget(th)' = t,
         LocksExclude'
  PROVE  IInv'
<1> USE SourcesAreThreads
<1>1. TypeOK'
  BY DEF IInv, TypeOK
<1>2. Looping'
  BY DEF IInv, Looping
<1>3. LocksMatch'
  BY OthersMatch DEF IInv
<1>4. ElementsMatch'
  <2> SUFFICES ASSUME NEW s \in Sources, NEW t \in Targets
               PROVE  ElementMatches(s, t)'
    BY DEF ElementsMatch
  <2>1. ElementMatches(s, t)
    BY DEF IInv, ElementsMatch
  <2>2. CASE s = th
    <3>1. part[s] = 1
      BY <2>2 DEF IInv, Looping
    <3>2. pc[s] # "write" /\ (pc'[s] = "write" => todo'[s] = Writes[s])
      BY <2>2, Zenon
    <3>6. part'[s] # 2
      BY <3>1, PartsDiffer, Zenon
    <3>3. buf' = buf /\ written' = written
      OBVIOUS
    <3>4. CASE t \notin Writes[s]
      BY <2>1, <3>3, <3>4 DEF ElementMatches
    <3>5. CASE t \in Writes[s]
      BY <2>1, <3>2, <3>3, <3>5, <3>6 DEF ElementMatches
    <3> QED
      BY <3>4, <3>5
  <2>3. CASE s # th
    BY <2>1, <2>3 DEF ElementMatches
  <2> QED
    BY <2>2, <2>3
<1>5. CopiesMatch'
  <2> SUFFICES ASSUME NEW u \in Threads, pc'[u] = "copy second"
               PROVE  /\ copy'[u].first = buf'[NextTarget(u)'][1]
                      /\ copy'[u].counter = counter'[NextTarget(u)']
    BY DEF CopiesMatch
  <2>1. u # th /\ pc[u] = "copy second" /\ NextTarget(u)' = NextTarget(u)
    BY DEF NextTarget
  <2> QED
    BY <2>1 DEF IInv, CopiesMatch
<1> QED
  BY <1>1, <1>2, <1>3, <1>4, <1>5 DEF IInv

LEMMA ShareTargetStep ==
  ASSUME IInv, NEW s \in Sources, ShareTarget(s)
  PROVE  IInv'
<1> DEFINE t == NextTarget(s)
           left == todo[s] \ {t}
<1> USE SourcesAreThreads
<1>1. /\ pc[s] = "lock" /\ todo[s] # {} /\ todo[s] \subseteq Writes[s] /\ Writes[s] \subseteq Targets
      /\ calls[s] > 0 /\ part[s] = 1
  BY WritesAssumption DEF IInv, Looping, ShareTarget
<1>2. t \in todo[s] /\ t \in Targets
  BY <1>1, NextTargetIn DEF IInv
<1>3. /\ lock' \in [Targets -> [Threads -> Holds]]
      /\ lock'[t][s] = "shared"
      /\ \A x \in Targets, u \in Threads : x # t \/ u # s => lock'[x][u] = lock[x][u]
  BY <1>2, Holding DEF IInv, ShareTarget, Holds
<1>4. IF left # {} THEN GoTo(s, "lock", left) ELSE GoTo(s, "write", Writes[s])
  BY DEF ShareTarget, Advance
<1>5. /\ pc' \in [Threads -> Places] /\ todo' \in [Threads -> SUBSET Targets]
      /\ \/ pc'[s] = "lock" /\ todo'[s] = left /\ left # {}
         \/ pc'[s] = "write" /\ todo'[s] = Writes[s] /\ left = {}
      /\ \A u \in Threads \ {s} : pc'[u] = pc[u] /\ todo'[u] = todo[u]
  <2>1. TypeOK /\ s \in Threads /\ {"lock", "write"} \subseteq Places
        /\ left \in SUBSET Targets /\ Writes[s] \in SUBSET Targets
    BY <1>1 DEF IInv, Places
  <2>2. CASE left # {}
    <3>1. GoTo(s, "lock", left)
      BY <1>4, <2>2
    <3> QED
      BY <2>1, <2>2, <3>1, Going
  <2>3. CASE left = {}
    <3>1. GoTo(s, "write", Writes[s])
      BY <1>4, <2>3
    <3> QED
      BY <2>1, <2>3, <3>1, Going
  <2> QED
    BY <2>2, <2>3
<1>6. UNCHANGED <<part, calls, copy, buf, counter, time, on, running, switching, written, seen>>
  BY Kept DEF ShareTarget
<1> HIDE DEF t, left
<1>7. \A x \in Targets : /\ lock'[x][s] = "shared" <=> Shares(s, x)'
                         /\ lock'[x][s] \notin {"claimed", "exclusive"}
  <2>1. \A x \in Targets : /\ lock[x][s] = "shared" <=> x \in Writes[s] \ todo[s]
                           /\ lock[x][s] \notin {"claimed", "exclusive"}
    BY <1>1 DEF IInv, LocksMatch, Shares, Inside
  <2>2. \A x \in Targets : Shares(s, x)' <=> x \in Writes[s] \ left
    BY <1>5 DEF Shares
  <2> QED
    BY <1>1, <1>2, <1>3, <2>1, <2>2 DEF left
<1>8. LocksExclude'
  BY <1>2, <1>3 DEF IInv, LocksExclude, ShareTarget, CanShare, Claimed, t
<1>9. pc'[s] \notin Inside \cup {"enter"}
  BY <1>5 DEF Inside
<1>10. pc'[s] \in {"lock", "write"} /\ todo'[s] \subseteq Writes[s] /\ todo'[s] # {}
  BY <1>1, <1>5 DEF left
<1>11. \A x \in Targets :
         /\ lock'[x][s] = "shared" <=> Shares(s, x)'
         /\ lock'[x][s] = "claimed" <=> pc'[s] = "enter" /\ NextTarget(s)' = x
         /\ lock'[x][s] = "exclusive" <=> pc'[s] \in Inside /\ NextTarget(s)' = x
  BY <1>7, <1>9
<1>12. s \in Threads /\ calls' \in [Threads -> 0..MaxCalls] /\ time' \in [Targets -> Nat]
  BY <1>6 DEF IInv, TypeOK
<1> QED
  BY <1>1, <1>3, <1>5, <1>6, <1>8, <1>10, <1>11, <1>12, ThreadMoves

LEMMA UnlockTargetStep ==
  ASSUME IInv, NEW s \in Sources, UnlockTarget(s)
  PROVE  IInv'
<1> DEFINE t == NextTarget(s)
           left == todo[s] \ {t}
<1> USE SourcesAreThreads
<1>1. /\ pc[s] = "unlock" /\ todo[s] # {} /\ todo[s] \subseteq Writes[s] /\ Writes[s] \subseteq Targets
      /\ calls[s] > 0
  BY WritesAssumption DEF IInv, Looping, UnlockTarget
<1>2. t \in todo[s] /\ t \in Targets
  BY <1>1, NextTargetIn DEF IInv
<1>3. /\ lock' \in [Targets -> [Threads -> Holds]]
      /\ lock'[t][s] = "out"
      /\ \A x \in Targets, u \in Threads : x # t \/ u # s => lock'[x][u] = lock[x][u]
  BY <1>2, Holding DEF IInv, UnlockTarget, Holds
<1>4. IF left # {} THEN GoTo(s, "unlock", left) ELSE GoTo(s, "fire", {})
  BY DEF UnlockTarget, Advance
<1>5. /\ pc' \in [Threads -> Places] /\ todo' \in [Threads -> SUBSET Targets]
      /\ \/ pc'[s] = "unlock" /\ todo'[s] = left /\ left # {}
         \/ pc'[s] = "fire" /\ todo'[s] = {} /\ left = {}
      /\ \A u \in Threads \ {s} : pc'[u] = pc[u] /\ todo'[u] = todo[u]
  <2>1. TypeOK /\ s \in Threads /\ {"unlock", "fire"} \subseteq Places
        /\ left \in SUBSET Targets /\ {} \in SUBSET Targets
    BY <1>1 DEF IInv, Places
  <2>2. CASE left # {}
    <3>1. GoTo(s, "unlock", left)
      BY <1>4, <2>2
    <3> QED
      BY <2>1, <2>2, <3>1, Going
  <2>3. CASE left = {}
    <3>1. GoTo(s, "fire", {})
      BY <1>4, <2>3
    <3> QED
      BY <2>1, <2>3, <3>1, Going
  <2> QED
    BY <2>2, <2>3
<1>6. UNCHANGED <<part, calls, copy, buf, counter, time, on, running, switching, written, seen>>
  BY Kept DEF UnlockTarget
<1> HIDE DEF t, left
<1>7. \A x \in Targets : /\ lock'[x][s] = "shared" <=> Shares(s, x)'
                         /\ lock'[x][s] \notin {"claimed", "exclusive"}
  <2>1. \A x \in Targets : /\ lock[x][s] = "shared" <=> x \in todo[s]
                           /\ lock[x][s] \notin {"claimed", "exclusive"}
    BY <1>1 DEF IInv, LocksMatch, Shares, Inside
  <2>2. \A x \in Targets : Shares(s, x)' <=> x \in left
    BY <1>5 DEF Shares
  <2> QED
    BY <1>1, <1>2, <1>3, <2>1, <2>2 DEF left
<1>8. LocksExclude'
  BY <1>2, <1>3 DEF IInv, LocksExclude
<1>9. pc'[s] \notin Inside \cup {"enter"}
  BY <1>5 DEF Inside
<1>10. pc'[s] \in {"unlock", "fire"} /\ (pc'[s] = "unlock" => todo'[s] # {} /\ todo'[s] \subseteq Writes[s])
  BY <1>1, <1>5 DEF left
<1>11. \A x \in Targets :
         /\ lock'[x][s] = "shared" <=> Shares(s, x)'
         /\ lock'[x][s] = "claimed" <=> pc'[s] = "enter" /\ NextTarget(s)' = x
         /\ lock'[x][s] = "exclusive" <=> pc'[s] \in Inside /\ NextTarget(s)' = x
  BY <1>7, <1>9
<1>12. s \in Threads /\ calls' \in [Threads -> 0..MaxCalls] /\ time' \in [Targets -> Nat]
  BY <1>6 DEF IInv, TypeOK
<1> QED
  BY <1>1, <1>3, <1>5, <1>6, <1>8, <1>10, <1>11, <1>12, ThreadMoves

\* A call that comes in, or goes on to the triggers: no locks yet, or no longer.
LEMMA ThreadStarts ==
  ASSUME IInv, NEW th \in Threads, NEW place \in Places, NEW targets \in SUBSET Targets,
         GoTo(th, place, targets), pc[th] \in {"idle", "fire"},
         place \in {"idle", "fire", "lock", "claim"},
         place = "fire" => th \in Sources,
         place = "lock" => th \in Sources /\ targets = Writes[th],
         place \in {"lock", "claim"} => targets # {},
         calls' \in [Threads -> 0..MaxCalls], calls'[th] > 0,
         \A u \in Threads \ {th} : calls'[u] = calls[u],
         time' \in [Targets -> Nat],
         UNCHANGED <<part, copy, lock, buf, counter, controlVars, historyVars>>
  PROVE  IInv'
<1> USE SourcesAreThreads
<1>1. /\ pc' \in [Threads -> Places] /\ todo' \in [Threads -> SUBSET Targets]
      /\ pc'[th] = place /\ todo'[th] = targets
      /\ \A u \in Threads \ {th} : pc'[u] = pc[u] /\ todo'[u] = todo[u]
  BY Going DEF IInv
<1>2. UNCHANGED <<part, copy, lock, buf, counter, on, running, switching, written, seen>>
  BY Kept
<1>3. lock' \in [Targets -> [Threads -> Holds]] /\ LocksExclude'
  BY <1>2 DEF IInv, TypeOK, LocksExclude
<1>4. \A x \in Targets :
        /\ lock'[x][th] = "shared" <=> Shares(th, x)'
        /\ lock'[x][th] = "claimed" <=> pc'[th] = "enter" /\ NextTarget(th)' = x
        /\ lock'[x][th] = "exclusive" <=> pc'[th] \in Inside /\ NextTarget(th)' = x
  <2>1. \A x \in Targets : lock[x][th] \notin {"shared", "claimed", "exclusive"}
    BY DEF IInv, LocksMatch, Shares, Inside
  <2>2. \A x \in Targets : ~Shares(th, x)'
    BY <1>1 DEF Shares
  <2>3. pc'[th] \notin Inside \cup {"enter"}
    BY <1>1 DEF Inside
  <2> QED
    BY <1>2, <2>1, <2>2, <2>3
<1> QED
  BY <1>1, <1>2, <1>3, <1>4, ThreadMoves

LEMMA Calling ==
  ASSUME IInv, NEW th \in Threads, Call(th)
  PROVE  /\ pc[th] = "idle" /\ calls' \in [Threads -> 0..MaxCalls] /\ calls'[th] > 0
         /\ \A u \in Threads \ {th} : calls'[u] = calls[u]
  BY MaxCallsAssumption DEF IInv, TypeOK, Call

LEMMA ReceiveStep ==
  ASSUME IInv, NEW s \in Sources, Receive(s)
  PROVE  IInv'
<1>1. s \in Threads /\ Call(s) /\ Writes[s] \in SUBSET Targets
  BY SourcesAreThreads, WritesAssumption DEF Receive
<1>2. UNCHANGED <<part, copy, lock, buf, counter, time, controlVars, historyVars>>
  BY Kept DEF Receive
<1>3. time' \in [Targets -> Nat]
  BY <1>2 DEF IInv, TypeOK
<1>4. CASE Writes[s] = {}
  <2>1. GoTo(s, "fire", Writes[s]) /\ "fire" \in Places
    BY <1>4 DEF Receive, Places
  <2> QED
    BY <1>1, <1>2, <1>3, <2>1, Calling, ThreadStarts
<1>5. CASE Writes[s] # {}
  <2>1. GoTo(s, "lock", Writes[s]) /\ "lock" \in Places
    BY <1>5 DEF Receive, Places
  <2> QED
    BY <1>1, <1>2, <1>3, <1>5, <2>1, Calling, ThreadStarts
<1> QED
  BY <1>4, <1>5

LEMMA TransmitStep ==
  ASSUME IInv, NEW th \in Threads, Transmit(th), pc[th] \in {"idle", "fire"},
         calls' \in [Threads -> 0..MaxCalls], calls'[th] > 0,
         \A u \in Threads \ {th} : calls'[u] = calls[u]
  PROVE  IInv'
<1>1. UNCHANGED <<part, copy, lock, buf, counter, time, controlVars, historyVars>>
  BY Kept DEF Transmit
<1>2. time' \in [Targets -> Nat] /\ {"claim", "idle"} \subseteq Places
  BY <1>1 DEF IInv, TypeOK, Places
<1>3. \/ th \in Transmitters /\ Sends[th] # {} /\ GoTo(th, "claim", Sends[th])
      \/ GoTo(th, "idle", {})
  BY DEF Transmit
<1>4. CASE th \in Transmitters /\ Sends[th] # {} /\ GoTo(th, "claim", Sends[th])
  <2>1. Sends[th] \in SUBSET Targets
    BY <1>4, SendsAssumption DEF Transmitters
  <2> QED
    BY <1>1, <1>2, <1>4, <2>1, ThreadStarts
<1>5. CASE GoTo(th, "idle", {})
  BY <1>1, <1>2, <1>5, ThreadStarts
<1> QED
  BY <1>3, <1>4, <1>5

LEMMA FireSignalStep ==
  ASSUME IInv, NEW s \in Sources, FireSignal(s)
  PROVE  IInv'
<1>1. s \in Threads /\ Transmit(s) /\ pc[s] = "fire" /\ calls' = calls
  BY SourcesAreThreads DEF FireSignal
<1>2. calls \in [Threads -> 0..MaxCalls] /\ calls[s] > 0
  BY <1>1 DEF IInv, TypeOK, Looping
<1> QED
  BY <1>1, <1>2, TransmitStep

LEMMA OnTimerStep ==
  ASSUME IInv, OnTimer
  PROVE  IInv'
  BY SourcesAreThreads, Calling, TransmitStep DEF OnTimer

LEMMA Ticking ==
  ASSUME TypeOK, NEW t \in Targets,
         time' = [time EXCEPT ![t] = @ + (IF t \in TimeTargets THEN 1 ELSE 0)]
  PROVE  time' \in [Targets -> Nat]
<1>1. time \in [Targets -> Nat] /\ (IF t \in TimeTargets THEN 1 ELSE 0) \in Nat
  BY DEF TypeOK
<1> QED
  BY <1>1

LEMMA GetCurrentDataStep ==
  ASSUME IInv, NEW r \in Readers, NEW t \in Targets, GetCurrentData(r, t)
  PROVE  IInv'
<1>1. r \in Threads /\ Call(r) /\ GoTo(r, "claim", {t}) /\ "claim" \in Places
      /\ {t} \in SUBSET Targets
  BY SourcesAreThreads DEF GetCurrentData, Places
<1>2. UNCHANGED <<part, copy, lock, buf, counter, controlVars, historyVars>>
  BY DEF GetCurrentData
<1>3. time' \in [Targets -> Nat]
  BY Ticking DEF GetCurrentData, IInv
<1> QED
  BY <1>1, <1>2, <1>3, Calling, ThreadStarts

-----------------------------------------------------------------------------
(* Taking and releasing a lock exclusively.                                *)

LEMMA Taking ==
  ASSUME IInv, NEW th \in Threads, NEW t \in Targets, NEW h \in {"claimed", "exclusive"},
         pc[th] \in {"claim", "enter"}, t = NextTarget(th), LockAs(th, t, h),
         GoTo(th, IF h = "claimed" THEN "enter" ELSE AfterLock(th), todo[th]),
         \A u \in Threads \ {th} : lock[t][u] \notin {"claimed", "exclusive"},
         h = "exclusive" => NoReaders(lock[t]),
         UNCHANGED <<part, calls, copy, dataVars, controlVars, historyVars>>
  PROVE  IInv'
<1> USE SourcesAreThreads
<1> DEFINE place == IF h = "claimed" THEN "enter" ELSE AfterLock(th)
<1>1. place \in {"enter", "update", "copy first"} /\ place \in Places
      /\ (place = "enter" <=> h = "claimed") /\ (place = "update" => th \notin Readers)
  BY DEF AfterLock, Places
<1>2. todo[th] \in SUBSET Targets /\ todo[th] # {} /\ calls[th] > 0
      /\ calls \in [Threads -> 0..MaxCalls] /\ time \in [Targets -> Nat]
  BY DEF IInv, TypeOK, Looping
<1> HIDE DEF place
<1>3. GoTo(th, place, todo[th]) /\ TypeOK
  BY DEF place, IInv
<1>4. /\ pc' \in [Threads -> Places] /\ todo' \in [Threads -> SUBSET Targets]
      /\ pc'[th] = place /\ todo'[th] = todo[th]
      /\ \A u \in Threads \ {th} : pc'[u] = pc[u] /\ todo'[u] = todo[u]
  BY <1>1, <1>2, <1>3, Going
<1>5. /\ lock' \in [Targets -> [Threads -> Holds]]
      /\ lock'[t][th] = h
      /\ \A x \in Targets, u \in Threads : x # t \/ u # th => lock'[x][u] = lock[x][u]
  BY <1>3, Holding DEF Holds
<1>6. UNCHANGED <<part, calls, copy, buf, counter, time, on, running, switching, written, seen>>
  BY Kept
<1>7. LocksExclude'
  <2>1. \A u \in Threads : h = "exclusive" => lock[t][u] # "shared"
    BY DEF NoReaders, SharedHolders
  <2>2. LocksExclude
    BY DEF IInv
  <2> QED
    BY <1>5, <2>1, <2>2 DEF LocksExclude
<1>8. \A x \in Targets :
        /\ lock'[x][th] = "shared" <=> Shares(th, x)'
        /\ lock'[x][th] = "claimed" <=> pc'[th] = "enter" /\ NextTarget(th)' = x
        /\ lock'[x][th] = "exclusive" <=> pc'[th] \in Inside /\ NextTarget(th)' = x
  <2>1. NextTarget(th)' = t
    BY <1>4 DEF NextTarget
  <2>2. \A x \in Targets : ~Shares(th, x)'
    BY <1>1, <1>4 DEF Shares
  <2>3. \A x \in Targets \ {t} : lock[x][th] \notin {"shared", "claimed", "exclusive"}
    BY DEF IInv, LocksMatch, Shares, Inside
  <2>4. pc'[th] \in Inside <=> h = "exclusive"
    BY <1>1, <1>4 DEF Inside
  <2>5. pc'[th] = "enter" <=> h = "claimed"
    BY <1>1, <1>4
  <2>6. \A x \in Targets \ {t} : lock'[x][th] \notin {"shared", "claimed", "exclusive"}
    BY <1>5, <2>3
  <2>7. lock'[t][th] \in {"claimed", "exclusive"}
    BY <1>5
  <2> QED
    BY <1>5, <2>1, <2>2, <2>4, <2>5, <2>6, <2>7
<1> QED
  BY <1>1, <1>2, <1>4, <1>5, <1>6, <1>7, <1>8, ThreadMoves

LEMMA ClaimTargetStep ==
  ASSUME IInv, NEW th \in Threads, ClaimTarget(th)
  PROVE  IInv'
<1> DEFINE t == NextTarget(th)
<1>1. pc[th] = "claim" /\ todo[th] # {} /\ t \in Targets
  BY NextTargetIn DEF ClaimTarget, IInv, Looping
<1>2. \A u \in Threads : lock[t][u] \notin {"claimed", "exclusive"}
  BY DEF ClaimTarget, CanClaim, Claimed
<1>3. UNCHANGED <<part, calls, copy, dataVars, controlVars, historyVars>>
  BY DEF ClaimTarget
<1>4. CASE NoReaders(lock[t])
  <2>1. LockAs(th, t, "exclusive") /\ GoTo(th, AfterLock(th), todo[th])
    BY <1>4 DEF ClaimTarget
  <2> QED
    BY <1>1, <1>2, <1>3, <1>4, <2>1, Taking
<1>5. CASE ~NoReaders(lock[t])
  <2>1. LockAs(th, t, "claimed") /\ GoTo(th, "enter", todo[th])
    BY <1>5 DEF ClaimTarget
  <2> QED
    BY <1>1, <1>2, <1>3, <2>1, Taking
<1> QED
  BY <1>4, <1>5

LEMMA EnterTargetStep ==
  ASSUME IInv, NEW th \in Threads, EnterTarget(th)
  PROVE  IInv'
<1> DEFINE t == NextTarget(th)
<1>1. pc[th] = "enter" /\ todo[th] # {} /\ t \in Targets
  BY NextTargetIn DEF EnterTarget, IInv, Looping
<1>2. \A u \in Threads \ {th} : lock[t][u] \notin {"claimed", "exclusive"}
  BY <1>1 DEF IInv, LocksMatch, LocksExclude
<1>3. /\ UNCHANGED <<part, calls, copy, dataVars, controlVars, historyVars>>
      /\ NoReaders(lock[t]) /\ LockAs(th, t, "exclusive") /\ GoTo(th, AfterLock(th), todo[th])
  BY DEF EnterTarget
<1> QED
  BY <1>1, <1>2, <1>3, Taking

LEMMA ReleaseTargetStep ==
  ASSUME IInv, NEW th \in Threads, ReleaseTarget(th)
  PROVE  IInv'
<1> DEFINE t == NextTarget(th)
           left == todo[th] \ {t}
<1> USE SourcesAreThreads
<1>1. /\ pc[th] = "release" /\ todo[th] # {} /\ todo[th] \subseteq Targets /\ calls[th] > 0
  BY DEF IInv, Looping, TypeOK, ReleaseTarget
<1>2. t \in todo[th] /\ t \in Targets
  BY <1>1, NextTargetIn DEF IInv
<1>3. /\ lock' \in [Targets -> [Threads -> Holds]]
      /\ lock'[t][th] = "out"
      /\ \A x \in Targets, u \in Threads : x # t \/ u # th => lock'[x][u] = lock[x][u]
  BY <1>2, Holding DEF IInv, ReleaseTarget, Holds
<1>4. IF left # {} THEN GoTo(th, "claim", left) ELSE GoTo(th, "idle", {})
  BY DEF ReleaseTarget, Advance
<1>5. /\ pc' \in [Threads -> Places] /\ todo' \in [Threads -> SUBSET Targets]
      /\ \/ pc'[th] = "claim" /\ todo'[th] = left /\ left # {}
         \/ pc'[th] = "idle" /\ todo'[th] = {} /\ left = {}
      /\ \A u \in Threads \ {th} : pc'[u] = pc[u] /\ todo'[u] = todo[u]
  <2>1. TypeOK /\ {"claim", "idle"} \subseteq Places
        /\ left \in SUBSET Targets /\ {} \in SUBSET Targets
    BY <1>1 DEF IInv, Places
  <2>2. CASE left # {}
    <3>1. GoTo(th, "claim", left)
      BY <1>4, <2>2
    <3> QED
      BY <2>1, <2>2, <3>1, Going
  <2>3. CASE left = {}
    <3>1. GoTo(th, "idle", {})
      BY <1>4, <2>3
    <3> QED
      BY <2>1, <2>3, <3>1, Going
  <2> QED
    BY <2>2, <2>3
<1>6. UNCHANGED <<part, calls, copy, buf, counter, time, on, running, switching, written, seen>>
  BY Kept DEF ReleaseTarget
<1> HIDE DEF t, left
<1>7. \A x \in Targets : /\ ~Shares(th, x)'
                         /\ lock'[x][th] \notin {"shared", "claimed", "exclusive"}
  <2>1. \A x \in Targets \ {t} : lock[x][th] \notin {"shared", "claimed", "exclusive"}
    BY <1>1 DEF IInv, LocksMatch, Shares, Inside, t
  <2>2. \A x \in Targets : ~Shares(th, x)'
    BY <1>5 DEF Shares
  <2> QED
    BY <1>2, <1>3, <2>1, <2>2
<1>8. LocksExclude'
  BY <1>2, <1>3 DEF IInv, LocksExclude
<1>9. pc'[th] \notin Inside \cup {"enter"}
  BY <1>5 DEF Inside
<1>10. pc'[th] \in {"claim", "idle"} /\ (pc'[th] = "claim" => todo'[th] # {})
  BY <1>5
<1>11. \A x \in Targets :
         /\ lock'[x][th] = "shared" <=> Shares(th, x)'
         /\ lock'[x][th] = "claimed" <=> pc'[th] = "enter" /\ NextTarget(th)' = x
         /\ lock'[x][th] = "exclusive" <=> pc'[th] \in Inside /\ NextTarget(th)' = x
  BY <1>7, <1>9
<1>12. calls' \in [Threads -> 0..MaxCalls] /\ time' \in [Targets -> Nat]
  BY <1>6 DEF IInv, TypeOK
<1> QED
  BY <1>1, <1>3, <1>5, <1>6, <1>8, <1>10, <1>11, <1>12, ThreadMoves

-----------------------------------------------------------------------------
(* At work on the buffers.                                                 *)

\* Whoever is inside a target is alone there.
LEMMA Alone ==
  ASSUME IInv, NEW th \in Threads, pc[th] \in Inside
  PROVE  /\ NextTarget(th) \in Targets /\ todo[th] # {} /\ calls[th] > 0
         /\ lock[NextTarget(th)][th] = "exclusive"
         /\ \A u \in Threads : pc[u] \in Inside /\ NextTarget(u) = NextTarget(th) => u = th
         /\ \A u \in Threads : ~Shares(u, NextTarget(th))
<1> DEFINE t == NextTarget(th)
<1>1. t \in Targets /\ todo[th] # {} /\ calls[th] > 0
  BY NextTargetIn DEF IInv, Looping, Inside
<1>2. lock[t][th] = "exclusive"
  BY <1>1 DEF IInv, LocksMatch
<1>3. ASSUME NEW u \in Threads, pc[u] \in Inside, NextTarget(u) = t PROVE u = th
  <2>1. lock[t][u] = "exclusive"
    BY <1>1, <1>3 DEF IInv, LocksMatch
  <2> QED
    BY <1>1, <1>2, <2>1 DEF IInv, LocksExclude
<1>4. ASSUME NEW u \in Threads, Shares(u, t) PROVE FALSE
  <2>1. lock[t][u] = "shared"
    BY <1>1, <1>4 DEF IInv, LocksMatch
  <2> QED
    BY <1>1, <1>2, <2>1 DEF IInv, LocksExclude
<1> QED
  BY <1>1, <1>2, <1>3, <1>4

LEMMA InsideMoves ==
  ASSUME IInv, NEW th \in Threads, pc[th] \in Inside, NEW place \in Inside \ {"update"},
         GoTo(th, place, todo[th]), UNCHANGED <<part, calls, lock, buf, written>>
  PROVE  /\ pc' \in [Threads -> Places] /\ todo' \in [Threads -> SUBSET Targets]
         /\ pc'[th] = place /\ \A u \in Threads \ {th} : pc'[u] = pc[u]
         /\ \A u \in Threads : NextTarget(u)' = NextTarget(u)
         /\ Looping' /\ LocksMatch' /\ LocksExclude' /\ ElementsMatch'
<1>1. place \in Places /\ todo[th] \in SUBSET Targets /\ TypeOK
  BY DEF IInv, TypeOK, Inside, Places
<1>2. /\ pc' \in [Threads -> Places] /\ todo' \in [Threads -> SUBSET Targets]
      /\ pc'[th] = place /\ todo'[th] = todo[th]
      /\ \A u \in Threads \ {th} : pc'[u] = pc[u] /\ todo'[u] = todo[u]
  BY <1>1, Going
<1>3. \A u \in Threads : todo'[u] = todo[u]
  BY <1>2
<1>4. \A u \in Threads : NextTarget(u)' = NextTarget(u)
  BY <1>3 DEF NextTarget
<1>5. Looping'
  BY <1>2, SourcesAreThreads DEF IInv, Looping, Inside
<1>6. LocksMatch'
  <2>1. \A t \in Targets : /\ lock[t][th] # "shared" /\ lock[t][th] # "claimed"
                           /\ lock[t][th] = "exclusive" <=> NextTarget(th) = t
    BY DEF IInv, LocksMatch, Shares, Inside
  <2>2. \A t \in Targets : ~Shares(th, t)'
    BY <1>2 DEF Shares, Inside
  <2>3. pc'[th] # "enter" /\ pc'[th] \in Inside
    BY <1>2 DEF Inside
  <2>4. \A t \in Targets :
          /\ lock'[t][th] = "shared" <=> Shares(th, t)'
          /\ lock'[t][th] = "claimed" <=> pc'[th] = "enter" /\ NextTarget(th)' = t
          /\ lock'[t][th] = "exclusive" <=> pc'[th] \in Inside /\ NextTarget(th)' = t
    BY <1>4, <2>1, <2>2, <2>3
  <2>5. \A x \in Targets, u \in Threads \ {th} : lock'[x][u] = lock[x][u]
    OBVIOUS
  <2> QED
    BY <1>2, <2>4, <2>5, OthersMatch DEF IInv
<1>7. LocksExclude'
  BY DEF IInv, LocksExclude
<1>8. ElementsMatch'
  <2> SUFFICES ASSUME NEW s \in Sources, NEW t \in Targets
               PROVE  ElementMatches(s, t)'
    BY DEF ElementsMatch
  <2>1. ElementMatches(s, t)
    BY DEF IInv, ElementsMatch
  <2>2. /\ pc'[s] = "write" <=> pc[s] = "write"
        /\ todo'[s] = todo[s]
    BY <1>2, SourcesAreThreads DEF Inside
  <2> QED
    BY <2>1, <2>2 DEF ElementMatches
<1> QED
  BY <1>2, <1>4, <1>5, <1>6, <1>7, <1>8

LEMMA UpdateFunctionsStep ==
  ASSUME IInv, NEW th \in Threads, UpdateFunctions(th)
  PROVE  IInv'
<1> DEFINE t == NextTarget(th)
<1>1. pc[th] \in Inside /\ "copy first" \in Inside \ {"update"} /\ GoTo(th, "copy first", todo[th])
  BY DEF UpdateFunctions, Inside
<1>2. UNCHANGED <<part, calls, copy, lock, buf, on, running, switching, written, seen>>
  BY Kept DEF UpdateFunctions
<1>3. /\ pc' \in [Threads -> Places] /\ todo' \in [Threads -> SUBSET Targets]
      /\ pc'[th] = "copy first" /\ \A u \in Threads \ {th} : pc'[u] = pc[u]
      /\ \A u \in Threads : NextTarget(u)' = NextTarget(u)
      /\ Looping' /\ LocksMatch' /\ LocksExclude' /\ ElementsMatch'
  BY <1>1, <1>2, InsideMoves
<1>4. t \in Targets
  BY <1>1, Alone
<1>5. counter' = [counter EXCEPT ![t] = @ + 1] /\ counter' \in [Targets -> Nat]
  <2>1. counter' = [counter EXCEPT ![t] = @ + 1] /\ counter \in [Targets -> Nat]
    BY DEF UpdateFunctions, IInv, TypeOK
  <2> HIDE DEF t
  <2> QED
    BY <1>4, <2>1
<1>6. time' \in [Targets -> Nat]
  BY <1>4, Ticking DEF UpdateFunctions, IInv
<1>7. TypeOK'
  BY <1>2, <1>3, <1>5, <1>6 DEF IInv, TypeOK
<1>8. CopiesMatch'
  <2> SUFFICES ASSUME NEW u \in Threads, pc'[u] = "copy second"
               PROVE  /\ copy'[u].first = buf'[NextTarget(u)'][1]
                      /\ copy'[u].counter = counter'[NextTarget(u)']
    BY DEF CopiesMatch
  <2>1. u # th /\ pc[u] = "copy second" /\ pc[u] \in Inside
    BY <1>3 DEF Inside
  <2>2. NextTarget(u) # t /\ NextTarget(u) \in Targets
    BY <1>1, <2>1, Alone
  <2>3. counter'[NextTarget(u)] = counter[NextTarget(u)]
    BY <1>5, <2>2 DEF IInv, TypeOK
  <2> QED
    BY <1>2, <1>3, <2>1, <2>3 DEF IInv, CopiesMatch
<1> QED
  BY <1>3, <1>7, <1>8 DEF IInv

LEMMA CopyFirstStep ==
  ASSUME IInv, NEW th \in Threads, CopyFirst(th)
  PROVE  IInv'
<1> DEFINE t == NextTarget(th)
<1>1. pc[th] \in Inside /\ "copy second" \in Inside \ {"update"} /\ GoTo(th, "copy second", todo[th])
  BY DEF CopyFirst, Inside
<1>2. UNCHANGED <<part, calls, lock, buf, counter, time, on, running, switching, written, seen>>
  BY Kept DEF CopyFirst
<1>3. /\ pc' \in [Threads -> Places] /\ todo' \in [Threads -> SUBSET Targets]
      /\ pc'[th] = "copy second" /\ \A u \in Threads \ {th} : pc'[u] = pc[u]
      /\ \A u \in Threads : NextTarget(u)' = NextTarget(u)
      /\ Looping' /\ LocksMatch' /\ LocksExclude' /\ ElementsMatch'
  BY <1>1, <1>2, InsideMoves
<1>4. t \in Targets
  BY <1>1, Alone
<1>5. /\ copy' = [copy EXCEPT ![th] = [@ EXCEPT !.first = buf[t][1], !.counter = counter[t]]]
      /\ copy \in [Threads -> Copies] /\ buf[t][1] \in Values /\ counter[t] \in Nat
  BY <1>4 DEF CopyFirst, IInv, TypeOK
<1>6. /\ copy' \in [Threads -> Copies]
      /\ copy'[th].first = buf[t][1] /\ copy'[th].counter = counter[t]
      /\ \A u \in Threads \ {th} : copy'[u] = copy[u]
  BY <1>5 DEF Copies
<1>7. TypeOK'
  BY <1>2, <1>3, <1>6 DEF IInv, TypeOK
<1>8. CopiesMatch'
  <2> SUFFICES ASSUME NEW u \in Threads, pc'[u] = "copy second"
               PROVE  /\ copy'[u].first = buf'[NextTarget(u)'][1]
                      /\ copy'[u].counter = counter'[NextTarget(u)']
    BY DEF CopiesMatch
  <2>1. CASE u = th
    BY <1>2, <1>3, <1>6, <2>1
  <2>2. CASE u # th
    BY <1>2, <1>3, <1>6, <2>2 DEF IInv, CopiesMatch
  <2> QED
    BY <2>1, <2>2
<1> QED
  BY <1>3, <1>7, <1>8 DEF IInv

\* What a thread has sent or read when it has copied the second element.
LEMMA CopyComplete ==
  ASSUME IInv, NEW th \in Threads, CopySecond(th)
  PROVE  /\ seen' = [seen EXCEPT ![th] =
                       <<NextTarget(th), [counter |-> counter[NextTarget(th)],
                                          first   |-> buf[NextTarget(th)][1],
                                          second  |-> buf[NextTarget(th)][2]]>>]
         /\ NextTarget(th) \in Targets
<1> DEFINE t == NextTarget(th)
<1>1. pc[th] = "copy second" /\ pc[th] \in Inside
  BY DEF CopySecond, Inside
<1>2. t \in Targets
  BY <1>1, Alone
<1>3. copy[th].first = buf[t][1] /\ copy[th].counter = counter[t] /\ copy[th] \in Copies
  BY <1>1 DEF IInv, CopiesMatch, TypeOK
<1>4. [copy[th] EXCEPT !.second = buf[t][2]]
        = [counter |-> counter[t], first |-> buf[t][1], second |-> buf[t][2]]
  BY <1>3 DEF Copies
<1> QED
  BY <1>2, <1>4 DEF CopySecond

LEMMA CopySecondStep ==
  ASSUME IInv, NEW th \in Threads, CopySecond(th)
  PROVE  IInv'
<1> DEFINE t == NextTarget(th)
           view == [counter |-> counter[t], first |-> buf[t][1], second |-> buf[t][2]]
<1>1. pc[th] \in Inside /\ "release" \in Inside \ {"update"} /\ GoTo(th, "release", todo[th])
  BY DEF CopySecond, Inside
<1>2. UNCHANGED <<part, calls, lock, buf, counter, time, on, running, switching, written>>
  BY Kept DEF CopySecond, historyVars
<1>3. /\ pc' \in [Threads -> Places] /\ todo' \in [Threads -> SUBSET Targets]
      /\ pc'[th] = "release" /\ \A u \in Threads \ {th} : pc'[u] = pc[u]
      /\ \A u \in Threads : NextTarget(u)' = NextTarget(u)
      /\ Looping' /\ LocksMatch' /\ LocksExclude' /\ ElementsMatch'
  BY <1>1, <1>2, InsideMoves
<1>4. t \in Targets /\ seen' = [seen EXCEPT ![th] = <<t, view>>]
  BY CopyComplete
<1>5. /\ copy' \in [Threads -> Copies]
      /\ \A u \in Threads \ {th} : copy'[u] = copy[u]
  <2>1. NoCopy \in Copies
    BY MaxCallsAssumption DEF NoCopy, Copies, Zero, Values
  <2> QED
    BY <2>1 DEF CopySecond, IInv, TypeOK
<1>6. \A u \in Threads : seen'[u] = <<>> \/ seen'[u] \in Targets \X Copies
  <2>1. view \in Copies
    BY <1>4 DEF IInv, TypeOK, Copies
  <2>2. <<t, view>> \in Targets \X Copies
    BY <1>4, <2>1
  <2> HIDE DEF view, t
  <2>3. \A u \in Threads : seen'[u] = seen[u] \/ seen'[u] = <<t, view>>
    BY <1>4
  <2> QED
    BY <2>2, <2>3 DEF IInv, TypeOK
<1>7. TypeOK'
  BY <1>2, <1>3, <1>5, <1>6 DEF IInv, TypeOK
<1>8. CopiesMatch'
  <2> SUFFICES ASSUME NEW u \in Threads, pc'[u] = "copy second"
               PROVE  /\ copy'[u].first = buf'[NextTarget(u)'][1]
                      /\ copy'[u].counter = counter'[NextTarget(u)']
    BY DEF CopiesMatch
  <2> QED
    BY <1>2, <1>3, <1>5 DEF IInv, CopiesMatch
<1> QED
  BY <1>3, <1>7, <1>8 DEF IInv

\* The element a source writes, and where it goes on.
LEMMA Written ==
  ASSUME IInv, NEW s \in Sources, WriteElement(s)
  PROVE  LET t == NextTarget(s) IN
         /\ pc[s] = "write" /\ t \in todo[s] /\ todo[s] \subseteq Writes[s] /\ calls[s] > 0
         /\ Writes[s] \subseteq Targets /\ part[s] \in {1, 2}
         /\ buf' \in [Targets -> [{1, 2} -> Values]]
         /\ \A x \in Targets \ {t} : buf'[x] = buf[x]
         /\ \A e \in {1, 2}, u \in Sources :
              buf'[t][e][u] = IF e = part[s] /\ u = s THEN calls[s] ELSE buf[t][e][u]
         /\ pc' \in [Threads -> Places] /\ todo' \in [Threads -> SUBSET Targets]
         /\ \A u \in Threads \ {s} : pc'[u] = pc[u] /\ todo'[u] = todo[u]
         /\ part' \in [Sources -> {1, 2}] /\ written' \in Values
         /\ \A u \in Sources \ {s} : part'[u] = part[u] /\ written'[u] = written[u]
         /\ \/ /\ todo[s] # {t}
               /\ pc'[s] = "write" /\ todo'[s] = todo[s] \ {t}
               /\ part' = part /\ written' = written
            \/ /\ todo[s] = {t} /\ part[s] = 1
               /\ pc'[s] = "write" /\ todo'[s] = Writes[s]
               /\ part'[s] = 2 /\ written' = written
            \/ /\ todo[s] = {t} /\ part[s] = 2
               /\ pc'[s] = "unlock" /\ todo'[s] = Writes[s]
               /\ part'[s] = 1 /\ written' = [written EXCEPT ![s] = calls[s]]
<1> DEFINE t == NextTarget(s)
<1>1. /\ pc[s] = "write" /\ todo[s] \subseteq Writes[s] /\ calls[s] > 0 /\ todo[s] # {}
      /\ Writes[s] \subseteq Targets /\ s \in Threads
  BY SourcesAreThreads, WritesAssumption DEF IInv, Looping, WriteElement
<1>2. t \in todo[s] /\ t \in Targets /\ TypeOK
  BY <1>1, NextTargetIn DEF IInv
<1>3. part \in [Sources -> {1, 2}] /\ calls[s] \in 0..MaxCalls /\ written \in Values
  BY <1>1, <1>2 DEF TypeOK
<1>4. buf \in [Targets -> [{1, 2} -> Values]]
  BY <1>2 DEF TypeOK
<1>10. buf' = [buf EXCEPT ![t][part[s]][s] = calls[s]]
  BY DEF WriteElement
<1>5. \/ /\ todo[s] # {t} /\ GoTo(s, "write", todo[s] \ {t})
         /\ part' = part /\ written' = written
      \/ /\ todo[s] = {t} /\ GoTo(s, IF part[s] = 1 THEN "write" ELSE "unlock", Writes[s])
         /\ part' = [part EXCEPT ![s] = 3 - @]
         /\ written' = IF part[s] = 1 THEN written ELSE [written EXCEPT ![s] = calls[s]]
  <2>1. CASE todo[s] # {t}
    BY <2>1 DEF WriteElement
  <2>2. CASE todo[s] = {t}
    BY <2>2 DEF WriteElement
  <2> QED
    BY <2>1, <2>2
<1> HIDE DEF t
<1>6. /\ buf' \in [Targets -> [{1, 2} -> Values]]
      /\ \A x \in Targets \ {t} : buf'[x] = buf[x]
      /\ \A e \in {1, 2}, u \in Sources :
           buf'[t][e][u] = IF e = part[s] /\ u = s THEN calls[s] ELSE buf[t][e][u]
  <2> DEFINE value == [buf[t][part[s]] EXCEPT ![s] = calls[s]]
             both  == [buf[t] EXCEPT ![part[s]] = value]
  <2>1. part[s] \in {1, 2} /\ buf[t] \in [{1, 2} -> [Sources -> 0..MaxCalls]]
    BY <1>2, <1>3, <1>4 DEF Values
  <2>2. /\ value \in [Sources -> 0..MaxCalls]
        /\ \A u \in Sources : value[u] = IF u = s THEN calls[s] ELSE buf[t][part[s]][u]
    BY <1>3, <2>1
  <2>3. both \in [{1, 2} -> Values]
        /\ \A e \in {1, 2} : both[e] = IF e = part[s] THEN value ELSE buf[t][e]
    BY <2>1, <2>2 DEF Values
  <2>4. buf' = [buf EXCEPT ![t] = both]
    BY <1>10, Zenon
  <2> HIDE DEF value, both
  <2>5. /\ buf' \in [Targets -> [{1, 2} -> Values]] /\ buf'[t] = both
        /\ \A x \in Targets \ {t} : buf'[x] = buf[x]
    BY <1>2, <1>4, <2>3, <2>4
  <2> QED
    BY <2>2, <2>3, <2>5
<1>7. {"write", "unlock"} \subseteq Places /\ Writes[s] \in SUBSET Targets
      /\ todo[s] \ {t} \in SUBSET Targets
  BY <1>1 DEF Places
<1>8. CASE todo[s] # {t} /\ GoTo(s, "write", todo[s] \ {t}) /\ part' = part /\ written' = written
  <2>1. /\ pc' \in [Threads -> Places] /\ todo' \in [Threads -> SUBSET Targets]
        /\ pc'[s] = "write" /\ todo'[s] = todo[s] \ {t}
        /\ \A u \in Threads \ {s} : pc'[u] = pc[u] /\ todo'[u] = todo[u]
    BY <1>1, <1>2, <1>7, <1>8, Going
  <2> QED
    BY <1>1, <1>2, <1>3, <1>6, <1>8, <2>1 DEF t
<1>9. CASE /\ todo[s] = {t} /\ GoTo(s, IF part[s] = 1 THEN "write" ELSE "unlock", Writes[s])
           /\ part' = [part EXCEPT ![s] = 3 - @]
           /\ written' = IF part[s] = 1 THEN written ELSE [written EXCEPT ![s] = calls[s]]
  <2>1. CASE part[s] = 1
    <3>1. /\ pc' \in [Threads -> Places] /\ todo' \in [Threads -> SUBSET Targets]
          /\ pc'[s] = "write" /\ todo'[s] = Writes[s]
          /\ \A u \in Threads \ {s} : pc'[u] = pc[u] /\ todo'[u] = todo[u]
      <4>1. GoTo(s, "write", Writes[s])
        BY <1>9, <2>1
      <4> QED
        BY <1>1, <1>2, <1>7, <4>1, Going
    <3>2. /\ part' \in [Sources -> {1, 2}] /\ part'[s] = 2 /\ written' = written
          /\ \A u \in Sources \ {s} : part'[u] = part[u]
      BY <1>3, <1>9, <2>1
    <3> QED
      BY <1>1, <1>2, <1>3, <1>6, <1>9, <2>1, <3>1, <3>2 DEF t
  <2>2. CASE part[s] = 2
    <3>1. /\ pc' \in [Threads -> Places] /\ todo' \in [Threads -> SUBSET Targets]
          /\ pc'[s] = "unlock" /\ todo'[s] = Writes[s]
          /\ \A u \in Threads \ {s} : pc'[u] = pc[u] /\ todo'[u] = todo[u]
      <4>1. GoTo(s, "unlock", Writes[s])
        BY <1>9, <2>2
      <4> QED
        BY <1>1, <1>2, <1>7, <4>1, Going
    <3>2. /\ part' \in [Sources -> {1, 2}] /\ part'[s] = 1
          /\ \A u \in Sources \ {s} : part'[u] = part[u]
      BY <1>3, <1>9, <2>2
    <3>3. /\ written' = [written EXCEPT ![s] = calls[s]] /\ written' \in Values
          /\ \A u \in Sources \ {s} : written'[u] = written[u]
      BY <1>3, <1>9, <2>2 DEF Values
    <3> QED
      BY <1>1, <1>2, <1>3, <1>6, <1>9, <2>2, <3>1, <3>2, <3>3 DEF t
  <2> QED
    BY <1>3, <2>1, <2>2
<1> QED
  BY <1>5, <1>8, <1>9

LEMMA WriteElementStep ==
  ASSUME IInv, NEW s \in Sources, WriteElement(s)
  PROVE  IInv'
<1> DEFINE t == NextTarget(s)
<1>1. UNCHANGED <<calls, copy, lock, counter, time, on, running, switching, seen>>
  BY Kept DEF WriteElement
<1>2. /\ pc[s] = "write" /\ t \in todo[s] /\ todo[s] \subseteq Writes[s] /\ calls[s] > 0
      /\ Writes[s] \subseteq Targets /\ part[s] \in {1, 2} /\ s \in Threads /\ t \in Targets
  BY Written, SourcesAreThreads
<1>3. /\ buf' \in [Targets -> [{1, 2} -> Values]]
      /\ \A x \in Targets \ {t} : buf'[x] = buf[x]
      /\ \A e \in {1, 2}, u \in Sources :
           buf'[t][e][u] = IF e = part[s] /\ u = s THEN calls[s] ELSE buf[t][e][u]
  BY Written
<1>4. /\ pc' \in [Threads -> Places] /\ todo' \in [Threads -> SUBSET Targets]
      /\ \A u \in Threads \ {s} : pc'[u] = pc[u] /\ todo'[u] = todo[u]
      /\ part' \in [Sources -> {1, 2}] /\ written' \in Values
      /\ \A u \in Sources \ {s} : part'[u] = part[u] /\ written'[u] = written[u]
  BY Written
<1>5. \/ /\ todo[s] # {t} /\ pc'[s] = "write" /\ todo'[s] = todo[s] \ {t}
         /\ part'[s] = part[s] /\ written'[s] = written[s]
      \/ /\ todo[s] = {t} /\ part[s] = 1 /\ pc'[s] = "write" /\ todo'[s] = Writes[s]
         /\ part'[s] = 2 /\ written'[s] = written[s]
      \/ /\ todo[s] = {t} /\ part[s] = 2 /\ pc'[s] = "unlock" /\ todo'[s] = Writes[s]
         /\ part'[s] = 1 /\ written'[s] = calls[s]
  BY Written DEF IInv, TypeOK, Values
<1> HIDE DEF t
<1>6. TypeOK'
  BY <1>1, <1>3, <1>4 DEF IInv, TypeOK
<1>7. Looping'
  BY <1>1, <1>2, <1>4, <1>5, SourcesAreThreads DEF IInv, Looping
<1>8. LocksMatch'
  <2>1. \A x \in Targets : /\ lock[x][s] = "shared" <=> x \in Writes[s]
                           /\ lock[x][s] \notin {"claimed", "exclusive"}
    BY <1>2 DEF IInv, LocksMatch, Shares, Inside
  <2>2. \A x \in Targets : Shares(s, x)' <=> x \in Writes[s]
    BY <1>5 DEF Shares
  <2>3. pc'[s] \notin Inside \cup {"enter"}
    BY <1>5 DEF Inside
  <2>4. \A x \in Targets :
          /\ lock'[x][s] = "shared" <=> Shares(s, x)'
          /\ lock'[x][s] = "claimed" <=> pc'[s] = "enter" /\ NextTarget(s)' = x
          /\ lock'[x][s] = "exclusive" <=> pc'[s] \in Inside /\ NextTarget(s)' = x
    BY <1>1, <2>1, <2>2, <2>3
  <2>5. \A x \in Targets, u \in Threads \ {s} : lock'[x][u] = lock[x][u]
    BY <1>1
  <2> QED
    BY <1>2, <1>4, <2>4, <2>5, OthersMatch DEF IInv
<1>9. LocksExclude'
  BY <1>1 DEF IInv, LocksExclude
<1>10. ElementsMatch'
  <2> SUFFICES ASSUME NEW u \in Sources, NEW x \in Targets
               PROVE  ElementMatches(u, x)'
    BY DEF ElementsMatch
  <2>1. ElementMatches(u, x)
    BY DEF IInv, ElementsMatch
  <2>2. CASE u # s
    <3>1. buf'[x][1][u] = buf[x][1][u] /\ buf'[x][2][u] = buf[x][2][u]
      BY <1>3, <2>2
    <3>2. pc'[u] = pc[u] /\ todo'[u] = todo[u] /\ part'[u] = part[u] /\ written'[u] = written[u]
      BY <1>4, <2>2, SourcesAreThreads
    <3> QED
      BY <1>1, <2>1, <3>1, <3>2 DEF ElementMatches
  <2>3. CASE u = s /\ x \notin Writes[s]
    <3>1. x # t
      BY <1>2, <2>3
    <3> QED
      BY <1>3, <2>1, <2>3, <3>1 DEF ElementMatches
  <2>4. CASE u = s /\ x \in Writes[s]
    <3>1. \A e \in {1, 2} : buf'[x][e][s] = IF e = part[s] /\ x = t THEN calls[s] ELSE buf[x][e][s]
      BY <1>3
    <3>2. /\ (x \notin todo[s] \/ part[s] = 2) => buf[x][1][s] = calls[s]
          /\ x \notin todo[s] /\ part[s] = 2 => buf[x][2][s] = calls[s]
      BY <1>2, <2>1, <2>4 DEF ElementMatches
    <3>3. /\ pc'[s] # "write" => buf'[x][1][s] = written'[s] /\ buf'[x][2][s] = written'[s]
          /\ pc'[s] = "write" /\ (x \notin todo'[s] \/ part'[s] = 2) => buf'[x][1][s] = calls[s]
          /\ pc'[s] = "write" /\ x \notin todo'[s] /\ part'[s] = 2 => buf'[x][2][s] = calls[s]
      BY <1>2, <1>5, <2>4, <3>1, <3>2
    <3> QED
      BY <1>1, <2>4, <3>3 DEF ElementMatches
  <2> QED
    BY <2>2, <2>3, <2>4
<1>11. CopiesMatch'
  <2> SUFFICES ASSUME NEW u \in Threads, pc'[u] = "copy second"
               PROVE  /\ copy'[u].first = buf'[NextTarget(u)'][1]
                      /\ copy'[u].counter = counter'[NextTarget(u)']
    BY DEF CopiesMatch
  <2>1. u # s /\ pc[u] = "copy second" /\ pc[u] \in Inside
    BY <1>4, <1>5 DEF Inside
  <2>2. NextTarget(u)' = NextTarget(u)
    BY <1>4, <2>1 DEF NextTarget
  <2>3. Shares(s, t)
    BY <1>2 DEF Shares
  <2>4. NextTarget(u) # t /\ NextTarget(u) \in Targets
    BY <1>2, <2>1, <2>3, Alone
  <2>5. buf'[NextTarget(u)] = buf[NextTarget(u)]
    BY <1>3, <2>4
  <2>6. /\ copy[u].first = buf[NextTarget(u)][1]
        /\ copy[u].counter = counter[NextTarget(u)]
    BY <2>1 DEF IInv, CopiesMatch
  <2> QED
    BY <1>1, <2>2, <2>5, <2>6
<1> QED
  BY <1>6, <1>7, <1>8, <1>9, <1>10, <1>11 DEF IInv

-----------------------------------------------------------------------------
(* The control thread, and the whole.                                      *)

\* The threads and what they hold and see do not change.
LEMMA ThreadsStay ==
  ASSUME IInv, UNCHANGED <<threadVars, lock>>
  PROVE  Looping' /\ LocksMatch' /\ LocksExclude'
<1>1. UNCHANGED <<pc, todo, part, calls, copy, lock>>
  BY DEF threadVars
<1>2. Looping'
  BY <1>1 DEF IInv, Looping
<1>3. \A t \in Targets, th \in Threads :
        (Shares(th, t)' <=> Shares(th, t)) /\ NextTarget(th)' = NextTarget(th)
  BY <1>1 DEF Shares, NextTarget
<1>4. LocksMatch'
  BY <1>1, <1>3 DEF IInv, LocksMatch
<1>5. LocksExclude'
  BY <1>1 DEF IInv, LocksExclude
<1> QED
  BY <1>2, <1>4, <1>5

LEMMA ControlStep ==
  ASSUME IInv, UNCHANGED <<threadVars, lock, dataVars, historyVars>>,
         on' \in [Transmitters -> BOOLEAN], running' \in BOOLEAN,
         switching' \in SUBSET Transmitters
  PROVE  IInv'
<1>1. /\ UNCHANGED <<pc, todo, part, calls, copy, lock, buf, counter, time, written, seen>>
      /\ UNCHANGED <<threadVars, lock>>
  BY Kept DEF threadVars
<1>2. TypeOK'
  BY <1>1 DEF IInv, TypeOK
<1>3. \A th \in Threads : NextTarget(th)' = NextTarget(th)
  BY <1>1 DEF NextTarget
<1>4. ElementsMatch' /\ CopiesMatch'
  BY <1>1, <1>3 DEF IInv, ElementsMatch, ElementMatches, CopiesMatch
<1> QED
  BY <1>1, <1>2, <1>4, ThreadsStay DEF IInv

LEMMA ResetStep ==
  ASSUME IInv, Reset
  PROVE  IInv'
<1>1. \A th \in Threads : pc[th] = "idle"
  BY DEF Reset
<1>2. /\ buf' = [t \in Targets |-> [e \in {1, 2} |-> Zero]]
      /\ counter' = [t \in Targets |-> 0] /\ written' = Zero
  BY DEF Reset
<1>3. /\ UNCHANGED <<pc, todo, part, calls, copy, lock, time, on, running, switching, seen>>
      /\ UNCHANGED <<threadVars, lock>>
  BY Kept DEF Reset, threadVars
<1>4. Zero \in Values
  BY MaxCallsAssumption DEF Zero, Values
<1>5. TypeOK'
  BY <1>2, <1>3, <1>4 DEF IInv, TypeOK
<1>6. ElementsMatch'
  BY <1>1, <1>2, <1>3, SourcesAreThreads DEF ElementsMatch, ElementMatches, Zero
<1>7. CopiesMatch'
  BY <1>1, <1>3 DEF CopiesMatch
<1> QED
  BY <1>3, <1>5, <1>6, <1>7, ThreadsStay DEF IInv

LEMMA StepHolds == IInv /\ [Next]_vars => IInv'
<1> SUFFICES ASSUME IInv, [Next]_vars PROVE IInv'
  OBVIOUS
<1>1. ASSUME NEW s \in Sources, Receive(s) PROVE IInv'
  BY <1>1, ReceiveStep
<1>2. ASSUME OnTimer PROVE IInv'
  BY <1>2, OnTimerStep
<1>3. ASSUME NEW r \in Readers, NEW t \in Targets, GetCurrentData(r, t) PROVE IInv'
  BY <1>3, GetCurrentDataStep
<1>4. ASSUME NEW th \in Threads, Run(th) PROVE IInv'
  <2>1. CASE th \in Sources /\ (ShareTarget(th) \/ WriteElement(th) \/ UnlockTarget(th) \/ FireSignal(th))
    BY <2>1, ShareTargetStep, WriteElementStep, UnlockTargetStep, FireSignalStep
  <2>2. CASE ClaimTarget(th) \/ EnterTarget(th) \/ ReleaseTarget(th)
    BY <2>2, ClaimTargetStep, EnterTargetStep, ReleaseTargetStep
  <2>3. CASE UpdateFunctions(th) \/ CopyFirst(th) \/ CopySecond(th)
    BY <2>3, UpdateFunctionsStep, CopyFirstStep, CopySecondStep
  <2> QED
    BY <1>4, <2>1, <2>2, <2>3 DEF Run
<1>5. ASSUME Switch PROVE IInv'
  BY <1>5, ControlStep DEF Switch, IInv, TypeOK
<1>6. ASSUME NEW n \in Transmitters, SwitchTrigger(n) PROVE IInv'
  <2>1. UNCHANGED <<threadVars, lock, dataVars, historyVars>> /\ running' = running
    BY <1>6 DEF SwitchTrigger
  <2>2. on' \in [Transmitters -> BOOLEAN] /\ switching' \in SUBSET Transmitters /\ running \in BOOLEAN
    BY <1>6 DEF SwitchTrigger, IInv, TypeOK
  <2> QED
    BY <2>1, <2>2, ControlStep
<1>7. ASSUME Reset PROVE IInv'
  BY <1>7, ResetStep
<1>8. ASSUME UNCHANGED vars PROVE IInv'
  <2>1. UNCHANGED <<threadVars, lock, dataVars, historyVars>> /\ UNCHANGED controlVars
    BY <1>8 DEF vars
  <2>2. UNCHANGED <<on, running, switching>>
    BY <2>1 DEF controlVars
  <2> QED
    BY <2>1, <2>2, ControlStep DEF IInv, TypeOK
<1> QED
  BY <1>1, <1>2, <1>3, <1>4, <1>5, <1>6, <1>7, <1>8 DEF Next

LEMMA AlwaysHolds == Spec => []IInv
<1>1. Init => IInv
  BY InitHolds
<1>2. IInv /\ [Next]_vars => IInv'
  BY StepHolds
<1> QED
  BY <1>1, <1>2, PTL DEF Spec, Safe

\* Every variable keeps its type: counters grow, samples stay in their range.
THEOREM Typing == Spec => []TypeOK
<1>1. IInv => TypeOK
  BY DEF IInv
<1> QED
  BY <1>1, AlwaysHolds, PTL

-----------------------------------------------------------------------------
(* The buffer under the lock.                                              *)

\* While a thread holds a target exclusively no other thread changes its buffer,
\* as long as no target has a simulation_time element: getCurrentData sets that
\* one before it takes the lock (MappingEngine::getCurrentData, target.cpp).
THEOREM BufferStableHolds ==
  ASSUME TimeTargets = {}
  PROVE  Spec => BufferStable
<1> DEFINE Stable(t, th) ==
      (lock[t][th] = "exclusive" /\ <<buf[t], counter[t], time[t]>>'
                                      # <<buf[t], counter[t], time[t]>>)
        => pc'[th] # pc[th]
<1>1. ASSUME IInv, [Next]_vars, NEW t \in Targets, NEW th \in Threads PROVE Stable(t, th)
  <2> SUFFICES ASSUME lock[t][th] = "exclusive", pc'[th] = pc[th]
               PROVE  buf'[t] = buf[t] /\ counter'[t] = counter[t] /\ time'[t] = time[t]
    OBVIOUS
  <2> USE <1>1
  <2>1. pc[th] \in Inside /\ NextTarget(th) = t
    BY DEF IInv, LocksMatch
  <2>2. CASE UNCHANGED dataVars
    BY <2>2, Kept
  <2>3. ASSUME NEW s \in Sources, WriteElement(s)
        PROVE  buf'[t] = buf[t] /\ counter'[t] = counter[t] /\ time'[t] = time[t]
    <3>1. pc[s] = "write" /\ NextTarget(s) \in todo[s] /\ todo[s] \subseteq Writes[s] /\ s \in Threads
      BY <2>3, Written, SourcesAreThreads
    <3>2. Shares(s, NextTarget(s))
      BY <3>1 DEF Shares
    <3>3. NextTarget(s) # t
      BY <2>1, <3>1, <3>2, Alone
    <3>4. buf'[t] = buf[t]
      BY <2>3, <3>3, Written
    <3> QED
      BY <2>3, <3>4 DEF WriteElement
  <2>4. ASSUME NEW u \in Threads, UpdateFunctions(u)
        PROVE  buf'[t] = buf[t] /\ counter'[t] = counter[t] /\ time'[t] = time[t]
    <3>1. pc[u] \in Inside /\ pc[u] = "update" /\ GoTo(u, "copy first", todo[u])
      BY <2>4 DEF UpdateFunctions, Inside
    <3>2. u # th
      <4>1. todo[u] \in SUBSET Targets /\ "copy first" \in Places /\ TypeOK
        BY DEF IInv, TypeOK, Places
      <4>2. pc'[u] = "copy first"
        BY <3>1, <4>1, Going
      <4> QED
        BY <3>1, <4>2
    <3>3. NextTarget(u) # t /\ NextTarget(u) \in Targets
      BY <2>1, <3>1, <3>2, Alone
    <3>4. counter \in [Targets -> Nat] /\ time \in [Targets -> Nat]
      BY DEF IInv, TypeOK
    <3>5. buf' = buf /\ counter'[t] = counter[t] /\ time'[t] = time[t]
      BY <2>4, <3>3, <3>4 DEF UpdateFunctions
    <3> QED
      BY <3>5
  <2>5. ASSUME NEW r \in Readers, NEW x \in Targets, GetCurrentData(r, x)
        PROVE  buf'[t] = buf[t] /\ counter'[t] = counter[t] /\ time'[t] = time[t]
    <3>1. time' = [time EXCEPT ![x] = @ + 0] /\ UNCHANGED <<buf, counter>>
      BY <2>5 DEF GetCurrentData
    <3>2. time \in [Targets -> Nat]
      BY DEF IInv, TypeOK
    <3> QED
      BY <3>1, <3>2
  <2>6. ASSUME Reset PROVE FALSE
    BY <2>1, <2>6 DEF Reset, Inside
  <2>7. CASE UNCHANGED vars
    BY <2>2, <2>7 DEF vars
  <2>8. CASE Next
    <3>1. ASSUME NEW u \in Threads, Run(u)
          PROVE  buf'[t] = buf[t] /\ counter'[t] = counter[t] /\ time'[t] = time[t]
      <4>1. ASSUME ShareTarget(u) \/ UnlockTarget(u) PROVE UNCHANGED dataVars
        BY <4>1 DEF ShareTarget, UnlockTarget
      <4>2. ASSUME FireSignal(u) PROVE UNCHANGED dataVars
        BY <4>2 DEF FireSignal, Transmit
      <4>3. ASSUME ClaimTarget(u) \/ EnterTarget(u) \/ ReleaseTarget(u) PROVE UNCHANGED dataVars
        BY <4>3 DEF ClaimTarget, EnterTarget, ReleaseTarget
      <4>4. ASSUME CopyFirst(u) \/ CopySecond(u) PROVE UNCHANGED dataVars
        BY <4>4 DEF CopyFirst, CopySecond
      <4> QED
        BY <2>2, <2>3, <2>4, <3>1, <4>1, <4>2, <4>3, <4>4 DEF Run
    <3>2. ASSUME NEW s \in Sources, Receive(s) PROVE UNCHANGED dataVars
      BY <3>2 DEF Receive
    <3>3. ASSUME OnTimer PROVE UNCHANGED dataVars
      BY <3>3 DEF OnTimer, Transmit
    <3>4. ASSUME Switch \/ \E n \in Transmitters : SwitchTrigger(n) PROVE UNCHANGED dataVars
      BY <3>4 DEF Switch, SwitchTrigger
    <3> QED
      BY <2>2, <2>3, <2>4, <2>5, <2>6, <2>8, <3>1, <3>2, <3>3, <3>4 DEF Next
  <2> QED
    BY <2>7, <2>8
<1>2. IInv /\ [Next]_vars => [\A t \in Targets, th \in Threads : Stable(t, th)]_vars
  BY <1>1
<1> QED
  BY <1>2, AlwaysHolds, PTL DEF Spec, Safe, BufferStable

-----------------------------------------------------------------------------
(* What the engine promises: TargetSnapshot.                               *)

\* The sample of each source a target shows; the buffers of it sent; a trigger
\* on its way between counting and sending.
Shown == [t \in Targets |-> [s \in Sources |-> IF t \in Writes[s] THEN written[s] ELSE 0]]

Copying(t) == {th \in Threads \ Readers :
                 pc[th] \in {"copy first", "copy second"} /\ NextTarget(th) = t}

Sent == [t \in Targets |-> counter[t] - Cardinality(Copying(t))]

\* A step between the two is none of the promise's.
LEMMA Unseen ==
  ASSUME UNCHANGED <<written, counter, seen>>,
         \A u \in Threads \ Readers, t \in Targets :
           /\ (pc'[u] \in {"copy first", "copy second"} /\ NextTarget(u)' = t)
           <=> (pc[u] \in {"copy first", "copy second"} /\ NextTarget(u) = t)
  PROVE  UNCHANGED <<Shown, Sent, seen>>
<1>1. \A t \in Targets : Copying(t)' = Copying(t)
  BY DEF Copying
<1>2. Sent' = Sent
  BY <1>1 DEF Sent
<1>3. Shown' = Shown
  BY DEF Shown
<1> QED
  BY <1>2, <1>3

\* Whoever is about to copy the second element finds whole samples in both.
LEMMA SamplesWhole ==
  ASSUME IInv, NEW th \in Threads, pc[th] \in Inside, NEW e \in {1, 2}
  PROVE  buf[NextTarget(th)][e] = [s \in Sources |-> Shown[NextTarget(th)][s]]
<1> DEFINE t == NextTarget(th)
<1>1. t \in Targets /\ \A u \in Threads : ~Shares(u, t)
  BY Alone
<1>2. buf[t][e] \in Values
  BY <1>1 DEF IInv, TypeOK
<1> HIDE DEF t
<1>3. ASSUME NEW s \in Sources PROVE buf[t][e][s] = Shown[t][s]
  <2>1. ElementMatches(s, t)
    BY <1>1 DEF IInv, ElementsMatch
  <2>2. Shown[t][s] = IF t \in Writes[s] THEN written[s] ELSE 0
    BY <1>1 DEF Shown
  <2>3. CASE t \in Writes[s]
    <3>1. pc[s] # "write"
      BY <1>1, <2>3, SourcesAreThreads DEF Shares
    <3> QED
      BY <2>1, <2>2, <2>3, <3>1 DEF ElementMatches
  <2>4. CASE t \notin Writes[s]
    BY <2>1, <2>2, <2>4 DEF ElementMatches
  <2> QED
    BY <2>3, <2>4
<1>4. buf[t][e] = [s \in Sources |-> buf[t][e][s]]
  BY <1>2 DEF Values
<1>5. [s \in Sources |-> buf[t][e][s]] = [s \in Sources |-> Shown[t][s]]
  BY <1>3
<1> QED
  BY <1>4, <1>5 DEF t

LEMMA NoneCopying ==
  ASSUME IInv, NEW th \in Threads, pc[th] \in Inside,
         th \in Readers \/ pc[th] \notin {"copy first", "copy second"}
  PROVE  Copying(NextTarget(th)) = {}
<1>1. ASSUME NEW u \in Threads \ Readers, pc[u] \in {"copy first", "copy second"},
             NextTarget(u) = NextTarget(th)
      PROVE  FALSE
  <2>1. u = th
    BY <1>1, Alone DEF Inside
  <2> QED
    BY <1>1, <2>1
<1> QED
  BY <1>1 DEF Copying

LEMMA OneCopying ==
  ASSUME IInv, NEW th \in Threads \ Readers, pc[th] \in {"copy first", "copy second"}
  PROVE  Copying(NextTarget(th)) = {th}
<1>1. ASSUME NEW u \in Copying(NextTarget(th)) PROVE u = th
  BY <1>1, Alone DEF Copying, Inside
<1>2. th \in Copying(NextTarget(th))
  BY DEF Copying
<1> QED
  BY <1>1, <1>2

LEMMA UpdateUnseen ==
  ASSUME IInv, NEW th \in Threads, NEW t \in Targets, t = NextTarget(th), UpdateFunctions(th)
  PROVE  UNCHANGED <<Shown, Sent, seen>>
<1>1. pc[th] \in Inside /\ pc[th] = "update" /\ "copy first" \in Inside \ {"update"}
      /\ GoTo(th, "copy first", todo[th])
  BY DEF UpdateFunctions, Inside
<1>2. UNCHANGED <<part, calls, lock, buf, written, seen>>
  BY Kept DEF UpdateFunctions
<1>3. /\ pc'[th] = "copy first" /\ \A u \in Threads \ {th} : pc'[u] = pc[u]
      /\ \A u \in Threads : NextTarget(u)' = NextTarget(u)
  BY <1>1, <1>2, InsideMoves
<1>4. t \in Targets /\ th \in Threads \ Readers
  BY <1>1, Alone DEF IInv, Looping
<1>5. counter' = [counter EXCEPT ![t] = @ + 1] /\ counter \in [Targets -> Nat]
  BY DEF UpdateFunctions, IInv, TypeOK
<1>6. Copying(t) = {}
  BY <1>1, NoneCopying
<1>7. Copying(t)' = {th}
  <2>1. IInv' /\ pc'[th] = "copy first" /\ NextTarget(th)' = t
    BY <1>3, UpdateFunctionsStep
  <2>2. ASSUME NEW u \in Threads, pc'[u] \in {"copy first", "copy second"}, NextTarget(u)' = t
        PROVE  u = th
    <3>1. CASE u # th
      <4>1. pc[u] \in Inside /\ NextTarget(u) = t
        BY <1>3, <2>2, <3>1 DEF Inside
      <4> QED
        BY <1>1, <4>1, Alone
    <3> QED
      BY <3>1
  <2> QED
    BY <1>4, <2>1, <2>2 DEF Copying
<1>8. \A x \in Targets \ {t} : Copying(x)' = Copying(x)
  BY <1>3 DEF Copying
<1>9. \A x \in Targets : counter'[x] - Cardinality(Copying(x)') = counter[x] - Cardinality(Copying(x))
  <2>1. Cardinality({}) = 0 /\ Cardinality({th}) = 1
    BY FS_EmptySet, FS_Singleton
  <2>2. counter'[t] - Cardinality(Copying(t)') = counter[t] - Cardinality(Copying(t))
    BY <1>4, <1>5, <1>6, <1>7, <2>1
  <2>3. \A x \in Targets \ {t} : counter'[x] = counter[x]
    BY <1>5
  <2>4. ASSUME NEW x \in Targets \ {t}
        PROVE  counter'[x] - Cardinality(Copying(x)') = counter[x] - Cardinality(Copying(x))
    <3>1. Copying(x)' = Copying(x) /\ counter'[x] = counter[x]
      BY <1>8, <2>3
    <3> QED
      BY <3>1
  <2> SUFFICES ASSUME NEW x \in Targets
               PROVE  counter'[x] - Cardinality(Copying(x)') = counter[x] - Cardinality(Copying(x))
    OBVIOUS
  <2>5. CASE x = t
    BY <2>2, <2>5
  <2>6. CASE x # t
    BY <2>4, <2>6
  <2> QED
    BY <2>5, <2>6
<1>10. Sent' = Sent
  BY <1>9 DEF Sent
<1>11. Shown' = Shown
  BY <1>2 DEF Shown
<1> QED
  BY <1>2, <1>10, <1>11

LEMMA CopySecondMaps ==
  ASSUME IInv, NEW th \in Threads, NEW t \in Targets, t = NextTarget(th), CopySecond(th)
  PROVE  Snapshot!Send(th, t) \/ Snapshot!Read(th, t)
<1> DEFINE View(n) == [counter |-> n, first  |-> [s \in Sources |-> Shown[t][s]],
                                      second |-> [s \in Sources |-> Shown[t][s]]]
<1>1. pc[th] \in Inside /\ pc[th] = "copy second" /\ "release" \in Inside \ {"update"}
      /\ GoTo(th, "release", todo[th])
  BY DEF CopySecond, Inside
<1>2. UNCHANGED <<part, calls, lock, buf, counter, written>>
  BY Kept DEF CopySecond
<1>3. /\ pc'[th] = "release" /\ \A u \in Threads \ {th} : pc'[u] = pc[u]
      /\ \A u \in Threads : NextTarget(u)' = NextTarget(u)
  BY <1>1, <1>2, InsideMoves
<1>4. t \in Targets /\ seen' = [seen EXCEPT ![th] = <<t, View(counter[t])>>]
  <2>1. /\ seen' = [seen EXCEPT ![th] = <<t, [counter |-> counter[t], first |-> buf[t][1],
                                              second |-> buf[t][2]]>>]
        /\ t \in Targets
    BY CopyComplete
  <2>2. buf[t][1] = [s \in Sources |-> Shown[t][s]] /\ buf[t][2] = [s \in Sources |-> Shown[t][s]]
    BY <1>1, SamplesWhole
  <2> QED
    BY <2>1, <2>2
<1>5. counter \in [Targets -> Nat]
  BY DEF IInv, TypeOK
<1>6. Shown' = Shown
  BY <1>2 DEF Shown
<1>7. Sent[t] = counter[t] - Cardinality(Copying(t))
  BY <1>4 DEF Sent
<1>8. Cardinality({}) = 0 /\ Cardinality({th}) = 1
  BY FS_EmptySet, FS_Singleton
<1>9. CASE th \in Readers
  <2>1. Copying(t) = {}
    BY <1>1, <1>9, NoneCopying
  <2>2. \A x \in Targets : Copying(x)' = Copying(x)
    BY <1>3, <1>9 DEF Copying
  <2>3. Sent' = Sent
    BY <1>2, <2>2 DEF Sent
  <2>4. Sent[t] = counter[t]
    BY <1>4, <1>5, <1>7, <1>8, <2>1
  <2>5. seen' = [seen EXCEPT ![th] = <<t, View(Sent[t])>>] /\ UNCHANGED <<Shown, Sent>>
    BY <1>4, <1>6, <2>3, <2>4
  <2>6. Snapshot!Read(th, t)
    BY <2>5 DEF Snapshot!Read, Snapshot!View, Shown, Sent, Copying
  <2> QED
    BY <2>6
<1>10. CASE th \notin Readers
  <2>1. Copying(t) = {th}
    BY <1>1, <1>10, OneCopying
  <2>2. Copying(t)' = {}
    <3>1. ASSUME NEW u \in Threads, pc'[u] \in {"copy first", "copy second"}, NextTarget(u)' = t
          PROVE  FALSE
      <4>1. u # th
        BY <1>3, <3>1
      <4>2. pc[u] \in Inside /\ NextTarget(u) = NextTarget(th)
        BY <1>3, <3>1, <4>1 DEF Inside
      <4> QED
        BY <1>1, <4>1, <4>2, Alone
    <3> QED
      BY <3>1 DEF Copying
  <2>3. \A x \in Targets \ {t} : Copying(x)' = Copying(x)
    <3> SUFFICES ASSUME NEW x \in Targets \ {t}, NEW u \in Threads
                 PROVE  (pc'[u] \in {"copy first", "copy second"} /\ NextTarget(u)' = x)
                          <=> (pc[u] \in {"copy first", "copy second"} /\ NextTarget(u) = x)
      BY DEF Copying
    <3>1. CASE u = th
      <4>1. NextTarget(u) # x
        BY <3>1
      <4>2. pc'[u] = "release"
        BY <1>3, <3>1
      <4> QED
        BY <4>1, <4>2
    <3>2. CASE u # th
      BY <1>3, <3>2
    <3> QED
      BY <3>1, <3>2
  <2>4. Sent' = [Sent EXCEPT ![t] = @ + 1] /\ Sent[t] + 1 = counter[t]
    <3>1. Sent[t] + 1 = counter[t]
      BY <1>4, <1>5, <1>7, <1>8, <2>1
    <3>2. Sent'[t] = counter[t]
      BY <1>2, <1>4, <1>5, <1>8, <2>2 DEF Sent
    <3>3. \A x \in Targets \ {t} : Sent'[x] = Sent[x]
      BY <1>2, <2>3 DEF Sent
    <3>4. Sent = [x \in Targets |-> Sent[x]] /\ Sent' = [x \in Targets |-> Sent'[x]]
      BY DEF Sent
    <3>5. Sent' = [x \in Targets |-> IF x = t THEN Sent[t] + 1 ELSE Sent[x]]
      <4>1. \A x \in Targets : Sent'[x] = IF x = t THEN Sent[t] + 1 ELSE Sent[x]
        BY <3>1, <3>2, <3>3
      <4>2. [x \in Targets |-> Sent'[x]] = [x \in Targets |-> IF x = t THEN Sent[t] + 1 ELSE Sent[x]]
        BY <4>1
      <4> QED
        BY <3>4, <4>2
    <3>6. [Sent EXCEPT ![t] = @ + 1] = [x \in Targets |-> IF x = t THEN Sent[t] + 1 ELSE Sent[x]]
      BY <3>4
    <3> QED
      BY <3>1, <3>5, <3>6
  <2>5. /\ seen' = [seen EXCEPT ![th] = <<t, View(Sent[t] + 1)>>]
        /\ Sent' = [Sent EXCEPT ![t] = @ + 1] /\ UNCHANGED Shown
    BY <1>4, <1>6, <2>4
  <2>6. Snapshot!Send(th, t)
    BY <2>5 DEF Snapshot!Send, Snapshot!View, Shown, Sent, Copying
  <2> QED
    BY <2>6
<1> QED
  BY <1>9, <1>10

\* Once its last element is in the last target, a sample appears in all of them.
LEMMA WriteElementMaps ==
  ASSUME IInv, NEW s \in Sources, WriteElement(s)
  PROVE  (\E n \in 1..MaxCalls : Snapshot!Update(s, n)) \/ UNCHANGED <<Shown, Sent, seen>>
<1>1. /\ UNCHANGED <<counter, seen>> /\ pc[s] = "write" /\ pc'[s] \in {"write", "unlock"}
      /\ \A u \in Threads \ {s} : pc'[u] = pc[u] /\ todo'[u] = todo[u]
      /\ calls[s] > 0
      /\ written' = written \/ written' = [written EXCEPT ![s] = calls[s]]
  BY Written, Kept DEF WriteElement
<1>2. UNCHANGED <<Sent, seen>>
  <2>1. \A u \in Threads, t \in Targets :
          (pc'[u] \in {"copy first", "copy second"} /\ NextTarget(u)' = t)
            <=> (pc[u] \in {"copy first", "copy second"} /\ NextTarget(u) = t)
    BY <1>1 DEF NextTarget
  <2>2. \A t \in Targets : Copying(t)' = Copying(t)
    BY <2>1 DEF Copying
  <2> QED
    BY <1>1, <2>2 DEF Sent
<1>3. CASE written' = written
  BY <1>2, <1>3 DEF Shown
<1>4. CASE written' = [written EXCEPT ![s] = calls[s]]
  <2>1. written \in [Sources -> 0..MaxCalls] /\ calls[s] \in 1..MaxCalls
    <3>1. written \in Values /\ calls \in [Threads -> 0..MaxCalls] /\ s \in Threads
      BY SourcesAreThreads DEF IInv, TypeOK
    <3>2. calls[s] \in 0..MaxCalls /\ calls[s] > 0
      BY <1>1, <3>1
    <3> QED
      BY <3>1, <3>2, MaxCallsAssumption DEF Values
  <2>2. ASSUME NEW t \in Targets
        PROVE  Shown'[t] = IF t \in Writes[s] THEN [Shown[t] EXCEPT ![s] = calls[s]] ELSE Shown[t]
    <3>1. Shown[t] = [u \in Sources |-> IF t \in Writes[u] THEN written[u] ELSE 0]
      BY DEF Shown
    <3>2. Shown'[t] = [u \in Sources |-> IF t \in Writes[u] THEN written'[u] ELSE 0]
      BY DEF Shown
    <3>3. \A u \in Sources : written'[u] = IF u = s THEN calls[s] ELSE written[u]
      BY <1>4, <2>1
    <3>4. CASE t \in Writes[s]
      BY <3>1, <3>2, <3>3, <3>4
    <3>5. CASE t \notin Writes[s]
      BY <3>1, <3>2, <3>3, <3>5
    <3> QED
      BY <3>4, <3>5
  <2>3. Shown' = [t \in Targets |-> IF t \in Writes[s] THEN [Shown[t] EXCEPT ![s] = calls[s]]
                                                       ELSE Shown[t]]
    <3>1. Shown' = [t \in Targets |-> Shown'[t]]
      BY DEF Shown
    <3> HIDE DEF Shown
    <3> QED
      BY <2>2, <3>1
  <2> PICK n \in 1..MaxCalls : n = calls[s]
    BY <2>1
  <2>4. Snapshot!Update(s, n)
    BY <1>2, <2>3 DEF Snapshot!Update, Shown, Sent, Copying
  <2>5. \E m \in 1..MaxCalls : Snapshot!Update(s, m)
    BY <2>4
  <2> QED
    BY <2>5, Zenon
<1> QED
  BY <1>1, <1>3, <1>4

LEMMA ResetMaps ==
  ASSUME IInv, Reset
  PROVE  Snapshot!Reset
<1>1. /\ \A th \in Threads : pc[th] = "idle" /\ pc'[th] = "idle"
      /\ counter' = [t \in Targets |-> 0] /\ written' = Zero /\ seen' = seen
  BY DEF Reset, threadVars
<1>2. \A t \in Targets : Copying(t)' = {} /\ Cardinality({}) = 0
  BY <1>1, FS_EmptySet DEF Copying
<1>3. Sent' = [t \in Targets |-> 0]
  BY <1>1, <1>2 DEF Sent
<1>4. Shown' = [t \in Targets |-> [s \in Sources |-> 0]]
  BY <1>1 DEF Shown, Zero
<1> QED
  BY <1>1, <1>3, <1>4 DEF Snapshot!Reset, Shown, Sent, Copying

LEMMA InitMaps == Init => Snapshot!Init
<1> SUFFICES ASSUME Init PROVE Snapshot!Init
  OBVIOUS
<1>1. \A t \in Targets : Copying(t) = {} /\ Cardinality({}) = 0
  BY FS_EmptySet DEF Init, Copying
<1>2. Sent = [t \in Targets |-> 0]
  <2>1. \A t \in Targets : counter[t] - Cardinality(Copying(t)) = 0
    <3>1. counter = [t \in Targets |-> 0]
      BY DEF Init
    <3> QED
      BY <1>1, <3>1
  <2> QED
    BY <2>1 DEF Sent
<1>3. Shown = [t \in Targets |-> [s \in Sources |-> 0]]
  BY DEF Init, Shown, Zero
<1>4. seen = [th \in Threads |-> <<>>]
  BY DEF Init
<1> QED
  BY <1>2, <1>3, <1>4 DEF Snapshot!Init, Shown, Sent, Copying

\* A step of a thread outside the copying, or from its first to its second half.
LEMMA ThreadUnseen ==
  ASSUME NEW th \in Threads, UNCHANGED <<written, counter, seen>>,
         \A u \in Threads \ {th} : pc'[u] = pc[u] /\ todo'[u] = todo[u],
         \/ th \in Readers
         \/ /\ pc[th] \notin {"copy first", "copy second"}
            /\ pc'[th] \notin {"copy first", "copy second"}
         \/ /\ pc[th] \in {"copy first", "copy second"}
            /\ pc'[th] \in {"copy first", "copy second"} /\ todo'[th] = todo[th]
  PROVE  UNCHANGED <<Shown, Sent, seen>>
<1>1. ASSUME NEW u \in Threads \ Readers, NEW t \in Targets
      PROVE  (pc'[u] \in {"copy first", "copy second"} /\ NextTarget(u)' = t)
               <=> (pc[u] \in {"copy first", "copy second"} /\ NextTarget(u) = t)
  BY DEF NextTarget
<1> QED
  BY <1>1, Unseen

LEMMA GoingElsewhere ==
  ASSUME IInv, NEW th \in Threads, NEW place \in Places, NEW targets \in SUBSET Targets,
         GoTo(th, place, targets), UNCHANGED <<written, counter, seen>>,
         \/ th \in Readers
         \/ pc[th] \notin {"copy first", "copy second"} /\ place \notin {"copy first", "copy second"}
  PROVE  UNCHANGED <<Shown, Sent, seen>>
<1>1. /\ pc'[th] = place
      /\ \A u \in Threads \ {th} : pc'[u] = pc[u] /\ todo'[u] = todo[u]
  BY Going DEF IInv
<1> QED
  BY <1>1, ThreadUnseen

LEMMA StepMaps ==
  IInv /\ [Next]_vars => [Snapshot!Next]_(Snapshot!vars)
<1> DEFINE Stutter == UNCHANGED <<Shown, Sent, seen>>
<1> SUFFICES ASSUME IInv, [Next]_vars PROVE Snapshot!Next \/ Stutter
  BY DEF Snapshot!vars, Shown, Sent, Copying
<1> USE SourcesAreThreads
<1>0. TypeOK /\ Places = {"idle", "lock", "write", "unlock", "fire", "claim", "enter",
                          "update", "copy first", "copy second", "release"}
  BY DEF IInv, Places
<1>1. ASSUME NEW s \in Sources, Receive(s) PROVE Stutter
  <2>1. /\ GoTo(s, IF Writes[s] = {} THEN "fire" ELSE "lock", Writes[s]) /\ pc[s] = "idle"
        /\ UNCHANGED <<written, counter, seen>> /\ Writes[s] \in SUBSET Targets
    BY <1>1, Kept, WritesAssumption DEF Receive, Call
  <2> DEFINE place == IF Writes[s] = {} THEN "fire" ELSE "lock"
  <2>2. place \in {"fire", "lock"} /\ place \in Places
    BY <1>0
  <2> HIDE DEF place
  <2>3. GoTo(s, place, Writes[s])
    BY <2>1 DEF place
  <2> QED
    BY <2>1, <2>2, <2>3, GoingElsewhere
<1>2. ASSUME NEW th \in Threads, Transmit(th), pc[th] \in {"idle", "fire"} PROVE Stutter
  <2>1. UNCHANGED <<written, counter, seen>> /\ {"claim", "idle"} \subseteq Places
    BY <1>0, <1>2, Kept DEF Transmit
  <2>2. \/ th \in Transmitters /\ GoTo(th, "claim", Sends[th])
        \/ GoTo(th, "idle", {})
    BY <1>2 DEF Transmit
  <2>3. CASE th \in Transmitters /\ GoTo(th, "claim", Sends[th])
    <3>1. Sends[th] \in SUBSET Targets
      BY <2>3, SendsAssumption DEF Transmitters
    <3> QED
      BY <1>2, <2>1, <2>3, <3>1, GoingElsewhere
  <2>4. CASE GoTo(th, "idle", {})
    <3>1. {} \in SUBSET Targets
      OBVIOUS
    <3> QED
      BY <1>2, <2>1, <2>4, <3>1, GoingElsewhere
  <2> QED
    BY <2>2, <2>3, <2>4
<1>3. ASSUME NEW r \in Readers, NEW t \in Targets, GetCurrentData(r, t) PROVE Stutter
  <2>1. /\ GoTo(r, "claim", {t}) /\ UNCHANGED <<written, counter, seen>> /\ "claim" \in Places
        /\ {t} \in SUBSET Targets
    BY <1>0, <1>3, Kept DEF GetCurrentData
  <2> QED
    BY <2>1, GoingElsewhere
<1>4. ASSUME NEW s \in Sources, ShareTarget(s) \/ UnlockTarget(s) PROVE Stutter
  <2>1. UNCHANGED <<written, counter, seen>> /\ {"lock", "write", "unlock", "fire"} \subseteq Places
        /\ pc[s] \in {"lock", "unlock"} /\ Writes[s] \in SUBSET Targets
        /\ todo[s] \ {NextTarget(s)} \in SUBSET Targets
    BY <1>0, <1>4, Kept, WritesAssumption DEF ShareTarget, UnlockTarget, TypeOK
  <2>2. \E place \in {"lock", "write", "unlock", "fire"}, targets \in SUBSET Targets :
           GoTo(s, place, targets)
    BY <1>4, <2>1 DEF ShareTarget, UnlockTarget, Advance
  <2>3. PICK place \in {"lock", "write", "unlock", "fire"}, targets \in SUBSET Targets :
           GoTo(s, place, targets)
    BY <2>2
  <2>4. place \in Places
    BY <2>1
  <2> QED
    BY <2>1, <2>3, <2>4, GoingElsewhere
<1>5. ASSUME NEW th \in Threads, ClaimTarget(th) \/ EnterTarget(th) PROVE Stutter
  <2>1. UNCHANGED <<written, counter, seen>> /\ {"enter", "update", "copy first"} \subseteq Places
        /\ pc[th] \in {"claim", "enter"} /\ todo[th] \in SUBSET Targets
    BY <1>0, <1>5, Kept DEF ClaimTarget, EnterTarget, TypeOK
  <2>2. GoTo(th, "enter", todo[th]) \/ GoTo(th, AfterLock(th), todo[th])
    BY <1>5 DEF ClaimTarget, EnterTarget
  <2>3. CASE th \in Readers
    BY <2>1, <2>2, <2>3, GoingElsewhere DEF AfterLock
  <2>4. CASE th \notin Readers
    <3>1. AfterLock(th) = "update"
      BY <2>4 DEF AfterLock
    <3> QED
      BY <2>1, <2>2, <3>1, GoingElsewhere
  <2> QED
    BY <2>3, <2>4
<1>6. ASSUME NEW th \in Threads, UpdateFunctions(th) PROVE Stutter
  <2>1. NextTarget(th) \in Targets
    BY <1>6, Alone DEF UpdateFunctions, Inside
  <2> PICK t \in Targets : t = NextTarget(th)
    BY <2>1
  <2> QED
    BY <1>6, UpdateUnseen
<1>7. ASSUME NEW th \in Threads, CopyFirst(th) PROVE Stutter
  <2>1. UNCHANGED <<written, counter, seen>> /\ GoTo(th, "copy second", todo[th])
        /\ pc[th] = "copy first" /\ "copy second" \in Places /\ todo[th] \in SUBSET Targets
    BY <1>0, <1>7, Kept DEF CopyFirst, TypeOK
  <2>2. /\ pc'[th] = "copy second" /\ todo'[th] = todo[th]
        /\ \A u \in Threads \ {th} : pc'[u] = pc[u] /\ todo'[u] = todo[u]
    <3>1. TypeOK
      BY <1>0
    <3> QED
      BY <2>1, <3>1, Going
  <2> QED
    BY <2>1, <2>2, ThreadUnseen
<1>8. ASSUME NEW th \in Threads, CopySecond(th) PROVE Snapshot!Next
  <2> PICK t \in Targets : t = NextTarget(th)
    BY <1>8, CopyComplete
  <2>1. Snapshot!Send(th, t) \/ Snapshot!Read(th, t)
    BY <1>8, CopySecondMaps
  <2> QED
    BY <2>1 DEF Snapshot!Next
<1>9. ASSUME NEW th \in Threads, ReleaseTarget(th) PROVE Stutter
  <2>1. UNCHANGED <<written, counter, seen>> /\ {"claim", "idle"} \subseteq Places
        /\ pc[th] = "release" /\ todo[th] \ {NextTarget(th)} \in SUBSET Targets
    BY <1>0, <1>9, Kept DEF ReleaseTarget, TypeOK
  <2>2. GoTo(th, "claim", todo[th] \ {NextTarget(th)}) \/ GoTo(th, "idle", {})
    BY <1>9 DEF ReleaseTarget, Advance
  <2>3. CASE GoTo(th, "claim", todo[th] \ {NextTarget(th)})
    BY <2>1, <2>3, GoingElsewhere
  <2>4. CASE GoTo(th, "idle", {})
    <3>1. {} \in SUBSET Targets
      OBVIOUS
    <3> QED
      BY <2>1, <2>4, <3>1, GoingElsewhere
  <2> QED
    BY <2>2, <2>3, <2>4
<1>10. ASSUME NEW s \in Sources, WriteElement(s) PROVE Snapshot!Next \/ Stutter
  BY <1>10, WriteElementMaps DEF Snapshot!Next
<1>11. ASSUME Reset PROVE Snapshot!Next
  BY <1>11, ResetMaps DEF Snapshot!Next
<1>12. ASSUME UNCHANGED <<threadVars, dataVars, historyVars>> PROVE Stutter
  <2>1. UNCHANGED <<pc, todo, written, counter, seen>>
    BY <1>12, Kept DEF threadVars
  <2>2. \A t \in Targets : Copying(t)' = Copying(t)
    BY <2>1 DEF Copying, NextTarget
  <2> QED
    BY <2>1, <2>2 DEF Shown, Sent
<1>13. ASSUME Switch \/ (\E n \in Transmitters : SwitchTrigger(n)) \/ UNCHANGED vars PROVE Stutter
  BY <1>12, <1>13 DEF Switch, SwitchTrigger, vars
<1>14. ASSUME NEW th \in Threads, Run(th) PROVE Snapshot!Next \/ Stutter
  <2>1. CASE th \in Sources /\ (ShareTarget(th) \/ UnlockTarget(th) \/ WriteElement(th))
    BY <1>4, <1>10, <2>1
  <2>2. CASE FireSignal(th)
    BY <1>2, <2>2 DEF FireSignal
  <2>3. CASE ClaimTarget(th) \/ EnterTarget(th) \/ UpdateFunctions(th) \/ CopyFirst(th)
    BY <1>5, <1>6, <1>7, <2>3
  <2>4. CASE CopySecond(th) \/ ReleaseTarget(th)
    BY <1>8, <1>9, <2>4
  <2> QED
    BY <1>14, <2>1, <2>2, <2>3, <2>4 DEF Run
<1>15. ASSUME OnTimer PROVE Stutter
  BY <1>2, <1>15 DEF OnTimer, Call
<1> HIDE DEF Stutter
<1> QED
  BY <1>1, <1>3, <1>11, <1>13, <1>14, <1>15 DEF Next

\* Every buffer the engine sends or hands out holds whole samples, the same in
\* all targets a source writes, and counts the buffers sent.
THEOREM ImplementsSnapshotHolds == Spec => ImplementsSnapshot
<1>1. Init => Snapshot!Init
  BY InitMaps
<1>2. IInv /\ [Next]_vars => [Snapshot!Next]_(Snapshot!vars)
  BY StepMaps
<1> QED
  BY <1>1, <1>2, AlwaysHolds, PTL DEF Spec, Safe, ImplementsSnapshot, Snapshot!Spec
=============================================================================
