----------------------------- MODULE PropsProof -----------------------------
(***************************************************************************)
(* What the two threads keep of the properties, for any number of          *)
(* properties, any values and any hosts: no property is overlooked that is *)
(* to be stashed later or has been restored, and the stash of a host that  *)
(* only saves follows the value.  The lock is not needed for any of it: it *)
(* keeps the halves of a value together, where it keeps them at all.       *)
(***************************************************************************)
EXTENDS Props, TLAPS

\* The host has a property in hand.
HoldSteps == {"spin", "size", "body", "unlock"}
TakeSteps == {"takeSize", "takeBody", "takeUnlock"}

\* Where the threads are in their loops, and that a restore has a value.
RTPlaces ==
  /\ rt \in StashSteps \cup TakeSteps => rtImpl \in Impls
  /\ rt \in {"ready", "check"} => rtImpl = 1
HostPlaces == host \in HoldSteps => hostImpl \in Impls
InHand == host \in HoldSteps /\ hostCall = "restore" => copy \in Pair

\* A property that is being stashed is not one to be stashed later.
Lowered == rt \in StashSteps \ {"stash"} => ~later[rtImpl]

\* A host that does not restore: nothing is marked, and nothing is taken over.
OnlySaves ==
  "restore" \notin calls =>
    hostCall = "save" /\ ~restoring /\ rt \notin TakeSteps \cup {"restore"}

\* The halves of the value that have been stashed, for such a host.
Halves ==
  "restore" \notin calls =>
    /\ rt = "stashBody" => stash[rtImpl].size = value[rtImpl].size
    /\ rt = "stashUnlock" => stash[rtImpl] = value[rtImpl]

\* The inductive invariant.
Places == RTPlaces /\ HostPlaces /\ InHand
IInv == /\ TypeOK /\ Places
        /\ Lowered /\ LaterIsNoticed
        /\ RestoreNoticed
        /\ OnlySaves /\ Halves /\ StashFollows

\* Each of them is a step, or a set of steps.
LEMMA Steps ==
  /\ "ready" \in RTSteps /\ "stash" \in RTSteps /\ "stashSize" \in RTSteps
  /\ "stashBody" \in RTSteps /\ "stashUnlock" \in RTSteps
  /\ "restore" \in RTSteps /\ "takeSize" \in RTSteps /\ "takeBody" \in RTSteps
  /\ "takeUnlock" \in RTSteps /\ "check" \in RTSteps /\ "later" \in RTSteps
  /\ "idle" \in HostSteps /\ "next" \in HostSteps /\ "spin" \in HostSteps
  /\ "size" \in HostSteps /\ "body" \in HostSteps /\ "unlock" \in HostSteps
BY DEF RTSteps, HostSteps

-----------------------------------------------------------------------------
(* The initial states.                                                     *)

LEMMA InitIInv == Init => IInv
<1> SUFFICES ASSUME Init PROVE IInv
  OBVIOUS
<1> USE NAssumption
<1>1. PICK v \in Values : value = [i \in Impls |-> Whole(v)] /\ stash = value
  BY DEF Init
<1>2. Whole(v) \in Pair /\ 1 \in Impls /\ 1 \in 1..(N + 1)
  BY DEF Whole, Pair, Impls
<1>3. RTTypes /\ HostTypes /\ FlagTypes
  BY <1>2, Steps DEF Init, RTTypes, HostTypes, FlagTypes
<1>4. ValueTypes
  BY <1>1, <1>2 DEF Init, ValueTypes, None
<1>5. Places
  BY <1>2 DEF Init, Places, RTPlaces, HostPlaces, InHand, StashSteps, TakeSteps, HoldSteps
<1>6. Lowered /\ LaterIsNoticed /\ RestoreNoticed
  BY DEF Init, Lowered, LaterIsNoticed, RestoreNoticed, StashSteps
<1>7. OnlySaves /\ Halves /\ StashFollows
  BY <1>1 DEF Init, OnlySaves, Halves, StashFollows, TakeSteps
<1> QED
  BY <1>3, <1>4, <1>5, <1>6, <1>7 DEF IInv, TypeOK

-----------------------------------------------------------------------------
(* Where the threads are.                                                  *)

LEMMA RTKeepsPlaces ==
  ASSUME RTTypes, RTPlaces, RealTime
  PROVE  RTTypes' /\ RTPlaces'
<1> USE NAssumption, Steps DEF RTTypes, RTPlaces, Impls, StashSteps, TakeSteps
<1>1. ASSUME NEW i \in Impls, NEW v \in Values, Set(i, v)
      PROVE  RTTypes' /\ RTPlaces'
  BY <1>1 DEF Set
<1>2. CASE IdleBegin
  BY <1>2 DEF IdleBegin, RTAt
<1>3. CASE StashTry
  BY <1>3 DEF StashTry, RTAt
<1>4. CASE StashSize \/ StashBody
  BY <1>4 DEF StashSize, StashBody, RTAt
<1>5. CASE StashUnlock
  BY <1>5 DEF StashUnlock, RTAt
<1>6. CASE RestoreTry
  BY <1>6 DEF RestoreTry, RTAt
<1>7. CASE TakeSize \/ TakeBody
  BY <1>7 DEF TakeSize, TakeBody, RTAt
<1>8. CASE TakeUnlock
  BY <1>8 DEF TakeUnlock, RTAt
<1>9. CASE RestoreDone
  BY <1>9 DEF RestoreDone, RTAt
<1>10. CASE CheckStashing
  BY <1>10 DEF CheckStashing, RTAt
<1>11. CASE LaterTry
  BY <1>11 DEF LaterTry, RTAt
<1>12. CASE LaterDone
  BY <1>12 DEF LaterDone, RTAt
<1> QED
  BY <1>1, <1>2, <1>3, <1>4, <1>5, <1>6, <1>7, <1>8, <1>9, <1>10, <1>11, <1>12
     DEF RealTime, Stash, Restore, Later

LEMMA HostKeepsPlaces ==
  ASSUME HostTypes, HostPlaces, Host
  PROVE  HostTypes' /\ HostPlaces'
<1> USE NAssumption, Steps DEF HostTypes, HostPlaces, Impls, HoldSteps, rest
<1>1. ASSUME NEW call \in calls, Begin(call)
      PROVE  HostTypes' /\ HostPlaces'
  <2>1. call \in {"save", "restore"}
    BY HostsAssumption
  <2> QED
    BY <1>1, <2>1 DEF Begin
<1>2. CASE Skip
  BY <1>2 DEF Skip, HostAt
<1>3. ASSUME NEW v \in Values, Choose(v)
      PROVE  HostTypes' /\ HostPlaces'
  BY <1>3, WritableAssumption DEF Choose, HostAt
<1>4. CASE Spin
  BY <1>4 DEF Spin, HostAt
<1>5. CASE CopySize \/ CopyBody
  BY <1>5 DEF CopySize, CopyBody, HostAt
<1>6. CASE Unlock
  BY <1>6 DEF Unlock, HostAt
<1>7. CASE End
  BY <1>7 DEF End, HostAt
<1> QED
  BY <1>1, <1>2, <1>3, <1>4, <1>5, <1>6, <1>7 DEF Host, HostStep

-----------------------------------------------------------------------------
(* The flags and the values have their types.                              *)

LEMMA FlagsKept ==
  ASSUME TypeOK, Places, Next
  PROVE  FlagTypes'
<1> USE DEF TypeOK, FlagTypes, rest, rtVars, hostVars
<1>1. ASSUME NEW i \in Impls, NEW v \in Values, Set(i, v)
      PROVE  FlagTypes'
  BY <1>1 DEF Set
<1>2. CASE IdleBegin \/ RestoreDone \/ CheckStashing
  BY <1>2 DEF IdleBegin, RestoreDone, CheckStashing
<1>3. CASE StashTry
  BY <1>3 DEF StashTry
<1>4. CASE StashSize \/ StashBody \/ StashUnlock
  BY <1>4 DEF StashSize, StashBody, StashUnlock
<1>5. CASE RestoreTry
  BY <1>5 DEF RestoreTry
<1>6. CASE TakeSize \/ TakeBody \/ TakeUnlock
  BY <1>6 DEF TakeSize, TakeBody, TakeUnlock
<1>7. CASE LaterTry \/ LaterDone
  BY <1>7 DEF LaterTry, LaterDone
<1>8. ASSUME NEW call \in calls, Begin(call)
      PROVE  FlagTypes'
  BY <1>8 DEF Begin
<1>9. ASSUME NEW v \in Values, Choose(v)
      PROVE  FlagTypes'
  BY <1>9 DEF Choose
<1>10. CASE Skip \/ CopySize \/ CopyBody
  BY <1>10 DEF Skip, CopySize, CopyBody
<1>11. CASE Spin
  <2>1. hostImpl \in Impls
    BY <1>11 DEF Spin, HostAt, Places, HostPlaces, HoldSteps
  <2> QED
    BY <1>11, <2>1 DEF Spin
<1>12. CASE Unlock
  BY <1>12 DEF Unlock
<1>13. CASE End
  BY <1>13 DEF End
<1> QED
  BY <1>1, <1>2, <1>3, <1>4, <1>5, <1>6, <1>7, <1>8, <1>9, <1>10, <1>11, <1>12, <1>13
     DEF Next, RealTime, Stash, Restore, Later, Host, HostStep

LEMMA ValuesKept ==
  ASSUME TypeOK, Places, Next
  PROVE  ValueTypes' /\ InHand'
<1> DEFINE Some == Values \cup {Nothing}
<1> USE DEF TypeOK, ValueTypes, Pair, Places, InHand, HoldSteps, rest, rtVars, hostVars
<1>1. ASSUME NEW i \in Impls, NEW v \in Values, Set(i, v)
      PROVE  ValueTypes' /\ InHand'
  BY <1>1 DEF Set, Whole
<1>2. CASE IdleBegin \/ StashTry \/ StashUnlock \/ RestoreTry \/ TakeUnlock \/ RestoreDone
           \/ CheckStashing \/ LaterTry \/ LaterDone
  BY <1>2 DEF IdleBegin, StashTry, StashUnlock, RestoreTry, TakeUnlock, RestoreDone,
              CheckStashing, LaterTry, LaterDone
<1>3. CASE StashSize \/ StashBody
  <2>1. rtImpl \in Impls
    BY <1>3 DEF StashSize, StashBody, RTAt, RTPlaces, StashSteps
  <2>2. stash' \in [Impls -> Pair]
    BY <1>3, <2>1 DEF StashSize, StashBody
  <2> QED
    BY <1>3, <2>2 DEF StashSize, StashBody
<1>4. CASE TakeSize \/ TakeBody
  <2>1. rtImpl \in Impls
    BY <1>4 DEF TakeSize, TakeBody, RTAt, RTPlaces, TakeSteps
  <2>2. value' \in [Impls -> Pair]
    BY <1>4, <2>1 DEF TakeSize, TakeBody
  <2> QED
    BY <1>4, <2>2 DEF TakeSize, TakeBody
<1>5. ASSUME NEW call \in calls, Begin(call)
      PROVE  ValueTypes' /\ InHand'
  BY <1>5 DEF Begin
<1>6. CASE Skip \/ End
  BY <1>6 DEF Skip, End, HostAt
<1>7. ASSUME NEW v \in Values, Choose(v)
      PROVE  ValueTypes' /\ InHand'
  BY <1>7 DEF Choose, Whole, None
<1>8. CASE Spin
  BY <1>8 DEF Spin, HostAt
<1>9. CASE CopySize
  <2>1. hostImpl \in Impls /\ (hostCall = "restore" => copy \in Pair)
    BY <1>9 DEF CopySize, HostAt, HostPlaces
  <2>2. CASE hostCall = "save"
    <3>1. copy' \in [size : Some, body : Some]
      BY <1>9, <2>1, <2>2 DEF CopySize
    <3> QED
      BY <1>9, <2>2, <3>1 DEF CopySize
  <2>3. CASE hostCall = "restore"
    <3>1. stash' \in [Impls -> Pair]
      BY <1>9, <2>1, <2>3 DEF CopySize
    <3> QED
      BY <1>9, <2>1, <2>3, <3>1 DEF CopySize
  <2> QED
    BY <2>2, <2>3 DEF HostTypes
<1>10. CASE CopyBody
  <2>1. hostImpl \in Impls /\ (hostCall = "restore" => copy \in Pair)
    BY <1>10 DEF CopyBody, HostAt, HostPlaces
  <2>2. CASE hostCall = "save"
    <3>1. copy' \in [size : Some, body : Some]
      BY <1>10, <2>1, <2>2 DEF CopyBody
    <3> QED
      BY <1>10, <2>2, <3>1 DEF CopyBody
  <2>3. CASE hostCall = "restore"
    <3>1. stash' \in [Impls -> Pair]
      BY <1>10, <2>1, <2>3 DEF CopyBody
    <3> QED
      BY <1>10, <2>1, <2>3, <3>1 DEF CopyBody
  <2> QED
    BY <2>2, <2>3 DEF HostTypes
<1>11. CASE Unlock
  BY <1>11 DEF Unlock, None
<1> QED
  BY <1>1, <1>2, <1>3, <1>4, <1>5, <1>6, <1>7, <1>8, <1>9, <1>10, <1>11
     DEF Next, RealTime, Stash, Restore, Later, Host, HostStep

\* Types and places, step by step.
LEMMA TypesKept ==
  ASSUME TypeOK, Places, Next
  PROVE  TypeOK' /\ Places'
<1>1. FlagTypes' /\ ValueTypes' /\ InHand'
  BY FlagsKept, ValuesKept
<1>2. CASE RealTime
  <2>1. RTTypes' /\ RTPlaces'
    BY <1>2, RTKeepsPlaces DEF TypeOK, Places
  <2>2. UNCHANGED hostVars
    BY <1>2 DEF RealTime, Stash, Restore, Later, Set, IdleBegin, StashTry, StashSize,
                StashBody, StashUnlock, RestoreTry, TakeSize, TakeBody, TakeUnlock,
                RestoreDone, CheckStashing, LaterTry, LaterDone
  <2>3. HostTypes' /\ HostPlaces'
    BY <2>2 DEF TypeOK, Places, hostVars, HostTypes, HostPlaces
  <2> QED
    BY <1>1, <2>1, <2>3 DEF TypeOK, Places
<1>3. CASE Host
  <2>1. HostTypes' /\ HostPlaces'
    BY <1>3, HostKeepsPlaces DEF TypeOK, Places
  <2>2. UNCHANGED rtVars
    BY <1>3 DEF Host, HostStep, Begin, Skip, Choose, Spin, CopySize, CopyBody, Unlock,
                End, rest
  <2>3. RTTypes' /\ RTPlaces'
    BY <2>2 DEF TypeOK, Places, rtVars, RTTypes, RTPlaces
  <2> QED
    BY <1>1, <2>1, <2>3 DEF TypeOK, Places
<1> QED
  BY <1>2, <1>3 DEF Next

-----------------------------------------------------------------------------
(* Nothing to be stashed later is overlooked.                              *)

\* The flag goes down where the loop begins, at the first property; a property
\* leaves the loop stashed, or with the flag up again.
LEMMA LaterKept ==
  ASSUME TypeOK, Places, Lowered, LaterIsNoticed, Next
  PROVE  Lowered' /\ LaterIsNoticed'
<1> USE DEF Lowered, LaterIsNoticed, StashSteps, TypeOK, FlagTypes, RTTypes, Places,
            RTPlaces, Impls, TakeSteps
<1>1. ASSUME NEW i \in Impls, NEW v \in Values, Set(i, v)
      PROVE  Lowered' /\ LaterIsNoticed'
  BY <1>1 DEF Set, RTAt
<1>2. CASE IdleBegin
  BY <1>2 DEF IdleBegin, RTAt
<1>3. CASE StashTry
  BY <1>3 DEF StashTry, RTAt
<1>4. CASE StashSize \/ StashBody
  BY <1>4 DEF StashSize, StashBody, RTAt
<1>5. CASE StashUnlock
  BY <1>5, NAssumption DEF StashUnlock, RTAt
<1>6. CASE RestoreTry
  BY <1>6 DEF RestoreTry, RTAt
<1>7. CASE TakeSize \/ TakeBody \/ TakeUnlock \/ RestoreDone
  BY <1>7 DEF TakeSize, TakeBody, TakeUnlock, RestoreDone, RTAt
<1>8. CASE CheckStashing
  BY <1>8 DEF CheckStashing, RTAt
<1>9. CASE LaterTry
  BY <1>9, NAssumption DEF LaterTry, RTAt
<1>10. CASE LaterDone
  BY <1>10, NAssumption DEF LaterDone, RTAt
<1>11. CASE Host
  <2>1. UNCHANGED <<later, stashing, rtVars>>
    BY <1>11 DEF Host, HostStep, Begin, Skip, Choose, Spin, CopySize, CopyBody, Unlock,
                 End, rest
  <2> QED
    BY <2>1 DEF rtVars
<1> QED
  BY <1>1, <1>2, <1>3, <1>4, <1>5, <1>6, <1>7, <1>8, <1>9, <1>10, <1>11
     DEF Next, RealTime, Stash, Restore, Later

-----------------------------------------------------------------------------
(* Nothing restored is overlooked.                                         *)

\* A property is marked inside a restore, which raises the flag as it returns;
\* the loop begins where the flag is taken down, and leaves no mark behind it.
LEMMA RestoreKept ==
  ASSUME TypeOK, Places, RestoreNoticed, Next
  PROVE  RestoreNoticed'
<1> USE DEF RestoreNoticed, TypeOK, FlagTypes, RTTypes, Places, RTPlaces, Impls
<1>1. ASSUME NEW i \in Impls, NEW v \in Values, Set(i, v)
      PROVE  RestoreNoticed'
  BY <1>1 DEF Set, RTAt, hostVars
<1>2. CASE IdleBegin
  BY <1>2 DEF IdleBegin, RTAt, hostVars
<1>3. CASE StashTry \/ StashUnlock
  <2>1. rtImpl \in Impls
    BY <1>3 DEF StashTry, StashUnlock, RTAt, StashSteps
  <2> QED
    BY <1>3, <2>1 DEF StashTry, StashUnlock, RTAt, hostVars
<1>4. CASE StashSize \/ StashBody
  BY <1>4 DEF StashSize, StashBody, RTAt, hostVars
<1>5. CASE RestoreTry
  <2>1. CASE state[rtImpl] = "restore"
    <3>1. \A i \in Impls : state'[i] = "restore" => state[i] = "restore"
      BY <1>5, <2>1 DEF RestoreTry
    <3> QED
      BY <1>5, <2>1, <3>1 DEF RestoreTry, RTAt, hostVars
  <2>2. CASE state[rtImpl] # "restore"
    <3>1. \A i \in Impls : state[i] = "restore" /\ rtImpl <= i => rtImpl + 1 <= i
      BY <2>2, NAssumption
    <3> QED
      BY <1>5, <2>2, <3>1 DEF RestoreTry, RTAt, hostVars
  <2> QED
    BY <2>1, <2>2
<1>6. CASE TakeSize \/ TakeBody
  BY <1>6 DEF TakeSize, TakeBody, RTAt, hostVars
<1>7. CASE TakeUnlock
  BY <1>7 DEF TakeUnlock, RTAt, TakeSteps, hostVars
<1>8. CASE RestoreDone
  BY <1>8, NAssumption DEF RestoreDone, RTAt, hostVars
<1>9. CASE CheckStashing \/ LaterTry \/ LaterDone
  BY <1>9 DEF CheckStashing, LaterTry, LaterDone, RTAt, hostVars
<1>10. ASSUME NEW call \in calls, Begin(call)
       PROVE  RestoreNoticed'
  BY <1>10 DEF Begin, HostAt, rest, rtVars
<1>11. ASSUME NEW v \in Values, Choose(v)
       PROVE  RestoreNoticed'
  BY <1>11 DEF Choose, HostAt, rest, rtVars
<1>12. CASE Skip
  BY <1>12 DEF Skip, HostAt, rest, rtVars
<1>13. CASE Spin
  BY <1>13 DEF Spin, HostAt, rest, rtVars
<1>14. CASE CopySize \/ CopyBody
  BY <1>14 DEF CopySize, CopyBody, HostAt, rtVars
<1>15. CASE Unlock
  <2>1. CASE hostCall = "restore"
    BY <1>15, <2>1 DEF Unlock
  <2>2. CASE hostCall = "save"
    <3>1. \A i \in Impls : state'[i] = "restore" => state[i] = "restore"
      BY <1>15, <2>2 DEF Unlock
    <3> QED
      BY <1>15, <2>2, <3>1 DEF Unlock, HostAt, rest, rtVars
  <2> QED
    BY <2>1, <2>2 DEF HostTypes
<1>16. CASE End
  BY <1>16 DEF End, HostAt, rest, rtVars
<1> QED
  BY <1>1, <1>2, <1>3, <1>4, <1>5, <1>6, <1>7, <1>8, <1>9, <1>10, <1>11, <1>12, <1>13,
     <1>14, <1>15, <1>16 DEF Next, RealTime, Stash, Restore, Later, Host, HostStep

-----------------------------------------------------------------------------
(* The stash follows the value.                                            *)

LEMMA OnlySavesKept ==
  ASSUME TypeOK, OnlySaves, Next
  PROVE  OnlySaves'
<1> SUFFICES ASSUME "restore" \notin calls
             PROVE  hostCall' = "save" /\ ~restoring' /\ rt' \notin TakeSteps \cup {"restore"}
  <2>1. calls' = calls
    BY DEF Next, RealTime, Stash, Restore, Later, Set, IdleBegin, StashTry, StashSize,
           StashBody, StashUnlock, RestoreTry, TakeSize, TakeBody, TakeUnlock, RestoreDone,
           CheckStashing, LaterTry, LaterDone, hostVars, Host, HostStep, Begin, Skip,
           Choose, Spin, CopySize, CopyBody, Unlock, End, rest
  <2> QED
    BY <2>1 DEF OnlySaves
<1>1. hostCall = "save" /\ ~restoring /\ rt \notin TakeSteps \cup {"restore"}
  BY DEF OnlySaves
<1> USE <1>1 DEF TakeSteps, RTAt
<1>2. ASSUME NEW i \in Impls, NEW v \in Values, Set(i, v)
      PROVE  hostCall' = "save" /\ ~restoring' /\ rt' \notin TakeSteps \cup {"restore"}
  BY <1>2 DEF Set, hostVars
<1>3. CASE IdleBegin
  BY <1>3 DEF IdleBegin, hostVars
<1>4. CASE StashTry \/ StashUnlock
  BY <1>4 DEF StashTry, StashUnlock, hostVars, TypeOK, RTTypes
<1>5. CASE StashSize \/ StashBody
  BY <1>5 DEF StashSize, StashBody, hostVars
<1>6. CASE Restore
  BY <1>6 DEF Restore, RestoreTry, TakeSize, TakeBody, TakeUnlock, RestoreDone
<1>7. CASE Later
  BY <1>7 DEF Later, CheckStashing, LaterTry, LaterDone, hostVars
<1>8. CASE Host
  <2>1. UNCHANGED rtVars
    BY <1>8 DEF Host, HostStep, Begin, Skip, Choose, Spin, CopySize, CopyBody, Unlock,
                End, rest
  <2>2. \A call \in calls : call = "save"
    BY HostsAssumption DEF TypeOK, HostTypes
  <2>3. hostCall' = "save"
    BY <1>8, <2>2 DEF Host, HostStep, Begin, Skip, Choose, Spin, CopySize, CopyBody,
                      Unlock, End
  <2>4. ~restoring'
    BY <1>8 DEF Host, HostStep, Begin, Skip, Choose, Spin, CopySize, CopyBody,
                Unlock, End
  <2> QED
    BY <2>1, <2>3, <2>4 DEF rtVars
<1> QED
  BY <1>2, <1>3, <1>4, <1>5, <1>6, <1>7, <1>8 DEF Next, RealTime, Stash

\* Such a host changes neither the stash nor the value; the real-time thread
\* leaves _props_impl_stash with both halves, or the property to be stashed.
LEMMA FollowsKept ==
  ASSUME TypeOK, Places, OnlySaves, Halves, StashFollows, Next
  PROVE  Halves' /\ StashFollows'
<1> SUFFICES ASSUME "restore" \notin calls
             PROVE  /\ rt' = "stashBody" => stash'[rtImpl'].size = value'[rtImpl'].size
                    /\ rt' = "stashUnlock" => stash'[rtImpl'] = value'[rtImpl']
                    /\ \A i \in Impls : value'[i] # stash'[i] => later'[i] \/ Stashes(i)'
  <2>1. calls' = calls
    BY DEF Next, RealTime, Stash, Restore, Later, Set, IdleBegin, StashTry, StashSize,
           StashBody, StashUnlock, RestoreTry, TakeSize, TakeBody, TakeUnlock, RestoreDone,
           CheckStashing, LaterTry, LaterDone, hostVars, Host, HostStep, Begin, Skip,
           Choose, Spin, CopySize, CopyBody, Unlock, End, rest
  <2> QED
    BY <2>1 DEF Halves, StashFollows
<1> DEFINE Goal == /\ rt' = "stashBody" => stash'[rtImpl'].size = value'[rtImpl'].size
                   /\ rt' = "stashUnlock" => stash'[rtImpl'] = value'[rtImpl']
                   /\ \A i \in Impls : value'[i] # stash'[i] => later'[i] \/ Stashes(i)'
<1>1. /\ hostCall = "save" /\ rt \notin TakeSteps \cup {"restore"}
      /\ rt = "stashBody" => stash[rtImpl].size = value[rtImpl].size
      /\ rt = "stashUnlock" => stash[rtImpl] = value[rtImpl]
      /\ \A i \in Impls : value[i] # stash[i] => later[i] \/ Stashes(i)
  BY DEF OnlySaves, Halves, StashFollows
<1> USE <1>1 DEF Stashes, StashSteps, TypeOK, FlagTypes, ValueTypes, RTTypes, Places, RTPlaces
<1>2. ASSUME NEW i \in Impls, NEW v \in Values, Set(i, v)
      PROVE  Goal
  BY <1>2 DEF Set, RTAt
<1>3. CASE IdleBegin
  BY <1>3 DEF IdleBegin, RTAt
<1>4. CASE StashTry
  BY <1>4 DEF StashTry, RTAt
<1>5. CASE StashSize
  <2>1. rtImpl \in Impls /\ stash[rtImpl] \in Pair /\ rt' = "stashBody" /\ rtImpl' = rtImpl
    BY <1>5 DEF StashSize, RTAt
  <2>2. stash'[rtImpl].size = value[rtImpl].size
    BY <1>5, <2>1 DEF StashSize, Pair
  <2>3. \A i \in Impls : i # rtImpl => stash'[i] = stash[i]
    BY <1>5, <2>1 DEF StashSize
  <2> QED
    BY <1>5, <2>1, <2>2, <2>3 DEF StashSize, RTAt
<1>6. CASE StashBody
  <2>1. rtImpl \in Impls /\ rt' = "stashUnlock" /\ rtImpl' = rtImpl
    BY <1>6 DEF StashBody, RTAt
  <2>2. stash'[rtImpl] = value[rtImpl]
    <3>1. stash[rtImpl] \in Pair /\ value[rtImpl] \in Pair
      BY <2>1
    <3>2. stash'[rtImpl] = [stash[rtImpl] EXCEPT !.body = value[rtImpl].body]
      BY <1>6, <2>1 DEF StashBody
    <3>3. stash[rtImpl].size = value[rtImpl].size
      BY <1>6 DEF StashBody, RTAt
    <3>4. PICK a, b : a = stash[rtImpl] /\ b = value[rtImpl]
      OBVIOUS
    <3>5. a \in Pair /\ b \in Pair /\ a.size = b.size
      BY <3>1, <3>3, <3>4
    <3>6. [a EXCEPT !.body = b.body] = b
      BY ONLY <3>5 DEF Pair
    <3> QED
      BY <3>2, <3>4, <3>6
  <2>3. \A i \in Impls : i # rtImpl => stash'[i] = stash[i]
    BY <1>6, <2>1 DEF StashBody
  <2> QED
    BY <1>6, <2>1, <2>2, <2>3 DEF StashBody, RTAt
<1>7. CASE StashUnlock
  BY <1>7 DEF StashUnlock, RTAt
<1>8. CASE Restore
  BY <1>8 DEF Restore, RestoreTry, TakeSize, TakeBody, TakeUnlock, RestoreDone, RTAt, TakeSteps
<1>9. CASE CheckStashing \/ LaterTry \/ LaterDone
  BY <1>9 DEF CheckStashing, LaterTry, LaterDone, RTAt
<1>10. CASE Host
  <2>1. UNCHANGED <<stash, later, value, rtVars>>
    BY <1>10 DEF Host, HostStep, Begin, Skip, Choose, Spin, CopySize, CopyBody, Unlock,
                 End, rest
  <2> QED
    BY <2>1 DEF rtVars
<1> QED
  BY <1>2, <1>3, <1>4, <1>5, <1>6, <1>7, <1>8, <1>9, <1>10
     DEF Next, RealTime, Stash, Later

-----------------------------------------------------------------------------
(* The theorems.                                                           *)

LEMMA Inductive == IInv /\ [Next]_vars => IInv'
<1> SUFFICES ASSUME IInv, [Next]_vars PROVE IInv'
  OBVIOUS
<1>1. CASE Next
  BY <1>1, TypesKept, LaterKept, RestoreKept, OnlySavesKept, FollowsKept DEF IInv
<1>2. CASE UNCHANGED vars
  BY <1>2 DEF IInv, vars, rtVars, hostVars, TypeOK, RTTypes, HostTypes, FlagTypes,
              ValueTypes, Places, RTPlaces, HostPlaces, InHand, Lowered, LaterIsNoticed,
              RestoreNoticed, OnlySaves, Halves, StashFollows, Stashes
<1> QED
  BY <1>1, <1>2

LEMMA Invariance == Spec => []IInv
BY InitIInv, Inductive, PTL DEF Spec

\* The state has its types, for any number of properties and any values
\* (props.h:76-94, 136-147).
THEOREM TypeCorrect == Spec => []TypeOK
<1>1. IInv => TypeOK
  BY DEF IInv
<1> QED
  BY <1>1, Invariance, PTL

\* A property that is to be stashed later is never overlooked: the flag is up,
\* or the loop is yet to come to it (props.h:440-456, 649-660).
THEOREM LaterSafe == Spec => []LaterIsNoticed
<1>1. IInv => LaterIsNoticed
  BY DEF IInv
<1> QED
  BY <1>1, Invariance, PTL

\* A restored value is never overlooked: the flag is up, or a restore is yet to
\* raise it, or the loop is yet to come to it (props.h:639-647, 1217).
THEOREM RestoreSafe == Spec => []RestoreNoticed
<1>1. IInv => RestoreNoticed
  BY DEF IInv
<1> QED
  BY <1>1, Invariance, PTL

\* What a host that only saves finds in the stash is the value, unless it is
\* being stashed or is to be stashed later (props.h:440-491).
THEOREM FollowSafe == Spec => []StashFollows
<1>1. IInv => StashFollows
  BY DEF IInv
<1> QED
  BY <1>1, Invariance, PTL
=============================================================================
