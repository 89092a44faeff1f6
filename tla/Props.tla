------------------------------- MODULE Props --------------------------------
(***************************************************************************)
(* The properties of a plugin, as props.lv2/props.h keeps them.            *)
(*                                                                         *)
(* Each property has a value, which only the real-time thread touches, and *)
(* a stash, which it shares with the host's other thread: the host saves   *)
(* the stash (props_save), or puts a new value into it (props_restore) for *)
(* the real-time thread to take over.  A property's atomic state guards    *)
(* its stash.  The real-time thread never waits: when it does not get the  *)
(* state it notes that it has to stash later.  The host spins.             *)
(*                                                                         *)
(* A value is a size and a body, copied one after the other; each half     *)
(* carries the name of the value it belongs to, so that a copy put         *)
(* together from two values can be told.                                   *)
(***************************************************************************)
EXTENDS Integers

CONSTANTS N,           \* props->nimpls
          Writable,    \* those that are not patch:readable only
          Values,      \* what a property can be set to
          Nothing,     \* no value
          Hosts,       \* what a host may call: "save", "restore" or both
          Concurrent   \* does it call them while run() is under way, too?

ASSUME NAssumption == N \in Nat \ {0}
ASSUME WritableAssumption == Writable \subseteq 1..N
ASSUME ValuesAssumption == Nothing \notin Values /\ Values # {}
ASSUME HostsAssumption == Hosts \subseteq SUBSET {"save", "restore"}
ASSUME ConcurrentAssumption == Concurrent \in BOOLEAN

Impls == 1..N
Whole(v) == [size |-> v, body |-> v]
Pair == [size : Values, body : Values]

VARIABLES calls,         \* which of the hosts this one is; never changes
          state,         \* impl->state
          value, stash,  \* impl->value, impl->stash
          later,         \* impl->stashing: try again later
          stashing,      \* props->stashing: some impl is to be stashed later
          restoring,     \* props->restoring: a restore has ended
          rt,            \* what the real-time thread is doing ...
          rtImpl,        \* ... to which property
          rtThen,        \* ... and what it returns to when it has stashed it
          host,          \* what the host's other thread is doing ...
          hostCall,      \* ... in which call
          hostImpl,      \* ... to which property
          expected,      \* the local of _props_impl_spin_lock
          copy,          \* the value it saves or restores
          saved          \* history: the last value stored

rtVars   == <<rt, rtImpl, rtThen>>
hostVars == <<calls, host, hostCall, hostImpl, expected, copy>>
vars == <<state, value, stash, later, stashing, restoring, rtVars, hostVars,
          saved>>

None == [size |-> Nothing, body |-> Nothing]

Init ==
  /\ calls \in Hosts
  /\ state = [i \in Impls |-> "none"]
  /\ \E v \in Values : /\ value = [i \in Impls |-> Whole(v)]
                       /\ stash = value
  /\ later = [i \in Impls |-> FALSE] /\ stashing = FALSE
  /\ restoring = FALSE
  /\ rt = "ready" /\ rtImpl = 1 /\ rtThen = "ready"
  /\ host = "idle" /\ hostCall = "save" /\ hostImpl = 1
  /\ expected = "none" /\ copy = None
  /\ saved = None

\* A host that knows of no thread-safe restore calls one function at a time.
RTAt(pc)   == rt = pc /\ (Concurrent \/ host = "idle")
HostAt(pc) == host = pc /\ (Concurrent \/ rt = "ready")

-----------------------------------------------------------------------------
(* The real-time thread: _props_impl_stash, for property i, returning to   *)
(* where it was called from.                                               *)

\* Mutant: when it does not get the lock, the flag of the property is raised
\* and that of all properties is not.
StashTryUnflagged ==
  /\ RTAt("stash")
  /\ IF state[rtImpl] = "none"
     THEN /\ state' = [state EXCEPT ![rtImpl] = "lock"]
          /\ later' = [later EXCEPT ![rtImpl] = FALSE]
          /\ rt' = "stashSize"
          /\ UNCHANGED rtImpl
     ELSE /\ later' = [later EXCEPT ![rtImpl] = TRUE]
          /\ rt' = rtThen
          /\ rtImpl' = IF rtThen = "ready" THEN 1 ELSE rtImpl + 1
          /\ UNCHANGED state
  /\ UNCHANGED <<value, stash, stashing, restoring, rtThen, hostVars, saved>>

\* Mutant: when it does not get the lock, it gives up.
StashTryOnce ==
  /\ RTAt("stash")
  /\ IF state[rtImpl] = "none"
     THEN /\ state' = [state EXCEPT ![rtImpl] = "lock"]
          /\ rt' = "stashSize"
          /\ UNCHANGED rtImpl
     ELSE /\ rt' = rtThen
          /\ rtImpl' = IF rtThen = "ready" THEN 1 ELSE rtImpl + 1
          /\ UNCHANGED state
  /\ later' = [later EXCEPT ![rtImpl] = FALSE]
  /\ UNCHANGED <<value, stash, stashing, restoring, rtThen, hostVars, saved>>

\* _props_impl_try_lock from NONE: stash now, or try again later.
StashTry ==
  /\ RTAt("stash")
  /\ IF state[rtImpl] = "none"
     THEN /\ state' = [state EXCEPT ![rtImpl] = "lock"]
          /\ later' = [later EXCEPT ![rtImpl] = FALSE]
          /\ rt' = "stashSize"
          /\ UNCHANGED <<stashing, rtImpl>>
     ELSE /\ later' = [later EXCEPT ![rtImpl] = TRUE]
          /\ stashing' = TRUE
          /\ rt' = rtThen
          /\ rtImpl' = IF rtThen = "ready" THEN 1 ELSE rtImpl + 1
          /\ UNCHANGED state
  /\ UNCHANGED <<value, stash, restoring, rtThen, hostVars, saved>>

StashSize ==
  /\ RTAt("stashSize")
  /\ stash' = [stash EXCEPT ![rtImpl].size = value[rtImpl].size]
  /\ rt' = "stashBody"
  /\ UNCHANGED <<state, value, later, stashing, restoring, rtImpl, rtThen,
                 hostVars, saved>>

StashBody ==
  /\ RTAt("stashBody")
  /\ stash' = [stash EXCEPT ![rtImpl].body = value[rtImpl].body]
  /\ rt' = "stashUnlock"
  /\ UNCHANGED <<state, value, later, stashing, restoring, rtImpl, rtThen,
                 hostVars, saved>>

StashUnlock ==
  /\ RTAt("stashUnlock")
  /\ state' = [state EXCEPT ![rtImpl] = "none"]
  /\ rt' = rtThen
  /\ rtImpl' = IF rtThen = "ready" THEN 1 ELSE rtImpl + 1
  /\ UNCHANGED <<value, stash, later, stashing, restoring, rtThen, hostVars,
                 saved>>

-----------------------------------------------------------------------------
(* The real-time thread: a property is set by a message (_props_impl_set   *)
(* in props_advance), or by the plugin itself followed by props_set or     *)
(* props_stash.                                                            *)

Set(i, v) ==
  /\ RTAt("ready")
  /\ value' = [value EXCEPT ![i] = Whole(v)]
  /\ rt' = "stash" /\ rtImpl' = i /\ rtThen' = "ready"
  /\ UNCHANGED <<state, stash, later, stashing, restoring, hostVars, saved>>

-----------------------------------------------------------------------------
(* The real-time thread: props_idle, first thing in each run().            *)

\* _props_restoring_get: an exchange with false.
IdleBegin ==
  /\ RTAt("ready")
  /\ restoring' = FALSE
  /\ rt' = IF restoring THEN "restore" ELSE "check"
  /\ UNCHANGED <<state, value, stash, later, stashing, rtImpl, rtThen,
                 hostVars, saved>>

\* The loop over all properties: _props_impl_restore tries to lock those in
\* state RESTORE.
RestoreTry ==
  /\ RTAt("restore") /\ rtImpl <= N
  /\ IF state[rtImpl] = "restore"
     THEN /\ state' = [state EXCEPT ![rtImpl] = "lock"]
          /\ later' = [later EXCEPT ![rtImpl] = FALSE]
          /\ rt' = "takeSize"
          /\ UNCHANGED rtImpl
     ELSE /\ rtImpl' = rtImpl + 1
          /\ UNCHANGED <<state, later, rt>>
  /\ UNCHANGED <<value, stash, stashing, restoring, rtThen, hostVars, saved>>

TakeSize ==
  /\ RTAt("takeSize")
  /\ value' = [value EXCEPT ![rtImpl].size = stash[rtImpl].size]
  /\ rt' = "takeBody"
  /\ UNCHANGED <<state, stash, later, stashing, restoring, rtImpl, rtThen,
                 hostVars, saved>>

TakeBody ==
  /\ RTAt("takeBody")
  /\ value' = [value EXCEPT ![rtImpl].body = stash[rtImpl].body]
  /\ rt' = "takeUnlock"
  /\ UNCHANGED <<state, stash, later, stashing, restoring, rtImpl, rtThen,
                 hostVars, saved>>

TakeUnlock ==
  /\ RTAt("takeUnlock")
  /\ state' = [state EXCEPT ![rtImpl] = "none"]
  /\ rt' = "restore" /\ rtImpl' = rtImpl + 1
  /\ UNCHANGED <<value, stash, later, stashing, restoring, rtThen, hostVars, saved>>

RestoreDone ==
  /\ RTAt("restore") /\ rtImpl > N
  /\ rt' = "check" /\ rtImpl' = 1
  /\ UNCHANGED <<state, value, stash, later, stashing, restoring, rtThen,
                 hostVars, saved>>

\* if(props->stashing)
CheckStashing ==
  /\ RTAt("check")
  /\ stashing' = FALSE
  /\ rt' = IF stashing THEN "later" ELSE "ready"
  /\ UNCHANGED <<state, value, stash, later, restoring, rtImpl, rtThen,
                 hostVars, saved>>

\* The loop over all properties stashes those that are to be.
LaterTry ==
  /\ RTAt("later") /\ rtImpl <= N
  /\ IF later[rtImpl]
     THEN rt' = "stash" /\ rtThen' = "later" /\ UNCHANGED rtImpl
     ELSE rtImpl' = rtImpl + 1 /\ UNCHANGED <<rt, rtThen>>
  /\ UNCHANGED <<state, value, stash, later, stashing, restoring, hostVars,
                 saved>>

\* Mutant: the flag is lowered after the loop, which may have raised it.
LaterDoneLowers ==
  /\ RTAt("later") /\ rtImpl > N
  /\ rt' = "ready" /\ rtImpl' = 1 /\ rtThen' = "ready"
  /\ stashing' = FALSE
  /\ UNCHANGED <<state, value, stash, later, restoring, hostVars, saved>>

LaterDone ==
  /\ RTAt("later") /\ rtImpl > N
  /\ rt' = "ready" /\ rtImpl' = 1 /\ rtThen' = "ready"
  /\ UNCHANGED <<state, value, stash, later, stashing, restoring, hostVars,
                 saved>>

Stash == StashTry \/ StashSize \/ StashBody \/ StashUnlock
Restore == RestoreTry \/ TakeSize \/ TakeBody \/ TakeUnlock \/ RestoreDone
Later == CheckStashing \/ LaterTry \/ LaterDone

RealTime == \/ \E i \in Impls, v \in Values : Set(i, v)
            \/ IdleBegin \/ Stash \/ Restore \/ Later

-----------------------------------------------------------------------------
(* The host's thread: props_save and props_restore go over the properties  *)
(* that are not read-only.                                                 *)

rest == <<calls, stash, later, stashing, value, rtVars>>

Begin(call) ==
  /\ HostAt("idle")
  /\ host' = "next" /\ hostCall' = call /\ hostImpl' = 1
  /\ UNCHANGED <<state, restoring, expected, copy, rest, saved>>

\* A read-only property is skipped, and one of which the host has nothing to
\* restore, or nothing of the right type and size.
Skip ==
  /\ HostAt("next") /\ hostImpl <= N
  /\ hostImpl \notin Writable \/ hostCall = "restore"
  /\ hostImpl' = hostImpl + 1
  /\ UNCHANGED <<state, restoring, host, hostCall, expected, copy, rest,
                 saved>>

\* On to _props_impl_spin_lock(impl, NONE, LOCK), a new value in hand when
\* restoring.
Choose(v) ==
  /\ HostAt("next") /\ hostImpl \in Writable
  /\ copy' = IF hostCall = "restore" THEN Whole(v) ELSE None
  /\ expected' = "none"
  /\ host' = "spin"
  /\ UNCHANGED <<state, restoring, hostCall, hostImpl, rest, saved>>

\* One compare-and-exchange.  When it fails, it leaves the state it found in
\* expected, for the next to compare with.
Spin ==
  /\ HostAt("spin")
  /\ IF state[hostImpl] = expected
     THEN /\ state' = [state EXCEPT ![hostImpl] = "lock"]
          /\ host' = "size"
          /\ UNCHANGED expected
     ELSE /\ expected' = state[hostImpl]
          /\ UNCHANGED <<state, host>>
  /\ UNCHANGED <<restoring, hostCall, hostImpl, copy, rest, saved>>

\* The stash is copied from (save), or to (restore).
CopySize ==
  /\ HostAt("size")
  /\ IF hostCall = "save"
     THEN copy' = [copy EXCEPT !.size = stash[hostImpl].size] /\ UNCHANGED stash
     ELSE stash' = [stash EXCEPT ![hostImpl].size = copy.size] /\ UNCHANGED copy
  /\ host' = "body"
  /\ UNCHANGED <<calls, state, value, later, stashing, restoring, rtVars, hostCall,
                 hostImpl, expected, saved>>

CopyBody ==
  /\ HostAt("body")
  /\ IF hostCall = "save"
     THEN copy' = [copy EXCEPT !.body = stash[hostImpl].body] /\ UNCHANGED stash
     ELSE stash' = [stash EXCEPT ![hostImpl].body = copy.body] /\ UNCHANGED copy
  /\ host' = "unlock"
  /\ UNCHANGED <<calls, state, value, later, stashing, restoring, rtVars, hostCall,
                 hostImpl, expected, saved>>

\* A save unlocks to NONE and stores its copy, a restore unlocks to RESTORE.
Unlock ==
  /\ HostAt("unlock")
  /\ IF hostCall = "save"
     THEN /\ state' = [state EXCEPT ![hostImpl] = "none"]
          /\ saved' = copy
     ELSE /\ state' = [state EXCEPT ![hostImpl] = "restore"]
          /\ UNCHANGED saved
  /\ host' = "next" /\ hostImpl' = hostImpl + 1 /\ copy' = None
  /\ UNCHANGED <<restoring, hostCall, expected, rest>>

\* Mutant: the real-time thread is told only when the last property was
\* restored.
EndLast ==
  /\ HostAt("next") /\ hostImpl > N
  /\ restoring' = (restoring \/ (hostCall = "restore" /\ state[N] = "restore"))
  /\ host' = "idle" /\ hostImpl' = 1 /\ expected' = "none"
  /\ UNCHANGED <<state, hostCall, copy, rest, saved>>

\* The call returns; a restore tells the real-time thread.
End ==
  /\ HostAt("next") /\ hostImpl > N
  /\ restoring' = (restoring \/ hostCall = "restore")
  /\ host' = "idle" /\ hostImpl' = 1 /\ expected' = "none"
  /\ UNCHANGED <<state, hostCall, copy, rest, saved>>

HostStep == Skip \/ Spin \/ CopySize \/ CopyBody \/ Unlock \/ End
              \/ \E v \in Values : Choose(v)

Host == HostStep \/ \E call \in calls : Begin(call)

Next == RealTime \/ Host

Spec == Init /\ [][Next]_vars

\* The host calls run() again and again, and run() begins with props_idle;
\* run() is never left in the middle, and neither is a call of the host.
RealTimeFairness == /\ SF_vars(IdleBegin)
                    /\ WF_vars(Stash \/ Restore \/ Later)
HostFairness == WF_vars(HostStep)

FairSpec == Spec /\ RealTimeFairness /\ HostFairness

-----------------------------------------------------------------------------
(* What makes it correct.                                                  *)

\* Where each thread can be, the flags, and the values.
RTSteps == {"ready", "stash", "stashSize", "stashBody", "stashUnlock", "restore",
            "takeSize", "takeBody", "takeUnlock", "check", "later"}
HostSteps == {"idle", "next", "spin", "size", "body", "unlock"}
RTTypes ==
  /\ rt \in RTSteps
  /\ rtImpl \in 1..(N + 1) /\ rtThen \in {"ready", "later"}
HostTypes ==
  /\ calls \in Hosts
  /\ host \in HostSteps
  /\ hostCall \in {"save", "restore"} /\ hostImpl \in 1..(N + 1)
FlagTypes ==
  /\ state \in [Impls -> {"none", "lock", "restore"}]
  /\ expected \in {"none", "lock", "restore"}
  /\ later \in [Impls -> BOOLEAN] /\ stashing \in BOOLEAN
  /\ restoring \in BOOLEAN
ValueTypes ==
  /\ value \in [Impls -> Pair] /\ stash \in [Impls -> Pair]
  /\ copy \in [size : Values \cup {Nothing}, body : Values \cup {Nothing}]
  /\ saved \in [size : Values \cup {Nothing}, body : Values \cup {Nothing}]

\* The state has its types (props.h:76-94, 136-147).
TypeOK == RTTypes /\ HostTypes /\ FlagTypes /\ ValueTypes

\* The real-time thread is in _props_impl_stash.
StashSteps == {"stash", "stashSize", "stashBody", "stashUnlock"}

\* A property that is to be stashed later is never forgotten: either the flag
\* that makes props_idle look for it is up, or its loop is yet to come to it
\* (props.h:440-456, 649-660: the flag is lowered before the loop, which may
\* raise it again).
LaterIsNoticed ==
  \A i \in Impls : later[i] =>
    \/ stashing
    \/ rt = "later" /\ rtImpl <= i
    \/ rt \in StashSteps /\ rtThen = "later" /\ rtImpl <= i

\* Is the real-time thread about to stash property i, or stashing it?
Stashes(i) == rt \in StashSteps /\ rtImpl = i

\* The stash, which is what a save stores, differs from the value only while
\* somebody is going to make them equal (props.h:440-491), for a host that does
\* not restore meanwhile: its spin lock may take the stash from the real-time
\* thread.
StashFollows ==
  "restore" \notin calls =>
    \A i \in Impls : value[i] # stash[i] => later[i] \/ Stashes(i)

\* What the host stores of a property is one of its values, never the size of
\* one with the body of another (props.h:1094-1100).
SavedWhole == saved.size = saved.body

\* The real-time thread finds every restored value: it is going to look for
\* them, is looking and has not passed it, or the host has not returned yet
\* (props.h:639-647, 1217: the flag is raised after the last property).
RestoreNoticed ==
  \A i \in Impls : state[i] = "restore" =>
    \/ restoring
    \/ hostCall = "restore" /\ host # "idle"
    \/ rt \in {"restore", "takeSize", "takeBody", "takeUnlock"}
         /\ rtImpl <= i

\* Once the host saves no more, the stash catches up with the value
\* (props.h:649-660).  While it goes on saving it may hold the lock each time
\* the real-time thread tries.
StashSettles ==
  <>[](host = "idle") => \A i \in Impls : (later[i] ~> ~later[i])

\* A value marked as restored does not stay so, as long as the host's calls
\* return (its spinning has no bound): the real-time thread takes it over, or
\* the host's next call finds it (props.h:639-647).
RestoreTaken ==
  []<>(host = "idle") =>
    \A i \in Impls : state[i] = "restore" ~> state[i] # "restore"

\* What either thread has left for the other is seen to.
Settles == StashSettles /\ RestoreTaken
=============================================================================
