---------------------------- MODULE ManagedPins ----------------------------
(***************************************************************************)
(* The durable pin-ownership ledger of the node (src/ipfs/managedPins.ts)  *)
(* over one Kubo repository.                                               *)
(*                                                                         *)
(* Every operation on a CID runs under that CID's lock (`exclusive`), so   *)
(* op[c] is the one operation that holds c's lock.  An operation is a      *)
(* sequence of awaits: a Kubo RPC, or a LocalStore update that is either   *)
(* durable or fails without effect.  The node can crash between any two.   *)
(* An RPC that is abandoned (timeout, lost connection, crash) may still be *)
(* executed by Kubo later: it becomes a straggler in late[c].              *)
(***************************************************************************)
EXTENDS Naturals

CONSTANTS
  Cids,        \* canonical CIDs
  Owners,      \* opaque owner names (archive:, spatial:, provider-input: ...)
  Sweepers     \* callers of reconcile() that can be active at the same time

ASSUME CallersAssumption == Owners \cap Sweepers = {}

VARIABLES
  ledger,   \* managedPins in the durable state; state "none": no record
  op,       \* the operation holding each CID's lock
  sweep,    \* the CIDs each running reconcile() has still to visit
  refs,     \* CIDs that desiredCids, spatial or legacy records refer to
  pins,     \* CIDs pinned in Kubo
  late,     \* abandoned RPCs per CID that Kubo may still execute
  allowUnpin  \* KUBUS_MANAGED_PIN_RELEASE_ENABLED of the running process

pinVars == <<ledger, op, sweep, refs, pins, late, allowUnpin>>

Ownership == {"created", "preexisting", "unknown"}
UnderReview == {"releasing", "release_uncertain"}
PinStates == {"none", "pending", "pinned", "release_pending", "retained",
              "released"} \cup UnderReview

Nobody == "nobody"
Unlocked == [pc |-> "idle", by |-> Nobody, ownership |-> "unknown"]
NoRecord == [state |-> "none", ownership |-> "unknown", owners |-> {}]

\* The awaits of an operation: RPCs in flight, and updates about to be saved.
RpcPcs == {"probe", "add", "rm"}
UpdatePcs == {"journal", "confirm", "retain", "defer", "releasing",
              "removed", "rejected", "uncertain"}
\* acquire() runs through these.
AcquirePcs == {"probe", "journal", "add", "confirm"}
\* From the decision to remove a pin to the recording of what came of it.
RemovalPcs == {"releasing", "rm", "removed", "rejected", "uncertain"}
Pcs == {"idle", "decide"} \cup RpcPcs \cup UpdatePcs

PinRecords == [state: PinStates, ownership: Ownership, owners: SUBSET Owners]
Operations == [pc: Pcs, by: Owners \cup Sweepers \cup {Nobody}, ownership: Ownership]

\* Every variable has its type, and only owners acquire.
PinsTypeOK ==
  /\ ledger \in [Cids -> PinRecords]
  /\ op \in [Cids -> Operations]
  /\ \A c \in Cids : op[c].pc \in AcquirePcs => op[c].by \in Owners
  /\ sweep \in [Sweepers -> SUBSET Cids]
  /\ refs \in SUBSET Cids
  /\ pins \in SUBSET Cids
  /\ late \in [Cids -> SUBSET {"add", "rm"}]
  /\ allowUnpin \in BOOLEAN

PinsInit ==
  /\ ledger = [c \in Cids |-> NoRecord]
  /\ op = [c \in Cids |-> Unlocked]
  /\ sweep = [s \in Sweepers |-> {}]
  /\ refs \in SUBSET Cids
  /\ pins \in SUBSET Cids
  /\ late = [c \in Cids |-> {}]
  /\ allowUnpin \in BOOLEAN

-----------------------------------------------------------------------------
Await(c, pc) == op' = [op EXCEPT ![c].pc = pc]
Unlock(c) == op' = [op EXCEPT ![c] = Unlocked]
Save(c, state) == ledger' = [ledger EXCEPT ![c].state = state]

(* acquire *)

\* Fault: a CID with a release outstanding is refused.
BeginAcquire_NotWhilePending(c, o) ==
  /\ op[c] = Unlocked
  /\ ledger[c].state \notin UnderReview \cup {"release_pending"}
  /\ op' = [op EXCEPT ![c] =
       [pc |-> IF ledger[c].state \in {"none", "released", "pending"}
               THEN "probe" ELSE "journal",
        by |-> o, ownership |-> ledger[c].ownership]]
  /\ UNCHANGED <<ledger, sweep, refs, pins, late, allowUnpin>>

BeginAcquire(c, o) ==
  /\ op[c] = Unlocked
  /\ ledger[c].state \notin UnderReview
  /\ op' = [op EXCEPT ![c] =
       [pc |-> IF ledger[c].state \in {"none", "released", "pending"}
               THEN "probe" ELSE "journal",
        by |-> o, ownership |-> ledger[c].ownership]]
  /\ UNCHANGED <<ledger, sweep, refs, pins, late, allowUnpin>>

ProbeOwnership(c) ==
  /\ op[c].pc = "probe"
  /\ \E answer \in {"unknown", IF c \in pins THEN "preexisting" ELSE "created"} :
       op' = [op EXCEPT ![c] =
                [pc |-> "journal", by |-> op[c].by, ownership |-> answer]]
  /\ UNCHANGED <<ledger, sweep, refs, pins, late, allowUnpin>>

JournalOwner(c) ==
  /\ op[c].pc = "journal"
  /\ ledger' = [ledger EXCEPT ![c] =
       [state |-> "pending", ownership |-> op[c].ownership,
        owners |-> ledger[c].owners \cup {op[c].by}]]
  /\ Await(c, "add")
  /\ UNCHANGED <<sweep, refs, pins, late, allowUnpin>>

PinAdd(c) ==
  /\ op[c].pc = "add"
  /\ pins' = pins \cup {c}
  /\ Await(c, "confirm")
  /\ UNCHANGED <<ledger, sweep, refs, late, allowUnpin>>

\* The request failed: it had no effect, or Kubo may still carry it out.  The
\* error handler changes only the record's reason.
PinAddFails(c) ==
  /\ op[c].pc = "add"
  /\ \E straggler \in {{}, {"add"}} :
       late' = [late EXCEPT ![c] = @ \cup straggler]
  /\ Unlock(c)
  /\ UNCHANGED <<ledger, sweep, refs, pins, allowUnpin>>

ConfirmPinned(c) ==
  /\ op[c].pc = "confirm"
  /\ Save(c, "pinned")
  /\ Unlock(c)
  /\ UNCHANGED <<sweep, refs, pins, late, allowUnpin>>

-----------------------------------------------------------------------------
(* release, reconcile and their common tail releaseUnreferenced *)

EnterDecide(c, who) ==
  op' = [op EXCEPT ![c] = [pc |-> "decide", by |-> who, ownership |-> "unknown"]]

Release(c, o) ==
  /\ op[c] = Unlocked
  /\ ledger[c].state \notin UnderReview \cup {"none"}
  /\ o \in ledger[c].owners \/ ledger[c].state = "release_pending"
  /\ LET rest == ledger[c].owners \ {o} IN
       ledger' = [ledger EXCEPT ![c] =
         [state |-> IF rest = {} THEN "release_pending" ELSE ledger[c].state,
          ownership |-> ledger[c].ownership, owners |-> rest]]
  /\ EnterDecide(c, o)
  /\ UNCHANGED <<sweep, refs, pins, late, allowUnpin>>

\* reconcile() selects its work once, from one snapshot.  Which pending
\* records it selects depends on the ownerPrefix argument.
BeginSweep(s) ==
  /\ sweep[s] = {}
  /\ \A c \in Cids : op[c].by # s
  /\ \E chosen \in SUBSET {c \in Cids : ledger[c].state = "release_pending"} :
       /\ chosen # {}
       /\ sweep' = [sweep EXCEPT ![s] = chosen]
  /\ UNCHANGED <<ledger, op, refs, pins, late, allowUnpin>>

\* It then visits them one after the other, each under its lock.
SweepNext(s, c) ==
  /\ c \in sweep[s]
  /\ op[c] = Unlocked
  /\ \A d \in Cids : op[d].by # s
  /\ sweep' = [sweep EXCEPT ![s] = @ \ {c}]
  /\ EnterDecide(c, s)
  /\ UNCHANGED <<ledger, refs, pins, late, allowUnpin>>

\* Fault: the remaining owners are not looked at.
Decide_IgnoreOwners(c) ==
  /\ op[c].pc = "decide"
  /\ IF ledger[c].state = "none" \/ c \in refs
     THEN Unlock(c)
     ELSE Await(c, IF ledger[c].ownership # "created" THEN "retain"
                   ELSE IF allowUnpin THEN "releasing" ELSE "defer")
  /\ UNCHANGED <<ledger, sweep, refs, pins, late, allowUnpin>>

Decide(c) ==
  /\ op[c].pc = "decide"
  /\ IF ledger[c].state = "none" \/ ledger[c].owners # {} \/ c \in refs
     THEN Unlock(c)
     ELSE Await(c, IF ledger[c].ownership # "created" THEN "retain"
                   ELSE IF allowUnpin THEN "releasing" ELSE "defer")
  /\ UNCHANGED <<ledger, sweep, refs, pins, late, allowUnpin>>

Retain(c) ==
  /\ op[c].pc = "retain"
  /\ Save(c, "retained")
  /\ Unlock(c)
  /\ UNCHANGED <<sweep, refs, pins, late, allowUnpin>>

Defer(c) ==
  /\ op[c].pc = "defer"
  /\ Save(c, "release_pending")
  /\ Unlock(c)
  /\ UNCHANGED <<sweep, refs, pins, late, allowUnpin>>

JournalReleasing(c) ==
  /\ op[c].pc = "releasing"
  /\ Save(c, "releasing")
  /\ Await(c, "rm")
  /\ UNCHANGED <<sweep, refs, pins, late, allowUnpin>>

\* Kubo acknowledged: the pin is gone, or it answered "not pinned".
PinRm(c) ==
  /\ op[c].pc = "rm"
  /\ pins' = pins \ {c}
  /\ Await(c, "removed")
  /\ UNCHANGED <<ledger, sweep, refs, late, allowUnpin>>

\* A complete error response of Kubo itself.
PinRmRejected(c) ==
  /\ op[c].pc = "rm"
  /\ Await(c, "rejected")
  /\ UNCHANGED <<ledger, sweep, refs, pins, late, allowUnpin>>

\* Timeout, lost connection, incomplete response or a gateway's 502/503/504.
PinRmUncertain(c) ==
  /\ op[c].pc = "rm"
  /\ \E straggler \in {{}, {"rm"}} :
       late' = [late EXCEPT ![c] = @ \cup straggler]
  /\ Await(c, "uncertain")
  /\ UNCHANGED <<ledger, sweep, refs, pins, allowUnpin>>

\* The last update of a removal records its outcome.
RecordOutcome(c) ==
  /\ \/ op[c].pc = "removed" /\ Save(c, "released")
     \/ op[c].pc = "rejected" /\ Save(c, "release_pending")
     \/ op[c].pc = "uncertain" /\ Save(c, "release_uncertain")
  /\ Unlock(c)
  /\ UNCHANGED <<sweep, refs, pins, late, allowUnpin>>

-----------------------------------------------------------------------------
(* Failures and the environment *)

\* LocalStore.update rejects: nothing is published and the operation throws.
UpdateFails(c) ==
  /\ op[c].pc \in UpdatePcs
  /\ Unlock(c)
  /\ UNCHANGED <<ledger, sweep, refs, pins, late, allowUnpin>>

\* The process dies and restarts from its durable state, perhaps with the switch
\* set otherwise.
NodeCrash ==
  /\ \E lost \in SUBSET {c \in Cids : op[c].pc \in {"add", "rm"}} :
       late' = [c \in Cids |->
                  IF c \in lost THEN late[c] \cup {op[c].pc} ELSE late[c]]
  /\ op' = [c \in Cids |-> Unlocked]
  /\ sweep' = [s \in Sweepers |-> {}]
  /\ allowUnpin' \in BOOLEAN
  /\ UNCHANGED <<ledger, refs, pins>>

\* Kubo carries out a request whose caller has given up.
Straggler(c) ==
  /\ \/ /\ "add" \in late[c]
        /\ late' = [late EXCEPT ![c] = @ \ {"add"}]
        /\ pins' = pins \cup {c}
     \/ /\ "rm" \in late[c]
        /\ late' = [late EXCEPT ![c] = @ \ {"rm"}]
        /\ pins' = pins \ {c}
  /\ UNCHANGED <<ledger, op, sweep, refs, allowUnpin>>

\* The operator, or another program, pins a CID that Kubo does not hold.
ExternalPin(c) ==
  /\ c \notin pins
  /\ pins' = pins \cup {c}
  /\ UNCHANGED <<ledger, op, sweep, refs, late, allowUnpin>>

\* A new archive plan, or a new spatial record, changes what is referenced.
ChangeReference(c) ==
  /\ refs' = IF c \in refs THEN refs \ {c} ELSE refs \cup {c}
  /\ UNCHANGED <<ledger, op, sweep, pins, late, allowUnpin>>

PinStep(c) ==
  \/ \E o \in Owners : BeginAcquire(c, o) \/ Release(c, o)
  \/ ProbeOwnership(c) \/ JournalOwner(c) \/ PinAdd(c) \/ PinAddFails(c)
  \/ ConfirmPinned(c)
  \/ \E s \in Sweepers : SweepNext(s, c)
  \/ Decide(c) \/ Retain(c) \/ Defer(c) \/ JournalReleasing(c)
  \/ PinRm(c) \/ PinRmRejected(c) \/ PinRmUncertain(c) \/ RecordOutcome(c)
  \/ UpdateFails(c) \/ Straggler(c) \/ ExternalPin(c) \/ ChangeReference(c)

PinsNext ==
  \/ \E c \in Cids : PinStep(c)
  \/ \E s \in Sweepers : BeginSweep(s)
  \/ NodeCrash

PinsSpec == PinsInit /\ [][PinsNext]_pinVars

\* No running reconcile() still has to visit a CID whose removal has been
\* journaled since reconcile() took its snapshot.  Nothing in the code ensures
\* this; FreshSpec is the ledger in the absence of such overlaps.
FreshSweeps ==
  \A s \in Sweepers : \A c \in sweep[s] : ledger[c].state \notin UnderReview

FreshSpec == PinsInit /\ [][PinsNext /\ FreshSweeps']_pinVars

-----------------------------------------------------------------------------
(* What the ledger promises *)

\* A record in state 'pinned' is backed by a pin in Kubo, and no abandoned
\* removal can take that pin away later: acquire() refuses a CID whose
\* removal was journaled and not acknowledged.
PinnedIsPinned ==
  \A c \in Cids : ledger[c].state = "pinned" =>
                    c \in pins /\ "rm" \notin late[c]

\* While releaseUnreferenced() is removing a pin, the record has no owner and
\* says that this node created the pin; and the activation switch is on.
RemovalJustified ==
  \A c \in Cids :
    op[c].pc \in RemovalPcs =>
      ledger[c].owners = {} /\ ledger[c].ownership = "created" /\ allowUnpin

\* No step of the node or of one of its stragglers removes a pin that its
\* record calls preexisting or unknown.
AdoptedPinsSurvive ==
  [][\A c \in Cids :
       /\ ledger[c].state # "none"
       /\ ledger[c].ownership # "created"
       /\ c \in pins
       => c \in pins']_pinVars

\* An unacknowledged removal is never retried and its CID never reacquired.
UncertainIsFinal ==
  [][\A c \in Cids : ledger[c].state = "release_uncertain" =>
                       ledger'[c].state = "release_uncertain"]_pinVars

\* While the activation switch is off no pin is removed, unless Kubo carries out
\* a removal that an earlier process, with the switch on, has abandoned.
NothingUnpinned ==
  [][~allowUnpin /\ (\A c \in Cids : "rm" \notin late[c]) => pins \subseteq pins']_pinVars

\* A CID that stays referenced is pinned again and again, unless an
\* unacknowledged removal has put it under review.
WantedGetsPinned ==
  \A c \in Cids :
    <>[](c \in refs) => []<>(ledger[c].state \in {"pinned"} \cup UnderReview)

\* The archive loop tries every desired CID on every pass, and the store and
\* Kubo do not fail each of infinitely many attempts.
PinsFairness ==
  \A c \in Cids :
    /\ SF_pinVars(c \in refs /\ \E o \in Owners : BeginAcquire(c, o))
    /\ SF_pinVars(ProbeOwnership(c)) /\ SF_pinVars(JournalOwner(c))
    /\ SF_pinVars(PinAdd(c)) /\ SF_pinVars(ConfirmPinned(c))
    /\ WF_pinVars(Decide(c)) /\ WF_pinVars(Retain(c)) /\ WF_pinVars(Defer(c))
    /\ WF_pinVars(JournalReleasing(c)) /\ WF_pinVars(RecordOutcome(c))
    /\ WF_pinVars(PinRm(c) \/ PinRmRejected(c) \/ PinRmUncertain(c))

FairPinsSpec == PinsSpec /\ PinsFairness
=============================================================================
