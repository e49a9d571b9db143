--------------------------- MODULE ChannelServer ---------------------------
(***************************************************************************)
(* The adapter that serves the local API over one WebRTC data channel      *)
(* (src/webrtc/channelServer.ts) with the frames and the reassembly of     *)
(* src/webrtc/frameCodec.ts.                                               *)
(*                                                                         *)
(* The channel is ordered and reliable and the peer may send anything.     *)
(* inFlight is the table by request id; run[n] is the n-th request that    *)
(* entered it, which goes on being served when it leaves the table early.  *)
(* A body is the number of its chunks, and `body` the promise of it.       *)
(***************************************************************************)
EXTENDS Naturals, FiniteSets

CONSTANTS
  Ids,            \* request ids that the peer uses
  MaxConcurrent,  \* maxConcurrentRequests
  MaxBody,        \* maxRequestBodyBytes, in chunks
  MaxRuns         \* bound: requests that are accepted

ASSUME IdsAssumption == 0 \notin Ids
ASSUME BoundsAssumption == MaxBody \in Nat /\ MaxRuns \in Nat

VARIABLES
  server,      \* none, open or closed
  verified,    \* identityHandshakeComplete
  inFlight,    \* the run in the table under each id, or 0
  run,         \* the requests that have been accepted
  accepted     \* how many there are

channelVars == <<server, verified, inFlight, run, accepted>>

Runs == 1..MaxRuns
NoRun == [id |-> 0, pc |-> "none", body |-> "pending", size |-> 0, verified |-> FALSE,
          cancelled |-> FALSE, invalid |-> FALSE, displaced |-> FALSE, answers |-> 0]

Run == [id: Ids \cup {0},
        pc: {"none", "authorizing", "reading", "working", "streaming", "done"},
        body: {"pending", "ok", "rejected"}, size: 0..MaxBody + 1,
        verified: BOOLEAN, cancelled: BOOLEAN, invalid: BOOLEAN,
        displaced: BOOLEAN, answers: 0..2]

ChannelTypeOK ==
  /\ server \in {"none", "open", "closed"}
  /\ verified \in BOOLEAN
  /\ inFlight \in [Ids -> 0..MaxRuns]
  /\ run \in [Runs -> Run]
  /\ accepted \in 0..MaxRuns

ChannelInit ==
  /\ server = "none"
  /\ verified = FALSE
  /\ inFlight = [i \in Ids |-> 0]
  /\ run = [n \in Runs |-> NoRun]
  /\ accepted = 0

InTable == {n \in Runs : \E i \in Ids : inFlight[i] = n}
Unfinished(n) == run[n].pc \notin {"none", "done"}
Rejected(body) == IF body = "pending" THEN "rejected" ELSE body

-----------------------------------------------------------------------------
(* Frames of the peer *)

OpenServer ==
  /\ server = "none"
  /\ server' = "open"
  /\ UNCHANGED <<verified, inFlight, run, accepted>>

\* An id in the table is refused, and so is a request too many.
Acceptable(i) == inFlight[i] = 0 /\ Cardinality(InTable) < MaxConcurrent

\* onRequestHead: a final head has an empty body.
RequestHead(i, final) ==
  LET n == accepted + 1 IN
  /\ server = "open" /\ accepted < MaxRuns
  /\ Acceptable(i)
  /\ accepted' = n
  /\ inFlight' = [inFlight EXCEPT ![i] = n]
  /\ run' = [run EXCEPT ![n] = [NoRun EXCEPT !.id = i, !.pc = "authorizing", !.verified = verified,
                                             !.body = IF final THEN "ok" ELSE "pending"]]
  /\ UNCHANGED <<server, verified>>

\* onRequestChunk: a body that is too long, or whose length or checksum is
\* wrong, is answered with an error and leaves the table; its promise fails.
RequestChunk(i, final, intact) ==
  LET n == inFlight[i]
      size == run[n].size + 1
      bad == size > MaxBody \/ (final /\ ~intact)
  IN
  /\ server = "open" /\ n # 0
  /\ IF bad
     THEN /\ run' = [run EXCEPT ![n].body = Rejected(@), ![n].size = size,
                                ![n].invalid = TRUE, ![n].answers = @ + 1]
          /\ inFlight' = [inFlight EXCEPT ![i] = 0]
     ELSE /\ run' = [run EXCEPT ![n].size = size, ![n].body = IF final THEN "ok" ELSE @]
          /\ UNCHANGED inFlight
  /\ UNCHANGED <<server, verified, accepted>>

\* onCancel.
Cancel(i) ==
  LET n == inFlight[i] IN
  /\ server = "open" /\ n # 0
  /\ run' = [run EXCEPT ![n].cancelled = TRUE, ![n].body = Rejected(@)]
  /\ inFlight' = [inFlight EXCEPT ![i] = 0]
  /\ UNCHANGED <<server, verified, accepted>>

\* answerIdentityChallenge: answered without entering the table.
IdentityChallenge ==
  /\ server = "open" /\ ~verified
  /\ verified' = TRUE
  /\ UNCHANGED <<server, inFlight, run, accepted>>

\* close(): every entry of the table is cancelled.
Close ==
  /\ server' = "closed"
  /\ run' = [n \in Runs |-> IF n \in InTable
                            THEN [run[n] EXCEPT !.cancelled = TRUE, !.body = Rejected(@)] ELSE run[n]]
  /\ inFlight' = [i \in Ids |-> 0]
  /\ UNCHANGED <<verified, accepted>>

\* The deadline of the handshake, and a frame of another protocol version.
ProofTimeout == server = "open" /\ ~verified /\ Close
VersionMismatch == server = "open" /\ Close

-----------------------------------------------------------------------------
(* runRequest *)

\* The finally of runRequest deletes by id, whoever holds the id by then.
Delete(n) == inFlight' = [inFlight EXCEPT ![run[n].id] = 0]

\* A request ends, with a final frame if it sends one on an open channel.
Finish(n, sends) ==
  LET holder == inFlight[run[n].id]
      frames == IF sends /\ server = "open" THEN 1 ELSE 0
      done == [run EXCEPT ![n] = [NoRun EXCEPT !.pc = "done", !.cancelled = run[n].cancelled,
                                    !.invalid = run[n].invalid, !.answers = run[n].answers + frames]]
  IN
  /\ run' = IF holder \notin {0, n} THEN [done EXCEPT ![holder].displaced = TRUE] ELSE done
  /\ Delete(n)
  /\ UNCHANGED <<server, verified, accepted>>

Proceed(n, pc) ==
  /\ run' = [run EXCEPT ![n].pc = pc]
  /\ UNCHANGED <<server, verified, inFlight, accepted>>

\* Fault: an exception of the dispatcher is not answered.
Refuse_Silently(n) == run[n].pc = "authorizing" /\ Finish(n, FALSE)

\* dispatchLocalRequest refuses; without a handshake it always does.
Refuse(n) == run[n].pc = "authorizing" /\ Finish(n, ~run[n].cancelled)

\* The handler asks for the body, or its JSON came with the head.
Serve(n) ==
  /\ run[n].pc = "authorizing" /\ run[n].verified
  /\ \E pc \in {"reading", "working"} : Proceed(n, pc)

\* A rejected body is no typed error: internal_error is sent.
ReadBody(n) ==
  /\ run[n].pc = "reading"
  /\ \/ run[n].body = "ok" /\ Proceed(n, "working")
     \/ run[n].body = "rejected" /\ Finish(n, ~run[n].cancelled)

\* Fault: the head of a stream is marked as final.
Respond_FinalHead(n) ==
  /\ run[n].pc = "working"
  /\ run' = [run EXCEPT ![n].pc = "streaming", ![n].answers = @ + 1]
  /\ UNCHANGED <<server, verified, inFlight, accepted>>

\* The operation is over: one frame, or a stream unless it was cancelled.
Respond(n) ==
  /\ run[n].pc = "working"
  /\ \/ Finish(n, ~run[n].cancelled)
     \/ ~run[n].cancelled /\ Proceed(n, "streaming")

\* The stream is not looked at again: it ends with its final chunk.
StreamEnds(n) == run[n].pc = "streaming" /\ Finish(n, TRUE)

RunStep(n) == Refuse(n) \/ Serve(n) \/ ReadBody(n) \/ Respond(n) \/ StreamEnds(n)

Frame ==
  \/ \E i \in Ids : \/ \E final \in BOOLEAN : RequestHead(i, final)
                    \/ \E final, intact \in BOOLEAN : RequestChunk(i, final, intact)
                    \/ Cancel(i)
  \/ IdentityChallenge \/ VersionMismatch

-----------------------------------------------------------------------------
(* Properties *)

\* A request is answered once; one whose body was bad is answered for the body
\* and may be answered again for the operation that was waiting for it.
AnsweredOnce == \A n \in Runs : run[n].answers <= IF run[n].invalid THEN 2 ELSE 1

\* A request whose body has arrived is answered, unless it was cancelled or
\* the channel has closed.
RequestsAnswered ==
  \A n \in Runs : (Unfinished(n) /\ run[n].body = "ok") ~>
                    (run[n].answers > 0 \/ run[n].cancelled \/ server = "closed")

=============================================================================
