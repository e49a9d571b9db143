--------------------------- MODULE LocalApiProofs ---------------------------
(***************************************************************************)
(* The dispatcher's promises, for any sessions, keys, inputs and requests  *)
(* in service, and any size of the memory of recent mutations.             *)
(***************************************************************************)
EXTENDS LocalApi, FiniteSetTheorems, TLAPS

\* A leaf is first-order reasoning unless it says otherwise.
USE Zenon

-----------------------------------------------------------------------------
(* The invariants *)

\* A session has produced a credential exactly when one is on record, and what
\* can still be exchanged has produced none.
SessionInv(s) ==
  /\ issued[s] <= 1
  /\ issued[s] = 0 <=> credential[s] = "none"
  /\ session[s] \in {"none", "open", "expired"} => issued[s] = 0
  /\ s \in Grants <=> session[s] \in {"grant", "consumed"}

PairingInv ==
  /\ \A s \in Sessions : SessionInv(s)
  /\ \A r \in Requests : Is(r, "attach") => req[r].session \in Grants

\* An input is pinned before the backend is told, and let go of once its job
\* has ended.
InputInv(x) ==
  /\ step[x] \in {"submit", "record", "unconfirm"} => x \in pinned
  /\ step[x] \in {"release", "released"} => job[x] = "ended"
  /\ job[x] = "open" => x \in pinned

InputsInv == \A x \in Inputs : InputInv(x)

\* The requests that have claimed key k and not yet been carried out.
Claims(k) == {r \in Requests : req[r].pc \in {"again", "run", "remote"} /\ Key(r) = k}

\* Every effect and every outstanding claim of a key stands on an entry: the
\* one that is there, or one that was lost.
Covered(k) == effects[k] + Cardinality(Claims(k)) <= lost[k] + (IF Has(k) THEN 1 ELSE 0)

KeysInv == \A k \in Keys : Covered(k)

-----------------------------------------------------------------------------
(* The memory of recent mutations *)

HasIn(es, k) == \E i \in DOMAIN es : es[i].key = k

\* Map.set keeps every key, and adds the one it is given.
LEMMA SetFact ==
  ASSUME NEW es \in Seq(Entry), NEW e \in Entry
  PROVE /\ Set(es, e) \in Seq(Entry)
        /\ \A k : HasIn(es, k) \/ k = e.key => HasIn(Set(es, e), k)
<1>1. CASE \E i \in DOMAIN es : es[i].key = e.key
  <2> DEFINE f == [i \in DOMAIN es |-> IF es[i].key = e.key THEN e ELSE es[i]]
  <2>1. Set(es, e) = f
    BY <1>1 DEF Set
  <2>2. f \in Seq(Entry) /\ DOMAIN f = DOMAIN es
    BY SMT
  <2>3. \A k : HasIn(es, k) \/ k = e.key => HasIn(f, k)
    BY <1>1 DEF HasIn
  <2> QED BY <2>1, <2>2, <2>3
<1>2. CASE ~\E i \in DOMAIN es : es[i].key = e.key
  <2>1. Set(es, e) = Append(es, e)
    BY <1>2 DEF Set
  <2>2. /\ Append(es, e) \in Seq(Entry)
        /\ DOMAIN Append(es, e) = 1..Len(es) + 1
        /\ \A i \in DOMAIN es : Append(es, e)[i] = es[i]
        /\ Append(es, e)[Len(es) + 1] = e
    BY SMT
  <2>3. \A k : HasIn(es, k) \/ k = e.key => HasIn(Append(es, e), k)
    BY <2>2, SMT DEF HasIn
  <2> QED BY <2>1, <2>2, <2>3
<1> QED BY <1>1, <1>2

\* What stands where in two sequences of entries put together.
LEMMA ConcatAt ==
  ASSUME NEW s \in Seq(Entry), NEW t \in Seq(Entry)
  PROVE \A m \in 1 .. Len(s) + Len(t) : (s \o t)[m] = IF m <= Len(s) THEN s[m] ELSE t[m - Len(s)]
BY SMT

\* Taking one entry away takes away at most its key.
LEMMA RemoveFact ==
  ASSUME NEW es \in Seq(Entry), NEW i \in DOMAIN es
  PROVE /\ Delete(es, i) \in Seq(Entry)
        /\ \A k : HasIn(es, k) /\ k # es[i].key => HasIn(Delete(es, i), k)
<1> DEFINE f == Delete(es, i)
           a == SubSeq(es, 1, i - 1)
           b == SubSeq(es, i + 1, Len(es))
<1>0. i \in 1..Len(es) /\ Len(es) \in Nat
  BY SMT
<1>a. a \in Seq(Entry) /\ Len(a) = i - 1 /\ \A n \in 1..(i - 1) : a[n] = es[n]
  BY <1>0, SMT
<1>b. b \in Seq(Entry) /\ Len(b) = Len(es) - i /\ \A n \in 1..(Len(es) - i) : b[n] = es[n + i]
  BY <1>0, SMT
<1>l. /\ Len(a) = i - 1 /\ Len(b) = Len(es) - i
      /\ i \in Int /\ Len(es) \in Int /\ 1 <= i /\ i <= Len(es)
  BY <1>0, <1>a, <1>b, SMT
<1>c. f = a \o b
  BY DEF Delete
<1> HIDE DEF f, a, b
<1>1. /\ f \in Seq(Entry)
      /\ Len(f) = Len(es) - 1
      /\ \A n \in 1..(Len(es) - 1) : f[n] = IF n < i THEN es[n] ELSE es[n + 1]
  <2>1. f \in Seq(Entry) /\ Len(f) = Len(es) - 1
    BY <1>0, <1>a, <1>b, <1>c, SMT
  <2>2. ASSUME NEW n \in 1..(Len(es) - 1)
        PROVE f[n] = IF n < i THEN es[n] ELSE es[n + 1]
    <3>1. CASE n < i
      BY <3>1, <1>0, <1>a, <1>b, <1>c, SMT
    <3>2. CASE ~(n < i)
      <4>1. n \in Len(a) + 1 .. Len(a) + Len(b)
        BY <3>2, <1>0, <1>a, <1>b, SMT
      <4>2. f[n] = b[n - Len(a)]
        <5>1. \A m \in 1 .. Len(a) + Len(b) :
                (a \o b)[m] = IF m <= Len(a) THEN a[m] ELSE b[m - Len(a)]
          BY <1>a, <1>b, ConcatAt
        <5>2. n \in 1 .. Len(a) + Len(b) /\ ~(n <= Len(a))
          BY <4>1, <1>l, SMT
        <5> QED BY <5>1, <5>2, <1>c
      <4>3. n - Len(a) \in 1..(Len(es) - i) /\ (n - Len(a)) + i = n + 1
        <5>1. n - Len(a) = n - i + 1
          BY <1>l, SMT
        <5>2. n - i + 1 \in 1..(Len(es) - i) /\ (n - i + 1) + i = n + 1
          BY <3>2, <1>l, SMT
        <5> QED BY <5>1, <5>2
      <4>4. b[n - Len(a)] = es[(n - Len(a)) + i]
        BY <4>3, <1>b
      <4> QED BY <4>2, <4>3, <4>4, <3>2
    <3> QED BY <3>1, <3>2
  <2> QED BY <2>1, <2>2
<1>2. SUFFICES ASSUME NEW k, HasIn(es, k), k # es[i].key
               PROVE HasIn(f, k)
  BY <1>1 DEF f
<1>3. PICK n \in DOMAIN es : es[n].key = k
  BY <1>2 DEF HasIn
<1>4. CASE n < i
  <2>1. n \in DOMAIN f /\ f[n] = es[n]
    BY <1>1, <1>4, SMT
  <2> QED BY <2>1, <1>3 DEF HasIn
<1>5. CASE n > i
  <2>1. n - 1 \in DOMAIN f /\ f[n - 1] = es[n]
    BY <1>1, <1>5, SMT
  <2> QED BY <2>1, <1>3 DEF HasIn
<1> QED BY <1>2, <1>3, <1>4, <1>5, SMT

\* enforceCapacity() divides the entries into those kept and those lost.
LEMMA OverflowFact ==
  ASSUME NEW es \in Seq(Entry)
  PROVE LET kept == SubSeq(es, Len(Overflow(es)) + 1, Len(es))
        IN /\ kept \in Seq(Entry)
           /\ \A k : HasIn(es, k) => HasIn(kept, k) \/ HasIn(Overflow(es), k)
<1> DEFINE m == IF Len(es) > MaxEntries THEN Len(es) - MaxEntries ELSE 0
           kept == SubSeq(es, m + 1, Len(es))
<1> USE MaxEntriesAssumption
<1>1. m \in 0..Len(es)
  BY SMT
<1>2. /\ Len(Overflow(es)) = m
      /\ DOMAIN Overflow(es) = 1..m
      /\ \A n \in 1..m : Overflow(es)[n] = es[n]
  <2>1. CASE Len(es) > MaxEntries
    BY <2>1, SMT DEF Overflow
  <2>2. CASE ~(Len(es) > MaxEntries)
    BY <2>2, SMT DEF Overflow
  <2> QED BY <2>1, <2>2
<1> HIDE DEF m
<1>3. /\ kept \in Seq(Entry)
      /\ DOMAIN kept = 1..(Len(es) - m)
      /\ \A n \in 1..(Len(es) - m) : kept[n] = es[n + m]
  BY <1>1, SMT
<1> HIDE DEF kept
<1>4. ASSUME NEW k, HasIn(es, k)
      PROVE HasIn(kept, k) \/ HasIn(Overflow(es), k)
  <2>1. PICK n \in DOMAIN es : es[n].key = k
    BY <1>4 DEF HasIn
  <2>2. CASE n <= m
    BY <2>1, <2>2, <1>1, <1>2, SMT DEF HasIn
  <2>3. CASE n > m
    <3>1. n - m \in DOMAIN kept /\ kept[n - m] = es[n]
      BY <2>3, <1>1, <1>3, SMT
    <3> QED BY <3>1, <2>1 DEF HasIn
  <2> QED BY <2>1, <2>2, <2>3, <1>1, SMT
<1> QED BY <1>2, <1>3, <1>4 DEF kept

\* An entry that is made for a request is an entry.
LEMMA ClaimFact ==
  ASSUME IdempotencyTypeOK, NEW k \in Keys, NEW op \in Operations, Claim(k, op)
  PROVE /\ IdempotencyTypeOK'
        /\ \A q \in Keys : lost'[q] \in {lost[q], lost[q] + 1}
        /\ \A q \in Keys : Has(q) \/ q = k => Has(q)' \/ lost'[q] = lost[q] + 1
<1> DEFINE e == [key |-> k, operation |-> op, state |-> "in-flight"]
           es == Set(entries, e)
<1>1. e \in Entry /\ e.key = k /\ entries \in Seq(Entry)
  BY DEF Entry, IdempotencyTypeOK
<1>2. es \in Seq(Entry) /\ \A q : HasIn(entries, q) \/ q = k => HasIn(es, q)
  BY <1>1, SetFact
<1>3. entries' = SubSeq(es, Len(Overflow(es)) + 1, Len(es)) /\ Lose(Overflow(es))
  BY DEF Claim
<1> HIDE DEF e, es
<1>4. /\ entries' \in Seq(Entry)
      /\ \A q : HasIn(es, q) => HasIn(entries', q) \/ HasIn(Overflow(es), q)
  BY <1>2, <1>3, OverflowFact
<1>5. /\ lost' \in [Keys -> Nat]
      /\ \A q \in Keys : lost'[q] = IF HasIn(Overflow(es), q) THEN lost[q] + 1 ELSE lost[q]
  BY <1>3, SMT DEF Lose, HasIn, IdempotencyTypeOK
<1>6. \A q : (Has(q) <=> HasIn(entries, q)) /\ (Has(q)' <=> HasIn(entries', q))
  BY DEF Has, HasIn
<1> QED BY <1>2, <1>4, <1>5, <1>6 DEF IdempotencyTypeOK

\* settle() with an answer keeps every key.
LEMMA CompleteFact ==
  ASSUME IdempotencyTypeOK, NEW k \in Keys, NEW op \in Operations, Complete(k, op)
  PROVE IdempotencyTypeOK' /\ lost' = lost /\ \A q : Has(q) => Has(q)'
<1> DEFINE e == [key |-> k, operation |-> op, state |-> "completed"]
<1>1. e \in Entry /\ entries \in Seq(Entry)
  BY DEF Entry, IdempotencyTypeOK
<1>2. Set(entries, e) \in Seq(Entry) /\ \A q : HasIn(entries, q) => HasIn(Set(entries, e), q)
  BY <1>1, SetFact
<1>3. entries' = Set(entries, e) /\ lost' = lost
  BY DEF Complete
<1> QED BY <1>2, <1>3 DEF IdempotencyTypeOK, Has, HasIn

\* settle() with a failure gives up one key.
LEMMA ReleaseFact ==
  ASSUME IdempotencyTypeOK, NEW k \in Keys, Release(k)
  PROVE IdempotencyTypeOK' /\ lost' = lost /\ \A q : Has(q) /\ q # k => Has(q)'
<1>1. entries \in Seq(Entry) /\ entries' = Without(entries, k) /\ lost' = lost
  BY DEF Release, IdempotencyTypeOK
<1>2. CASE \E i \in DOMAIN entries : entries[i].key = k
  <2>1. PICK i \in DOMAIN entries : entries[i].key = k /\ entries' = Delete(entries, i)
    BY <1>1, <1>2 DEF Without, IndexOf
  <2>2. /\ Delete(entries, i) \in Seq(Entry)
        /\ \A q : HasIn(entries, q) /\ q # entries[i].key => HasIn(Delete(entries, i), q)
    BY <1>1, RemoveFact
  <2> QED BY <1>1, <2>1, <2>2 DEF IdempotencyTypeOK, Has, HasIn
<1>3. CASE ~\E i \in DOMAIN entries : entries[i].key = k
  BY <1>1, <1>3 DEF Without, IdempotencyTypeOK, Has
<1> QED BY <1>2, <1>3

\* An entry that is dropped for its age is counted.
LEMMA ExpireFact ==
  ASSUME IdempotencyTypeOK, NEW i, Expire(i)
  PROVE /\ IdempotencyTypeOK'
        /\ \A q \in Keys : lost'[q] \in {lost[q], lost[q] + 1}
        /\ \A q \in Keys : Has(q) => Has(q)' \/ lost'[q] = lost[q] + 1
<1>1. entries \in Seq(Entry) /\ i \in DOMAIN entries /\ entries' = Delete(entries, i)
  BY DEF Expire, IdempotencyTypeOK
<1>2. /\ Delete(entries, i) \in Seq(Entry)
      /\ \A q : HasIn(entries, q) /\ q # entries[i].key => HasIn(Delete(entries, i), q)
  BY <1>1, RemoveFact
<1>3. \A q : HasIn(<<entries[i]>>, q) <=> q = entries[i].key
  BY SMT DEF HasIn
<1>4. /\ lost' \in [Keys -> Nat]
      /\ \A q \in Keys : lost'[q] = IF HasIn(<<entries[i]>>, q) THEN lost[q] + 1 ELSE lost[q]
  BY SMT DEF Expire, Lose, HasIn, IdempotencyTypeOK
<1> QED BY <1>1, <1>2, <1>3, <1>4 DEF IdempotencyTypeOK, Has, HasIn

\* A restart loses every entry, and counts each.
LEMMA ForgetFact ==
  ASSUME IdempotencyTypeOK, Forget
  PROVE /\ IdempotencyTypeOK'
        /\ \A q \in Keys : lost'[q] = IF Has(q) THEN lost[q] + 1 ELSE lost[q]
BY SMT DEF Forget, Lose, Has, IdempotencyTypeOK

-----------------------------------------------------------------------------
(* Types *)

ReqTypeOK ==
  /\ req \in [Requests -> Request]
  /\ \A r \in Requests :
       /\ req[r].pc # "idle" => req[r].session \in Sessions
       /\ req[r].pc \in Mutating => req[r].name \in Names /\ req[r].op \in Operations

LEMMA AnsweredFact ==
  ASSUME ReqTypeOK, NEW r \in Requests, Answered(r)
  PROVE ReqTypeOK' /\ req'[r].pc = "idle" /\ \A q \in Requests \ {r} : req'[q] = req[q]
<1>1. Idle \in Request /\ Idle.pc = "idle"
  BY DEF Idle, Request, ReqSteps, NoInput
<1> QED BY <1>1 DEF ReqTypeOK, Answered, Mutating

LEMMA ToFact ==
  ASSUME ReqTypeOK, NEW r \in Requests, req[r].pc \in Mutating,
         NEW pc \in {"again", "run", "remote", "settle"}, To(r, pc)
  PROVE /\ ReqTypeOK'
        /\ req'[r].pc = pc /\ req'[r].session = req[r].session /\ req'[r].name = req[r].name
        /\ \A q \in Requests \ {r} : req'[q] = req[q]
<1>1. req[r] \in Request /\ req[r].session \in Sessions
  BY DEF ReqTypeOK, Mutating
<1>2. req' = [req EXCEPT ![r] = [req[r] EXCEPT !.pc = pc]]
  BY DEF To
<1>3. /\ [req[r] EXCEPT !.pc = pc] \in Request
      /\ [req[r] EXCEPT !.pc = pc].pc = pc
      /\ [req[r] EXCEPT !.pc = pc].session = req[r].session
      /\ [req[r] EXCEPT !.pc = pc].name = req[r].name
      /\ [req[r] EXCEPT !.pc = pc].op = req[r].op
  BY <1>1 DEF Request, ReqSteps
<1> QED BY <1>1, <1>2, <1>3 DEF ReqTypeOK, Mutating

\* The key of a mutation under way is a key.
LEMMA KeyFact ==
  ASSUME ReqTypeOK, NEW r \in Requests, req[r].pc \in Mutating
  PROVE Key(r) \in Keys /\ req[r].op \in Operations /\ req[r].session \in Sessions
BY KeysAssumption DEF ReqTypeOK, Key, ScopedKeys, Mutating

\* A mutation goes to its next await, or is answered.
Mutates(r) ==
  \/ MutationClaims(r) \/ RemoteEnds(r) \/ MutationSettles(r)
  \/ \E ok \in BOOLEAN : MutationRuns(r, ok) \/ LocalOperation(r, ok)

LEMMA MutatesFact ==
  ASSUME ReqTypeOK, NEW r \in Requests, Mutates(r)
  PROVE /\ req'[r].pc # "attach" /\ \A q \in Requests \ {r} : req'[q] = req[q]
        /\ UNCHANGED <<session, credential, issued, requesterVars>>
<1>1. req[r].pc \in Mutating
  BY DEF Mutates, MutationClaims, RemoteEnds, MutationSettles, MutationRuns, LocalOperation, Is, Mutating
<1>2. Answered(r) \/ \E pc \in {"again", "run", "remote", "settle"} : To(r, pc)
  BY DEF Mutates, MutationClaims, RemoteEnds, MutationSettles, MutationRuns, LocalOperation
<1>3. UNCHANGED <<session, credential, issued, requesterVars>>
  BY DEF Mutates, MutationClaims, RemoteEnds, MutationSettles, MutationRuns, LocalOperation,
     pairingVars, Touched
<1>4. ASSUME NEW pc \in {"again", "run", "remote", "settle"}, To(r, pc)
      PROVE req'[r].pc # "attach" /\ \A q \in Requests \ {r} : req'[q] = req[q]
  BY <1>1, <1>4, ToFact
<1>5. ASSUME Answered(r)
      PROVE req'[r].pc # "attach" /\ \A q \in Requests \ {r} : req'[q] = req[q]
  BY <1>5, AnsweredFact
<1> QED BY <1>2, <1>3, <1>4, <1>5

LEMMA TypeInit == Init => TypeOK
<1> SUFFICES ASSUME Init PROVE TypeOK
  OBVIOUS
<1>1. PairingTypeOK
  <2>1. admitted \in 0..MaxGlobal
    BY GlobalAssumption, SMT DEF Init, PairingInit
  <2>2. session \in [Sessions -> {"none", "open", "expired", "used", "gone", "grant", "consumed"}]
    BY DEF Init, PairingInit
  <2>3. credential \in [Sessions -> {"none", "live", "revoked"}]
    BY DEF Init, PairingInit
  <2>4. issued \in [Sessions -> Nat] /\ failures \in [Sessions -> Nat]
    BY DEF Init, PairingInit
  <2> QED BY <2>1, <2>2, <2>3, <2>4 DEF PairingTypeOK
<1>2. IdempotencyTypeOK
  BY SMT DEF Init, IdempotencyInit, IdempotencyTypeOK
<1>r. RequesterTypeOK
  BY DEF Init, RequesterInit, RequesterTypeOK
<1>3. ReqTypeOK
  <2>1. Idle \in Request /\ Idle.pc = "idle"
    BY DEF Idle, Request, ReqSteps, NoInput
  <2> QED BY <2>1 DEF Init, ReqTypeOK, Mutating
<1> QED BY <1>1, <1>2, <1>r, <1>3, ArrivalsAssumption, SMT DEF Init, TypeOK, ReqTypeOK

\* Every step keeps the types.
LEMMA TypeStep == TypeOK /\ [Next]_vars => TypeOK'
<1> SUFFICES ASSUME TypeOK, [Next]_vars PROVE TypeOK'
  OBVIOUS
<1>0. ReqTypeOK
  BY DEF TypeOK, ReqTypeOK
<1> USE <1>0
<1>1. ASSUME NEW s \in Sessions, PairingActivated(s) PROVE TypeOK'
  BY <1>1 DEF TypeOK, PairingActivated, CreateSession, PairingTypeOK, IdempotencyTypeOK,
     RequesterTypeOK, idempotencyVars, requesterVars, untouched
<1>2. ASSUME PairingStep, UNCHANGED <<idempotencyVars, requesterVars, req, untouched>> PROVE TypeOK'
  <2>1. ASSUME NEW s \in Sessions, SessionExpires(s) \/ Revoke(s) PROVE PairingTypeOK'
    BY <2>1 DEF TypeOK, SessionExpires, Revoke, PairingTypeOK
  <2>2. ASSUME WindowEnds PROVE PairingTypeOK'
    BY <2>2, GlobalAssumption, SMT DEF TypeOK, WindowEnds, PairingTypeOK
  <2> QED BY <1>2, <2>1, <2>2 DEF PairingStep, TypeOK, IdempotencyTypeOK, RequesterTypeOK,
        idempotencyVars, requesterVars, untouched
<1>3. ASSUME NEW r \in Requests, NEW s \in Sessions, NEW b \in BOOLEAN, ExchangeArrives(r, s, b)
      PROVE TypeOK'
  <2>1. ReqTypeOK'
    <3>1. CASE req' = req
      BY <3>1 DEF ReqTypeOK
    <3>2. CASE req' = [req EXCEPT ![r] = [Idle EXCEPT !.pc = "issue", !.session = s]]
      BY <3>2 DEF ReqTypeOK, Request, Idle, ReqSteps, NoInput, Mutating
    <3> QED BY <1>3, <3>1, <3>2 DEF ExchangeArrives
  <2>2. PairingTypeOK'
    BY <1>3, GlobalAssumption, SMT DEF ExchangeArrives, Admissible, Charged, Failed, TypeOK, PairingTypeOK
  <2> QED BY <1>3, <2>1, <2>2 DEF ExchangeArrives, ReqTypeOK, TypeOK, IdempotencyTypeOK,
        RequesterTypeOK, idempotencyVars, requesterVars, untouched
<1>4. ASSUME NEW r \in Requests, NEW s \in Sessions, NEW b \in BOOLEAN, AttachArrives(r, s, b)
      PROVE TypeOK'
  <2>1. ReqTypeOK'
    BY <1>4 DEF AttachArrives, ReqTypeOK, Request, Idle, ReqSteps, NoInput, Mutating
  <2> QED BY <1>4, <2>1 DEF AttachArrives, ReqTypeOK, TypeOK, PairingTypeOK, IdempotencyTypeOK,
        RequesterTypeOK, idempotencyVars, requesterVars, untouched
<1>5. ASSUME NEW r \in Requests, NEW s \in Sessions, NEW n \in Names, NEW op \in Operations,
             NEW peer \in Peers, MutationArrives(r, s, n, op, peer)
      PROVE TypeOK'
  <2>1. ReqTypeOK'
    BY <1>5 DEF MutationArrives, ReqTypeOK, Request, Idle, ReqSteps, NoInput, Mutating
  <2>2. arrivals' \in 0..MaxArrivals
    BY <1>5, ArrivalsAssumption, SMT DEF MutationArrives, TypeOK
  <2> QED BY <1>5, <2>1, <2>2 DEF MutationArrives, ReqTypeOK, TypeOK, PairingTypeOK,
        IdempotencyTypeOK, RequesterTypeOK, pairingVars, idempotencyVars, requesterVars
<1>6. ASSUME NEW r \in Requests, ExchangeIssues(r) PROVE TypeOK'
  <2>1. ReqTypeOK' /\ req[r].session \in Sessions
    BY <1>6, AnsweredFact, ZenonT(30) DEF ExchangeIssues, Is, ReqTypeOK
  <2>2. PairingTypeOK'
    BY <1>6, <2>1, SMT DEF ExchangeIssues, Issue, Succeeded, Failed, TypeOK, PairingTypeOK
  <2> QED BY <1>6, <2>1, <2>2 DEF ExchangeIssues, ReqTypeOK, TypeOK, IdempotencyTypeOK,
        RequesterTypeOK, idempotencyVars, requesterVars, untouched
<1>7. ASSUME NEW r \in Requests, AttachIssues(r) PROVE TypeOK'
  <2>1. ReqTypeOK' /\ req[r].session \in Sessions
    BY <1>7, AnsweredFact DEF AttachIssues, Is, ReqTypeOK
  <2>2. PairingTypeOK'
    BY <1>7, <2>1, SMT DEF AttachIssues, Issue, TypeOK, PairingTypeOK
  <2> QED BY <1>7, <2>1, <2>2 DEF AttachIssues, ReqTypeOK, TypeOK, IdempotencyTypeOK,
        RequesterTypeOK, idempotencyVars, requesterVars, untouched
<1>8. ASSUME NEW r \in Requests, MutationClaims(r) PROVE TypeOK'
  <2>1. Key(r) \in Keys /\ req[r].op \in Operations /\ req[r].pc \in Mutating
    BY <1>8, KeyFact DEF MutationClaims, Is, Mutating
  <2>2. ReqTypeOK' /\ IdempotencyTypeOK'
    <3>1. CASE Answered(r) /\ UNCHANGED idempotencyVars
      BY <3>1, AnsweredFact DEF TypeOK, IdempotencyTypeOK, idempotencyVars
    <3>2. CASE Claim(Key(r), req[r].op) /\ To(r, "again")
      BY <3>2, <2>1, ToFact, ClaimFact DEF TypeOK
    <3> QED BY <1>8, <3>1, <3>2 DEF MutationClaims
  <2> QED BY <1>8, <2>2 DEF MutationClaims, Touched, ReqTypeOK, TypeOK, PairingTypeOK,
        RequesterTypeOK, requesterVars, untouched
<1>9. ASSUME NEW r \in Requests, NEW ok \in BOOLEAN, MutationRuns(r, ok) PROVE TypeOK'
  <2>1. Key(r) \in Keys /\ req[r].pc \in Mutating
    BY <1>9, KeyFact DEF MutationRuns, Is, Mutating
  <2>2. ReqTypeOK' /\ IdempotencyTypeOK'
    BY <1>9, <2>1, ToFact, AnsweredFact, ReleaseFact
    DEF MutationRuns, FailureSettles, TypeOK, IdempotencyTypeOK, idempotencyVars
  <2> QED BY <1>9, <2>2 DEF MutationRuns, Touched, ReqTypeOK, TypeOK, PairingTypeOK,
        RequesterTypeOK, requesterVars, untouched
<1>10. ASSUME NEW r \in Requests, NEW ok \in BOOLEAN, LocalOperation(r, ok) PROVE TypeOK'
  <2>1. Key(r) \in Keys /\ req[r].pc \in Mutating
    BY <1>10, KeyFact DEF LocalOperation, Is, Mutating
  <2>2. ReqTypeOK' /\ IdempotencyTypeOK'
    BY <1>10, <2>1, ToFact, AnsweredFact, ReleaseFact, ZenonT(30)
    DEF LocalOperation, FailureSettles, TypeOK, IdempotencyTypeOK, idempotencyVars
  <2>3. effects' \in [Keys -> Nat]
    BY <1>10, <2>1, SMT DEF LocalOperation, TypeOK
  <2> QED BY <1>10, <2>2, <2>3 DEF LocalOperation, ReqTypeOK, TypeOK, PairingTypeOK,
        RequesterTypeOK, requesterVars, pairingVars
<1>11. ASSUME NEW r \in Requests, NEW x \in Inputs, RemoteBegins(r, x) PROVE TypeOK'
  <2>1. ReqTypeOK'
    <3>1. req[r] \in Request /\ req' = [req EXCEPT ![r] = [req[r] EXCEPT !.input = x]]
      BY <1>11 DEF RemoteBegins, ReqTypeOK
    <3>2. /\ [req[r] EXCEPT !.input = x] \in Request
          /\ [req[r] EXCEPT !.input = x].pc = req[r].pc
          /\ [req[r] EXCEPT !.input = x].session = req[r].session
          /\ [req[r] EXCEPT !.input = x].name = req[r].name
          /\ [req[r] EXCEPT !.input = x].op = req[r].op
      BY <3>1 DEF Request
    <3> QED BY <3>1, <3>2 DEF ReqTypeOK
  <2>2. RequesterTypeOK'
    BY <1>11 DEF RemoteBegins, Encrypt, Goto, TypeOK, RequesterTypeOK
  <2> QED BY <1>11, <2>1, <2>2 DEF RemoteBegins, ReqTypeOK, TypeOK, PairingTypeOK,
        IdempotencyTypeOK, idempotencyVars, pairingVars, untouched
<1>12. ASSUME NEW r \in Requests, RemoteEnds(r) PROVE TypeOK'
  <2>1. Key(r) \in Keys /\ req[r].pc \in Mutating
    BY <1>12, KeyFact DEF RemoteEnds, Is, Mutating
  <2>2. ReqTypeOK' /\ IdempotencyTypeOK'
    BY <1>12, <2>1, ToFact, AnsweredFact, ReleaseFact, ZenonT(30)
    DEF RemoteEnds, FailureSettles, TypeOK, IdempotencyTypeOK, idempotencyVars
  <2> QED BY <1>12, <2>2 DEF RemoteEnds, ReqTypeOK, TypeOK, PairingTypeOK,
        RequesterTypeOK, requesterVars, pairingVars, untouched
<1>13. ASSUME NEW r \in Requests, MutationSettles(r) PROVE TypeOK'
  <2>1. Key(r) \in Keys /\ req[r].op \in Operations
    BY <1>13, KeyFact DEF MutationSettles, Is, Mutating
  <2>2. ReqTypeOK' /\ IdempotencyTypeOK'
    BY <1>13, <2>1, AnsweredFact, CompleteFact DEF MutationSettles, TypeOK
  <2> QED BY <1>13, <2>2 DEF MutationSettles, ReqTypeOK, TypeOK, PairingTypeOK,
        RequesterTypeOK, requesterVars, pairingVars, untouched
<1>14. ASSUME NEW x \in Inputs, RequesterStep(x) \/ UserStep(x) PROVE TypeOK'
  <2>1. RequesterTypeOK'
    <3> USE DEF TypeOK, RequesterTypeOK, Goto
    <3>1. ASSUME NEW ok \in BOOLEAN, PinInput(x, ok) \/ RecordJob(x, ok) PROVE RequesterTypeOK'
      BY <3>1, ZenonT(30) DEF PinInput, RecordJob
    <3>2. ASSUME NEW ok \in BOOLEAN, UnconfirmJob(x, ok) PROVE RequesterTypeOK'
      BY <3>2 DEF UnconfirmJob, Retained
    <3>3. ASSUME NEW ok \in BOOLEAN, ReleaseInput(x, ok) \/ RecordRelease(x, ok)
          PROVE RequesterTypeOK'
      BY <3>3, ZenonT(30) DEF ReleaseInput, RecordRelease
    <3>4. ASSUME NEW c \in BOOLEAN, NEW a \in BOOLEAN, SubmitJob(x, c, a) PROVE RequesterTypeOK'
      BY <3>4 DEF SubmitJob
    <3>5. ASSUME NEW e \in BOOLEAN, NEW a \in BOOLEAN, JobEnds(x) \/ EndJob(x, e, a)
          PROVE RequesterTypeOK'
      BY <3>5 DEF JobEnds, EndJob
    <3> QED BY <1>14, <3>1, <3>2, <3>3, <3>4, <3>5, ZenonT(30) DEF RequesterStep, UserStep
  <2> QED BY <1>14, <2>1 DEF RequesterStep, UserStep, TypeOK, PairingTypeOK,
        IdempotencyTypeOK, idempotencyVars, pairingVars, untouched
<1>15. ASSUME EntryExpires PROVE TypeOK'
  <2>1. IdempotencyTypeOK'
    BY <1>15, ExpireFact DEF EntryExpires, TypeOK
  <2> QED BY <1>15, <2>1 DEF EntryExpires, TypeOK, PairingTypeOK, RequesterTypeOK,
        requesterVars, pairingVars, untouched
<1>16. ASSUME Restart PROVE TypeOK'
  <2>1. IdempotencyTypeOK'
    BY <1>16, ForgetFact DEF Restart, TypeOK
  <2>2. ReqTypeOK'
    BY <1>16 DEF Restart, ReqTypeOK, Idle, Request, ReqSteps, Mutating, NoInput
  <2>3. PairingTypeOK' /\ RequesterTypeOK'
    <3>1. failures' \in [Sessions -> Nat] /\ admitted' \in 0..MaxGlobal
      BY <1>16, GlobalAssumption, SMT DEF Restart
    <3> QED BY <1>16, <3>1 DEF Restart, RequesterRestart, TypeOK, PairingTypeOK, RequesterTypeOK
  <2> QED BY <1>16, <2>1, <2>2, <2>3 DEF Restart, TypeOK, ReqTypeOK, untouched
<1>17. CASE UNCHANGED vars
  BY <1>17 DEF vars, TypeOK, PairingTypeOK, IdempotencyTypeOK, RequesterTypeOK,
     idempotencyVars, requesterVars, pairingVars
<1> QED
  BY <1>1, <1>2, <1>3, <1>4, <1>5, <1>6, <1>7, <1>8, <1>9, <1>10, <1>11, <1>12, <1>13,
     <1>14, <1>15, <1>16, <1>17, SMT DEF Next, Arrive, Serve

-----------------------------------------------------------------------------
(* Pairing *)

LEMMA PairingFirst == Init => PairingInv
<1> SUFFICES ASSUME Init PROVE PairingInv
  OBVIOUS
<1>1. \A s \in Sessions : SessionInv(s)
  BY SMT DEF Init, PairingInit, SessionInv
<1>2. \A r \in Requests : ~Is(r, "attach")
  BY DEF Init, Is, Idle
<1> QED BY <1>1, <1>2 DEF PairingInv

\* The requests of which r is not one are where they were.
LEMMA OthersAttach ==
  ASSUME TypeOK, PairingInv, NEW r \in Requests, req'[r].pc # "attach",
         \A q \in Requests \ {r} : req'[q] = req[q]
  PROVE \A q \in Requests : Is(q, "attach")' => req'[q].session \in Grants
BY DEF PairingInv, Is

LEMMA PairingNext == TypeOK /\ PairingInv /\ [Next]_vars => PairingInv'
<1> SUFFICES ASSUME TypeOK, PairingInv, [Next]_vars PROVE PairingInv'
  OBVIOUS
<1>0. ReqTypeOK
  BY DEF TypeOK, ReqTypeOK
<1>a. ASSUME UNCHANGED <<session, credential, issued>>
      PROVE \A s \in Sessions : SessionInv(s)'
  BY <1>a DEF PairingInv, SessionInv
<1>b. ASSUME UNCHANGED req
      PROVE \A r \in Requests : Is(r, "attach")' => req'[r].session \in Grants
  BY <1>b DEF PairingInv, Is
<1>c. ASSUME UNCHANGED <<session, credential, issued>>, NEW r \in Requests,
             req'[r].pc # "attach", \A q \in Requests \ {r} : req'[q] = req[q]
      PROVE PairingInv'
  BY <1>a, <1>c, OthersAttach DEF PairingInv
<1>1. ASSUME NEW s \in Sessions, PairingActivated(s) PROVE PairingInv'
  <2>1. ASSUME NEW t \in Sessions PROVE SessionInv(t)'
    BY <1>1 DEF PairingActivated, CreateSession, PairingInv, SessionInv, TypeOK, PairingTypeOK
  <2> QED BY <2>1, <1>1, <1>b DEF PairingActivated, PairingInv
<1>2. ASSUME PairingStep, UNCHANGED req PROVE PairingInv'
  <2>1. ASSUME NEW s \in Sessions, SessionExpires(s), NEW t \in Sessions PROVE SessionInv(t)'
    BY <2>1 DEF SessionExpires, PairingInv, SessionInv, TypeOK, PairingTypeOK
  <2>2. ASSUME NEW s \in Sessions, Revoke(s), NEW t \in Sessions PROVE SessionInv(t)'
    BY <2>2 DEF Revoke, PairingInv, SessionInv, TypeOK, PairingTypeOK
  <2>3. ASSUME WindowEnds PROVE \A s \in Sessions : SessionInv(s)'
    BY <2>3, <1>a DEF WindowEnds
  <2> QED BY <2>1, <2>2, <2>3, <1>2, <1>b DEF PairingStep, PairingInv
<1>3. ASSUME NEW r \in Requests, NEW s \in Sessions, NEW b \in BOOLEAN, ExchangeArrives(r, s, b)
      PROVE PairingInv'
  <2>1. CASE req' = req
    BY <1>3, <2>1, <1>a, <1>b DEF ExchangeArrives, PairingInv
  <2>2. CASE req' = [req EXCEPT ![r] = [Idle EXCEPT !.pc = "issue", !.session = s]]
    <3>1. req'[r].pc # "attach" /\ \A q \in Requests \ {r} : req'[q] = req[q]
      BY <2>2, <1>0 DEF ReqTypeOK, Idle
    <3> QED BY <3>1, <1>3, <1>c DEF ExchangeArrives
  <2> QED BY <1>3, <2>1, <2>2 DEF ExchangeArrives
<1>4. ASSUME NEW r \in Requests, NEW s \in Sessions, NEW b \in BOOLEAN, AttachArrives(r, s, b)
      PROVE PairingInv'
  <2>1. s \in Grants
    BY <1>4 DEF AttachArrives, PairingInv, SessionInv
  <2>2. ASSUME NEW t \in Sessions PROVE SessionInv(t)'
    BY <1>4 DEF AttachArrives, PairingInv, SessionInv, TypeOK, PairingTypeOK
  <2>3. \A q \in Requests : Is(q, "attach")' => req'[q].session \in Grants
    BY <1>4, <1>0, <2>1 DEF AttachArrives, PairingInv, Is, ReqTypeOK, Idle
  <2> QED BY <2>2, <2>3 DEF PairingInv
<1>5. ASSUME NEW r \in Requests, NEW s \in Sessions, NEW n \in Names, NEW op \in Operations,
             NEW peer \in Peers, MutationArrives(r, s, n, op, peer)
      PROVE PairingInv'
  <2>1. req'[r].pc # "attach" /\ \A q \in Requests \ {r} : req'[q] = req[q]
    BY <1>5, <1>0 DEF MutationArrives, ReqTypeOK, Idle
  <2> QED BY <2>1, <1>5, <1>c DEF MutationArrives, pairingVars
<1>6. ASSUME NEW r \in Requests, ExchangeIssues(r) PROVE PairingInv'
  <2> DEFINE u == req[r].session
  <2>1. /\ u \in Sessions
        /\ req'[r].pc # "attach" /\ \A q \in Requests \ {r} : req'[q] = req[q]
    BY <1>6, <1>0, AnsweredFact DEF ExchangeIssues, Is, ReqTypeOK
  <2>2. CASE UNCHANGED <<session, credential, issued>>
    BY <2>1, <2>2, <1>c
  <2>3. CASE StillUnused(u) /\ Issue(u, "used")
    <3>1. issued[u] = 0 /\ u \notin Grants
      BY <2>1, <2>3 DEF StillUnused, PairingInv, SessionInv
    <3>2. ASSUME NEW t \in Sessions PROVE SessionInv(t)'
      BY <2>1, <2>3, <3>1, SMT DEF Issue, PairingInv, SessionInv, TypeOK, PairingTypeOK
    <3> QED BY <3>2, <2>1, OthersAttach DEF PairingInv
  <2> QED BY <1>6, <2>2, <2>3 DEF ExchangeIssues
<1>7. ASSUME NEW r \in Requests, AttachIssues(r) PROVE PairingInv'
  <2> DEFINE u == req[r].session
  <2>1. /\ u \in Sessions /\ u \in Grants
        /\ req'[r].pc # "attach" /\ \A q \in Requests \ {r} : req'[q] = req[q]
    BY <1>7, <1>0, AnsweredFact DEF AttachIssues, Is, ReqTypeOK, PairingInv
  <2>2. CASE UNCHANGED <<session, credential, issued>>
    BY <2>1, <2>2, <1>c
  <2>3. CASE NotReplayed(u) /\ Issue(u, "consumed")
    <3>1. issued[u] = 0
      BY <2>1, <2>3, ZenonT(30) DEF NotReplayed, PairingInv, SessionInv
    <3>2. ASSUME NEW t \in Sessions PROVE SessionInv(t)'
      BY <2>1, <2>3, <3>1, SMT DEF Issue, PairingInv, SessionInv, TypeOK, PairingTypeOK
    <3> QED BY <3>2, <2>1, OthersAttach DEF PairingInv
  <2> QED BY <1>7, <2>2, <2>3 DEF AttachIssues
<1>8. ASSUME NEW r \in Requests, Mutates(r) PROVE PairingInv'
  BY <1>8, <1>0, <1>c, MutatesFact
<1>11. ASSUME NEW r \in Requests, NEW x \in Inputs, RemoteBegins(r, x) PROVE PairingInv'
  <2>1. req'[r].pc # "attach" /\ \A q \in Requests \ {r} : req'[q] = req[q]
    BY <1>11, <1>0, ZenonT(30) DEF RemoteBegins, Is, ReqTypeOK, Request
  <2> QED BY <2>1, <1>11, <1>c DEF RemoteBegins, pairingVars
<1>14. ASSUME Restart PROVE PairingInv'
  <2>1. \A q \in Requests : ~Is(q, "attach")'
    BY <1>14 DEF Restart, Is, Idle
  <2> QED BY <2>1, <1>14, <1>a DEF Restart, PairingInv
<1>15. ASSUME UNCHANGED <<session, credential, issued, req>> PROVE PairingInv'
  BY <1>15, <1>a, <1>b DEF PairingInv
<1>16. ASSUME NEW x \in Inputs, RequesterStep(x) \/ UserStep(x) PROVE PairingInv'
  BY <1>15, <1>16 DEF RequesterStep, UserStep, pairingVars
<1>17. ASSUME EntryExpires \/ UNCHANGED vars PROVE PairingInv'
  BY <1>15, <1>17 DEF EntryExpires, vars, pairingVars
<1> QED
  BY <1>1, <1>2, <1>3, <1>4, <1>5, <1>6, <1>7, <1>8, <1>11, <1>14, <1>16, <1>17, SMTT(30)
  DEF Next, Arrive, Serve, Mutates

\* A pairing session, or a grant, produces one credential, however many
\* exchanges of it, attachments and restarts there are (pairingService.ts).
THEOREM OneCredentialTheorem == Spec => []OneCredential
<1>1. Init => TypeOK /\ PairingInv
  BY TypeInit, PairingFirst
<1>2. TypeOK /\ PairingInv /\ [Next]_vars => (TypeOK /\ PairingInv)'
  BY TypeStep, PairingNext
<1>3. PairingInv => OneCredential
  BY DEF PairingInv, SessionInv, OneCredential
<1> QED BY <1>1, <1>2, <1>3, PTL DEF Spec

\* No authorization, exchange or attachment that is under way when a credential
\* is revoked brings it back.
THEOREM RevokedStaysRevokedTheorem == Spec => RevokedStaysRevoked
<1> DEFINE Kept == \A s \in Sessions : credential[s] = "revoked" => credential'[s] = "revoked"
<1>1. Init => TypeOK /\ PairingInv
  BY TypeInit, PairingFirst
<1>2. TypeOK /\ PairingInv /\ [Next]_vars => (TypeOK /\ PairingInv)'
  BY TypeStep, PairingNext
<1>3. ASSUME TypeOK, PairingInv, [Next]_vars PROVE Kept
  <2> SUFFICES ASSUME NEW t \in Sessions, credential[t] = "revoked"
               PROVE credential'[t] = "revoked"
    OBVIOUS
  <2>0. /\ credential \in [Sessions -> {"none", "live", "revoked"}] /\ ReqTypeOK
        /\ issued[t] # 0
    BY <1>3 DEF TypeOK, PairingTypeOK, ReqTypeOK, PairingInv, SessionInv
  <2>1. ASSUME NEW s \in Sessions, Issue(s, "used") \/ Issue(s, "consumed"), issued[s] = 0
        PROVE credential'[t] = "revoked"
    BY <2>0, <2>1 DEF Issue
  <2>2. ASSUME NEW r \in Requests, ExchangeIssues(r) PROVE credential'[t] = "revoked"
    <3>1. req[r].session \in Sessions
      BY <2>2, <2>0 DEF ExchangeIssues, Is, ReqTypeOK
    <3>2. StillUnused(req[r].session) => issued[req[r].session] = 0
      BY <3>1, <1>3 DEF StillUnused, PairingInv, SessionInv
    <3> QED BY <2>1, <2>2, <3>1, <3>2 DEF ExchangeIssues
  <2>3. ASSUME NEW r \in Requests, AttachIssues(r) PROVE credential'[t] = "revoked"
    <3>1. req[r].session \in Sessions
      BY <2>3, <2>0 DEF AttachIssues, Is, ReqTypeOK
    <3>2. NotReplayed(req[r].session) => issued[req[r].session] = 0
      BY <3>1, <1>3 DEF NotReplayed, PairingInv, SessionInv
    <3> QED BY <2>1, <2>3, <3>1, <3>2 DEF AttachIssues
  <2>4. ASSUME PairingStep PROVE credential'[t] = "revoked"
    BY <2>0, <2>4 DEF PairingStep, SessionExpires, Revoke, WindowEnds
  <2>5. ASSUME UNCHANGED credential PROVE credential'[t] = "revoked"
    BY <2>5
  <2>6. ASSUME NEW r \in Requests, Mutates(r) PROVE credential'[t] = "revoked"
    BY <2>0, <2>5, <2>6, MutatesFact
  <2>7. ASSUME NEW r \in Requests, Arrive(r) PROVE credential'[t] = "revoked"
    BY <2>5, <2>7 DEF Arrive, ExchangeArrives, AttachArrives, MutationArrives, pairingVars
  <2>8. ASSUME NEW x \in Inputs, RequesterStep(x) \/ UserStep(x) PROVE credential'[t] = "revoked"
    BY <2>5, <2>8 DEF RequesterStep, UserStep, pairingVars
  <2>9. ASSUME NEW r \in Requests, NEW x \in Inputs, RemoteBegins(r, x)
        PROVE credential'[t] = "revoked"
    BY <2>5, <2>9 DEF RemoteBegins, pairingVars
  <2>10. ASSUME EntryExpires \/ Restart \/ UNCHANGED vars PROVE credential'[t] = "revoked"
    BY <2>5, <2>10 DEF EntryExpires, Restart, vars, pairingVars
  <2>11. ASSUME NEW s \in Sessions, PairingActivated(s) PROVE credential'[t] = "revoked"
    BY <2>5, <2>11 DEF PairingActivated, CreateSession
  <2> QED
    BY <1>3, <2>2, <2>3, <2>4, <2>6, <2>7, <2>8, <2>9, <2>10, <2>11, SMT DEF Next, Serve, Mutates
<1>4. Spec => [](TypeOK /\ PairingInv)
  BY <1>1, <1>2, PTL DEF Spec
<1>5. TypeOK /\ PairingInv /\ [Next]_vars => [Kept]_vars
  BY <1>3
<1> QED BY <1>4, <1>5, PTL DEF Spec, RevokedStaysRevoked

-----------------------------------------------------------------------------
(* Inputs *)

LEMMA InputsFirst == Init => InputsInv
BY ZenonT(30) DEF Init, RequesterInit, InputsInv, InputInv

LEMMA InputsNext == TypeOK /\ InputsInv /\ [Next]_vars => InputsInv'
<1> SUFFICES ASSUME TypeOK, InputsInv, [Next]_vars, NEW y \in Inputs PROVE InputInv(y)'
  BY DEF InputsInv
<1> USE DEF InputInv
<1>0. RequesterTypeOK /\ InputInv(y)
  BY DEF TypeOK, InputsInv
<1>1. ASSUME UNCHANGED requesterVars PROVE InputInv(y)'
  BY <1>0, <1>1 DEF requesterVars
<1>2. ASSUME NEW x \in Inputs, NEW ok \in BOOLEAN, PinInput(x, ok) \/ RecordJob(x, ok)
      PROVE InputInv(y)'
  BY <1>0, <1>2 DEF PinInput, RecordJob, At, Goto, RequesterTypeOK
<1>3. ASSUME NEW x \in Inputs, NEW ok \in BOOLEAN, UnconfirmJob(x, ok) PROVE InputInv(y)'
  BY <1>0, <1>3 DEF UnconfirmJob, Retained, At, Goto, RequesterTypeOK
<1>4. ASSUME NEW x \in Inputs, NEW ok \in BOOLEAN, ReleaseInput(x, ok) \/ RecordRelease(x, ok)
      PROVE InputInv(y)'
  BY <1>0, <1>4, ZenonT(30) DEF ReleaseInput, RecordRelease, At, Goto, RequesterTypeOK
<1>5. ASSUME NEW x \in Inputs, NEW c \in BOOLEAN, NEW a \in BOOLEAN, SubmitJob(x, c, a)
      PROVE InputInv(y)'
  BY <1>0, <1>5 DEF SubmitJob, At, Goto, RequesterTypeOK
<1>6. ASSUME NEW x \in Inputs, NEW e \in BOOLEAN, NEW a \in BOOLEAN, EndJob(x, e, a)
      PROVE InputInv(y)'
  BY <1>0, <1>6 DEF EndJob, At, Goto, RequesterTypeOK
<1>7. ASSUME NEW x \in Inputs, JobEnds(x) PROVE InputInv(y)'
  BY <1>0, <1>7 DEF JobEnds, RequesterTypeOK
<1>8. ASSUME NEW x \in Inputs, Encrypt(x) PROVE InputInv(y)'
  BY <1>0, <1>8 DEF Encrypt, Goto, RequesterTypeOK
<1>9. ASSUME RequesterRestart PROVE InputInv(y)'
  BY <1>0, <1>9 DEF RequesterRestart
<1> HIDE DEF InputInv
<1>10. ASSUME NEW x \in Inputs, RequesterStep(x) \/ UserStep(x) PROVE InputInv(y)'
  BY <1>2, <1>3, <1>4, <1>5, <1>6, <1>7, <1>10, ZenonT(30) DEF RequesterStep, UserStep
<1>11. ASSUME NEW r \in Requests, Arrive(r) \/ Serve(r) PROVE InputInv(y)'
  <2>1. ASSUME Mutates(r) PROVE InputInv(y)'
    <3>1. ReqTypeOK
      BY DEF TypeOK, ReqTypeOK
    <3> QED BY <1>1, <2>1, <3>1, MutatesFact
  <2> QED BY <1>1, <1>11, <2>1 DEF Arrive, Serve, Mutates, ExchangeArrives, AttachArrives,
        MutationArrives, ExchangeIssues, AttachIssues
<1>12. ASSUME PairingStep, UNCHANGED requesterVars PROVE InputInv(y)'
  BY <1>1, <1>12
<1>13. ASSUME NEW s \in Sessions, PairingActivated(s) PROVE InputInv(y)'
  BY <1>1, <1>13 DEF PairingActivated
<1>14. ASSUME NEW r \in Requests, NEW x \in Inputs, RemoteBegins(r, x) PROVE InputInv(y)'
  BY <1>8, <1>14 DEF RemoteBegins
<1>15. ASSUME EntryExpires \/ UNCHANGED vars PROVE InputInv(y)'
  BY <1>1, <1>15 DEF EntryExpires, vars
<1>16. ASSUME Restart PROVE InputInv(y)'
  BY <1>9, <1>16, ZenonT(30) DEF Restart
<1> QED BY <1>10, <1>11, <1>12, <1>13, <1>14, <1>15, <1>16 DEF Next

\* While the backend's job for an encrypted input is open, this node keeps the
\* input pinned, whatever answers and writes are lost (requestJob).
THEOREM InputsStayPinnedTheorem == Spec => []InputsStayPinned
<1>1. Init => TypeOK /\ InputsInv
  BY TypeInit, InputsFirst
<1>2. TypeOK /\ InputsInv /\ [Next]_vars => (TypeOK /\ InputsInv)'
  BY TypeStep, InputsNext
<1>3. InputsInv => InputsStayPinned
  BY DEF InputsInv, InputInv, InputsStayPinned
<1> QED BY <1>1, <1>2, <1>3, PTL DEF Spec

-----------------------------------------------------------------------------
(* Keys *)

Claiming(r) == req[r].pc \in {"again", "run", "remote"}

LEMMA ClaimsFinite ==
  ASSUME NEW k
  PROVE IsFiniteSet(Claims(k)) /\ Cardinality(Claims(k)) \in Nat
<1>1. Claims(k) \in SUBSET Requests
  BY DEF Claims
<1>2. IsFiniteSet(Claims(k))
  BY <1>1, RequestsAssumption, FS_Subset
<1> QED BY <1>2, FS_CardinalityType

LEMMA KeysFirst == Init => KeysInv
<1> SUFFICES ASSUME Init, NEW k \in Keys PROVE Covered(k)
  BY DEF KeysInv
<1>1. Claims(k) = {}
  BY DEF Init, Claims, Idle
<1>2. Cardinality(Claims(k)) = 0
  BY <1>1, FS_EmptySet
<1>3. effects[k] = 0 /\ lost[k] = 0
  BY DEF Init, IdempotencyInit
<1> QED BY <1>2, <1>3, SMT DEF Covered

\* The number of claims when one request moves.
LEMMA ClaimsMove ==
  ASSUME NEW r \in Requests, NEW k,
         \A q \in Requests \ {r} : req'[q] = req[q]
  PROVE /\ Claiming(r)' /\ Key(r)' = k /\ ~Claiming(r)
             => Cardinality(Claims(k)') = Cardinality(Claims(k)) + 1
        /\ Claiming(r) /\ Key(r) = k /\ ~Claiming(r)'
             => Cardinality(Claims(k)') = Cardinality(Claims(k)) - 1
        /\ (Claiming(r)' /\ Key(r)' = k <=> Claiming(r) /\ Key(r) = k)
             => Cardinality(Claims(k)') = Cardinality(Claims(k))
<1>0. IsFiniteSet(Claims(k))
  BY ClaimsFinite
<1>1. Claims(k)' = {q \in Requests : Claiming(q)' /\ Key(q)' = k}
  BY DEF Claims, Claiming
<1>2. Claims(k) = {q \in Requests : Claiming(q) /\ Key(q) = k}
  BY DEF Claims, Claiming
<1>3. \A q \in Requests \ {r} : Claiming(q)' = Claiming(q) /\ Key(q)' = Key(q)
  BY DEF Claiming, Key
<1>4. ASSUME Claiming(r)', Key(r)' = k, ~Claiming(r)
      PROVE Cardinality(Claims(k)') = Cardinality(Claims(k)) + 1
  <2>1. Claims(k)' = Claims(k) \cup {r} /\ r \notin Claims(k)
    BY <1>1, <1>2, <1>3, <1>4
  <2> QED BY <1>0, <2>1, FS_AddElement
<1>5. ASSUME Claiming(r), Key(r) = k, ~Claiming(r)'
      PROVE Cardinality(Claims(k)') = Cardinality(Claims(k)) - 1
  <2>1. Claims(k)' = Claims(k) \ {r} /\ r \in Claims(k)
    BY <1>1, <1>2, <1>3, <1>5
  <2> QED BY <1>0, <2>1, FS_RemoveElement
<1>6. ASSUME Claiming(r)' /\ Key(r)' = k <=> Claiming(r) /\ Key(r) = k
      PROVE Cardinality(Claims(k)') = Cardinality(Claims(k))
  <2>1. Claims(k)' = Claims(k)
    BY <1>1, <1>2, <1>3, <1>6
  <2> QED BY <2>1
<1> QED BY <1>4, <1>5, <1>6

\* A request that settles its claim with a failure gives up the claim, and its
\* entry if it still has one.
LEMMA FailureCovered ==
  ASSUME TypeOK, KeysInv, NEW r \in Requests, Claiming(r), Answered(r), FailureSettles(r),
         UNCHANGED effects
  PROVE KeysInv'
<1> SUFFICES ASSUME NEW k \in Keys PROVE Covered(k)'
  BY DEF KeysInv
<1>0. ReqTypeOK /\ IdempotencyTypeOK /\ Covered(k) /\ req[r].pc \in Mutating
  BY DEF TypeOK, ReqTypeOK, KeysInv, Claiming, Mutating
<1>1. Key(r) \in Keys
  BY <1>0, KeyFact
<1>2. lost' = lost /\ (Has(k) /\ k # Key(r) => Has(k)')
  BY <1>0, <1>1, ReleaseFact DEF FailureSettles
<1>3. ~Claiming(r)' /\ \A q \in Requests \ {r} : req'[q] = req[q]
  BY <1>0, AnsweredFact DEF Claiming
<1>4. /\ k = Key(r) => Cardinality(Claims(k)') = Cardinality(Claims(k)) - 1
      /\ k # Key(r) => Cardinality(Claims(k)') = Cardinality(Claims(k))
  BY <1>3, ClaimsMove
<1>5. effects[k] \in Nat /\ lost[k] \in Nat /\ effects'[k] = effects[k]
  BY DEF TypeOK, IdempotencyTypeOK
<1>6. Cardinality(Claims(k)) \in Nat
  BY ClaimsFinite
<1>7. effects[k] + Cardinality(Claims(k)) <= lost[k] + (IF Has(k) THEN 1 ELSE 0)
  BY <1>0 DEF Covered
<1>8. effects'[k] + Cardinality(Claims(k)') <= lost'[k] + (IF Has(k)' THEN 1 ELSE 0)
  BY <1>2, <1>4, <1>5, <1>6, <1>7, SMT
<1> QED BY <1>8 DEF Covered

\* What leaves the claims alone and loses no entry uncounted keeps every key
\* covered.
LEMMA StillCovered ==
  ASSUME TypeOK, KeysInv, NEW k \in Keys, effects'[k] = effects[k],
         Cardinality(Claims(k)') = Cardinality(Claims(k)),
         \/ lost'[k] = lost[k] + 1
         \/ lost'[k] = lost[k] /\ (Has(k) => Has(k)')
  PROVE Covered(k)'
<1>1. effects[k] \in Nat /\ lost[k] \in Nat /\ Cardinality(Claims(k)) \in Nat
  BY ClaimsFinite DEF TypeOK, IdempotencyTypeOK
<1>2. effects[k] + Cardinality(Claims(k)) <= lost[k] + (IF Has(k) THEN 1 ELSE 0)
  BY DEF KeysInv, Covered
<1>3. effects'[k] + Cardinality(Claims(k)') <= lost'[k] + (IF Has(k)' THEN 1 ELSE 0)
  BY <1>1, <1>2, SMT
<1> QED BY <1>3 DEF Covered

LEMMA KeysNext == TypeOK /\ KeysInv /\ [Next]_vars => KeysInv'
<1> SUFFICES ASSUME TypeOK, KeysInv, [Next]_vars PROVE KeysInv'
  OBVIOUS
<1>0. ReqTypeOK /\ IdempotencyTypeOK
  BY DEF TypeOK, ReqTypeOK
<1>a. ASSUME UNCHANGED <<effects, entries, lost, req>> PROVE KeysInv'
  <2>1. \A k : Claims(k)' = Claims(k) /\ Has(k)' = Has(k)
    BY <1>a DEF Claims, Key, Has
  <2> QED BY <2>1, <1>a, StillCovered DEF KeysInv
<1>b. ASSUME UNCHANGED <<effects, entries, lost>>, NEW r \in Requests,
             ~Claiming(r), ~Claiming(r)', \A q \in Requests \ {r} : req'[q] = req[q]
      PROVE KeysInv'
  <2>1. ASSUME NEW k \in Keys PROVE Cardinality(Claims(k)') = Cardinality(Claims(k))
    BY <1>b, ClaimsMove
  <2>2. ASSUME NEW k \in Keys PROVE Has(k)' = Has(k)
    BY <1>b DEF Has
  <2> QED BY <2>1, <2>2, <1>b, StillCovered DEF KeysInv
<1>1. ASSUME NEW s \in Sessions, PairingActivated(s) PROVE KeysInv'
  BY <1>1, <1>a DEF PairingActivated, idempotencyVars, untouched
<1>2. ASSUME PairingStep, UNCHANGED <<idempotencyVars, requesterVars, req, untouched>> PROVE KeysInv'
  BY <1>2, <1>a DEF idempotencyVars, untouched
<1>3. ASSUME NEW r \in Requests, Arrive(r) PROVE KeysInv'
  <2>1. UNCHANGED <<effects, entries, lost>>
    BY <1>3 DEF Arrive, ExchangeArrives, AttachArrives, MutationArrives, idempotencyVars, untouched
  <2>2. ~Claiming(r)
    BY <1>3, ZenonT(30) DEF Arrive, ExchangeArrives, AttachArrives, MutationArrives, Is, Claiming
  <2>3. ~Claiming(r)' /\ \A q \in Requests \ {r} : req'[q] = req[q]
    <3>1. CASE req' = req
      BY <3>1, <2>2 DEF Claiming
    <3>2. ASSUME NEW s \in Sessions, NEW pc \in {"issue", "attach"},
                 req' = [req EXCEPT ![r] = [Idle EXCEPT !.pc = pc, !.session = s]]
          PROVE ~Claiming(r)' /\ \A q \in Requests \ {r} : req'[q] = req[q]
      BY <3>2, <1>0 DEF Claiming, Idle, ReqTypeOK
    <3>3. ASSUME NEW s \in Sessions, NEW n \in Names, NEW op \in Operations,
                 req' = [req EXCEPT ![r] = [Idle EXCEPT !.pc = "touch", !.session = s,
                                                        !.name = n, !.op = op]]
          PROVE ~Claiming(r)' /\ \A q \in Requests \ {r} : req'[q] = req[q]
      BY <3>3, <1>0 DEF Claiming, Idle, ReqTypeOK
    <3>4. ASSUME NEW s \in Sessions, NEW b \in BOOLEAN, ExchangeArrives(r, s, b)
          PROVE ~Claiming(r)' /\ \A q \in Requests \ {r} : req'[q] = req[q]
      BY <3>1, <3>2, <3>4 DEF ExchangeArrives
    <3>5. ASSUME NEW s \in Sessions, NEW b \in BOOLEAN, AttachArrives(r, s, b)
          PROVE ~Claiming(r)' /\ \A q \in Requests \ {r} : req'[q] = req[q]
      BY <3>1, <3>2, <3>5 DEF AttachArrives
    <3>6. ASSUME NEW s \in Sessions, NEW n \in Names, NEW op \in Operations,
                 NEW peer \in Peers, MutationArrives(r, s, n, op, peer)
          PROVE ~Claiming(r)' /\ \A q \in Requests \ {r} : req'[q] = req[q]
      BY <3>3, <3>6 DEF MutationArrives
    <3> QED BY <1>3, <3>4, <3>5, <3>6 DEF Arrive
  <2> QED BY <2>1, <2>2, <2>3, <1>b
<1>4. ASSUME NEW r \in Requests, ExchangeIssues(r) \/ AttachIssues(r) PROVE KeysInv'
  <2>1. ~Claiming(r) /\ Answered(r) /\ UNCHANGED <<effects, entries, lost>>
    BY <1>4 DEF ExchangeIssues, AttachIssues, Is, Claiming, idempotencyVars, untouched
  <2>2. ~Claiming(r)' /\ \A q \in Requests \ {r} : req'[q] = req[q]
    BY <2>1, <1>0, AnsweredFact DEF Claiming
  <2> QED BY <2>1, <2>2, <1>b
<1>5. ASSUME NEW r \in Requests, MutationClaims(r) PROVE KeysInv'
  <2>1. ~Claiming(r) /\ Key(r) \in Keys /\ req[r].op \in Operations /\ req[r].pc \in Mutating
    BY <1>5, <1>0, KeyFact DEF MutationClaims, Is, Claiming, Mutating
  <2>2. UNCHANGED effects
    BY <1>5 DEF MutationClaims, untouched
  <2>3. CASE Answered(r) /\ UNCHANGED idempotencyVars
    <3>1. ~Claiming(r)' /\ \A q \in Requests \ {r} : req'[q] = req[q]
      BY <2>3, <1>0, AnsweredFact DEF Claiming
    <3> QED BY <2>1, <2>2, <2>3, <3>1, <1>b DEF idempotencyVars
  <2>4. CASE ~Has(Key(r)) /\ Claim(Key(r), req[r].op) /\ To(r, "again")
    <3>1. /\ Claiming(r)' /\ Key(r)' = Key(r)
          /\ \A q \in Requests \ {r} : req'[q] = req[q]
      BY <2>1, <2>4, <1>0, ToFact DEF Claiming, Key
    <3>2. /\ \A q \in Keys : lost'[q] \in {lost[q], lost[q] + 1}
          /\ \A q \in Keys : Has(q) \/ q = Key(r) => Has(q)' \/ lost'[q] = lost[q] + 1
      BY <2>1, <2>4, <1>0, ClaimFact
    <3>3. ASSUME NEW k \in Keys, k # Key(r) PROVE Covered(k)'
      <4>1. Cardinality(Claims(k)') = Cardinality(Claims(k))
        BY <2>1, <3>1, <3>3, ClaimsMove
      <4> QED BY <2>2, <3>2, <4>1, StillCovered
    <3>4. ASSUME NEW k \in Keys, k = Key(r) PROVE Covered(k)'
      <4>1. Cardinality(Claims(k)') = Cardinality(Claims(k)) + 1
        BY <2>1, <3>1, <3>4, ClaimsMove
      <4>2. effects[k] \in Nat /\ lost[k] \in Nat /\ Cardinality(Claims(k)) \in Nat
        BY ClaimsFinite DEF TypeOK, IdempotencyTypeOK
      <4>3. effects[k] + Cardinality(Claims(k)) <= lost[k]
        BY <2>4, <3>4, <4>2, SMT DEF KeysInv, Covered
      <4>4. lost'[k] = lost[k] + 1 \/ (lost'[k] = lost[k] /\ Has(k)')
        BY <3>2, <3>4
      <4>5. effects'[k] + Cardinality(Claims(k)') <= lost'[k] + (IF Has(k)' THEN 1 ELSE 0)
        BY <2>2, <4>1, <4>2, <4>3, <4>4, SMT
      <4> QED BY <4>5 DEF Covered
    <3> QED BY <3>3, <3>4 DEF KeysInv
  <2> QED BY <1>5, <2>3, <2>4 DEF MutationClaims, Answer
<1>6. ASSUME NEW r \in Requests, NEW ok \in BOOLEAN, MutationRuns(r, ok) PROVE KeysInv'
  <2>1. Claiming(r) /\ UNCHANGED effects /\ req[r].pc \in Mutating
    BY <1>6 DEF MutationRuns, Is, Claiming, Mutating, untouched
  <2>2. CASE Answered(r) /\ FailureSettles(r)
    BY <2>1, <2>2, FailureCovered
  <2>3. ASSUME NEW pc \in {"run", "remote"}, To(r, pc), UNCHANGED idempotencyVars PROVE KeysInv'
    <3>1. Claiming(r)' /\ Key(r)' = Key(r) /\ \A q \in Requests \ {r} : req'[q] = req[q]
      BY <2>1, <2>3, <1>0, ToFact DEF Claiming, Key
    <3>2. ASSUME NEW k \in Keys PROVE Covered(k)'
      <4>1. Cardinality(Claims(k)') = Cardinality(Claims(k))
        BY <2>1, <3>1, ClaimsMove
      <4> QED BY <2>1, <2>3, <4>1, StillCovered DEF idempotencyVars, Has
    <3> QED BY <3>2 DEF KeysInv
  <2> QED BY <1>6, <2>2, <2>3 DEF MutationRuns
<1>7. ASSUME NEW r \in Requests, NEW ok \in BOOLEAN, LocalOperation(r, ok) PROVE KeysInv'
  <2>1. Claiming(r) /\ req[r].pc \in Mutating /\ Key(r) \in Keys
    BY <1>7, <1>0, KeyFact DEF LocalOperation, Is, Claiming, Mutating
  <2>2. CASE Answered(r) /\ FailureSettles(r) /\ UNCHANGED effects
    BY <2>1, <2>2, FailureCovered
  <2>3. CASE /\ effects' = [effects EXCEPT ![Key(r)] = @ + 1]
             /\ To(r, "settle") /\ UNCHANGED idempotencyVars
    <3>1. ~Claiming(r)' /\ \A q \in Requests \ {r} : req'[q] = req[q]
      BY <2>1, <2>3, <1>0, ToFact DEF Claiming
    <3>2. ASSUME NEW k \in Keys PROVE Covered(k)'
      <4>1. Has(k)' = Has(k) /\ lost' = lost
        BY <2>3 DEF idempotencyVars, Has
      <4>2. CASE k # Key(r)
        <5>1. Cardinality(Claims(k)') = Cardinality(Claims(k))
          BY <2>1, <3>1, <4>2, ClaimsMove
        <5> QED BY <2>3, <4>1, <4>2, <5>1, StillCovered, ZenonT(30) DEF TypeOK
      <4>3. CASE k = Key(r)
        <5>1. Cardinality(Claims(k)') = Cardinality(Claims(k)) - 1
          BY <2>1, <3>1, <4>3, ClaimsMove
        <5>2. effects'[k] = effects[k] + 1
          BY <2>3, <4>3 DEF TypeOK
        <5>3. effects[k] \in Nat /\ lost[k] \in Nat /\ Cardinality(Claims(k)) \in Nat
          BY ClaimsFinite DEF TypeOK, IdempotencyTypeOK
        <5>4. effects[k] + Cardinality(Claims(k)) <= lost[k] + (IF Has(k) THEN 1 ELSE 0)
          BY DEF KeysInv, Covered
        <5>5. effects'[k] + Cardinality(Claims(k)') <= lost'[k] + (IF Has(k)' THEN 1 ELSE 0)
          BY <4>1, <5>1, <5>2, <5>3, <5>4, SMT
        <5> QED BY <5>5 DEF Covered
      <4> QED BY <4>2, <4>3
    <3> QED BY <3>2 DEF KeysInv
  <2> QED BY <1>7, <2>2, <2>3 DEF LocalOperation
<1>8. ASSUME NEW r \in Requests, NEW x \in Inputs, RemoteBegins(r, x) PROVE KeysInv'
  <2>1. /\ Claiming(r) /\ Claiming(r)' /\ Key(r)' = Key(r)
        /\ \A q \in Requests \ {r} : req'[q] = req[q]
    BY <1>8, <1>0, SMT DEF RemoteBegins, Is, Claiming, Key, ReqTypeOK, Request
  <2>2. ASSUME NEW k \in Keys PROVE Covered(k)'
    <3>1. Cardinality(Claims(k)') = Cardinality(Claims(k))
      BY <2>1, ClaimsMove
    <3> QED BY <1>8, <3>1, StillCovered DEF RemoteBegins, idempotencyVars, untouched, Has
  <2> QED BY <2>2 DEF KeysInv
<1>9. ASSUME NEW r \in Requests, RemoteEnds(r) PROVE KeysInv'
  <2>1. Claiming(r) /\ req[r].pc \in Mutating /\ UNCHANGED effects
    BY <1>9 DEF RemoteEnds, Is, Claiming, Mutating, untouched
  <2>2. CASE Answered(r) /\ FailureSettles(r)
    BY <2>1, <2>2, FailureCovered
  <2>3. CASE To(r, "settle") /\ UNCHANGED idempotencyVars
    <3>1. ~Claiming(r)' /\ \A q \in Requests \ {r} : req'[q] = req[q]
      BY <2>1, <2>3, <1>0, ToFact, ZenonT(30) DEF Claiming
    <3>2. ASSUME NEW k \in Keys PROVE Covered(k)'
      <4>1. Cardinality(Claims(k)') \in {Cardinality(Claims(k)), Cardinality(Claims(k)) - 1}
        BY <2>1, <3>1, ClaimsMove
      <4>2. effects[k] \in Nat /\ lost[k] \in Nat /\ Cardinality(Claims(k)) \in Nat
        BY ClaimsFinite DEF TypeOK, IdempotencyTypeOK
      <4>3. effects[k] + Cardinality(Claims(k)) <= lost[k] + (IF Has(k) THEN 1 ELSE 0)
        BY DEF KeysInv, Covered
      <4>4. Has(k)' = Has(k) /\ lost' = lost /\ effects' = effects
        BY <2>1, <2>3 DEF idempotencyVars, Has
      <4>5. effects'[k] + Cardinality(Claims(k)') <= lost'[k] + (IF Has(k)' THEN 1 ELSE 0)
        BY <4>1, <4>2, <4>3, <4>4, SMT
      <4> QED BY <4>5 DEF Covered
    <3> QED BY <3>2 DEF KeysInv
  <2> QED BY <1>9, <2>2, <2>3 DEF RemoteEnds
<1>10. ASSUME NEW r \in Requests, MutationSettles(r) PROVE KeysInv'
  <2>1. ~Claiming(r) /\ Key(r) \in Keys /\ req[r].op \in Operations /\ UNCHANGED effects
    BY <1>10, <1>0, KeyFact DEF MutationSettles, Is, Claiming, Mutating, untouched
  <2>2. ~Claiming(r)' /\ \A q \in Requests \ {r} : req'[q] = req[q]
    BY <1>10, <1>0, AnsweredFact DEF MutationSettles, Claiming
  <2>3. lost' = lost /\ \A q : Has(q) => Has(q)'
    BY <1>10, <1>0, <2>1, CompleteFact DEF MutationSettles
  <2>4. ASSUME NEW k \in Keys PROVE Covered(k)'
    <3>1. Cardinality(Claims(k)') = Cardinality(Claims(k))
      BY <2>1, <2>2, ClaimsMove
    <3> QED BY <2>1, <2>3, <3>1, StillCovered
  <2> QED BY <2>4 DEF KeysInv
<1>11. ASSUME NEW x \in Inputs, RequesterStep(x) \/ UserStep(x) PROVE KeysInv'
  BY <1>11, <1>a DEF RequesterStep, UserStep, idempotencyVars, untouched
<1>12. ASSUME EntryExpires PROVE KeysInv'
  <2>1. UNCHANGED <<req, effects>>
    BY <1>12 DEF EntryExpires, untouched
  <2>2. /\ \A q \in Keys : lost'[q] \in {lost[q], lost[q] + 1}
        /\ \A q \in Keys : Has(q) => Has(q)' \/ lost'[q] = lost[q] + 1
    BY <1>12, <1>0, ExpireFact DEF EntryExpires
  <2>3. \A k : Claims(k)' = Claims(k)
    BY <2>1 DEF Claims, Key
  <2> QED BY <2>1, <2>2, <2>3, StillCovered DEF KeysInv
<1>13. ASSUME Restart PROVE KeysInv'
  <2>1. UNCHANGED effects /\ \A q \in Keys : lost'[q] = IF Has(q) THEN lost[q] + 1 ELSE lost[q]
    BY <1>13, <1>0, ForgetFact DEF Restart, untouched
  <2>2. ASSUME NEW k \in Keys PROVE Covered(k)'
    <3>1. Claims(k)' = {}
      BY <1>13 DEF Restart, Claims, Idle
    <3>2. Cardinality(Claims(k)') = 0
      BY <3>1, FS_EmptySet
    <3>3. effects[k] \in Nat /\ lost[k] \in Nat /\ Cardinality(Claims(k)) \in Nat
      BY ClaimsFinite DEF TypeOK, IdempotencyTypeOK
    <3>4. effects[k] + Cardinality(Claims(k)) <= lost[k] + (IF Has(k) THEN 1 ELSE 0)
      BY DEF KeysInv, Covered
    <3>5. effects'[k] + Cardinality(Claims(k)') <= lost'[k] + (IF Has(k)' THEN 1 ELSE 0)
      BY <2>1, <3>2, <3>3, <3>4, SMT
    <3> QED BY <3>5 DEF Covered
  <2> QED BY <2>2 DEF KeysInv
<1>14. CASE UNCHANGED vars
  BY <1>14, <1>a DEF vars, idempotencyVars
<1> QED
  BY <1>1, <1>2, <1>3, <1>4, <1>5, <1>6, <1>7, <1>8, <1>9, <1>10, <1>11, <1>12, <1>13, <1>14, SMTT(30)
  DEF Next, Serve

\* A keyed mutation is carried out at most once more than its key has lost its
\* entry, for any size of the store and any requests (idempotencyStore.ts).
THEOREM AppliedOnceTheorem == Spec => []AppliedOnce
<1>1. Init => TypeOK /\ KeysInv
  BY TypeInit, KeysFirst
<1>2. TypeOK /\ KeysInv /\ [Next]_vars => (TypeOK /\ KeysInv)'
  BY TypeStep, KeysNext
<1>3. ASSUME TypeOK, KeysInv, NEW k \in Keys PROVE effects[k] <= 1 + lost[k]
  <2>1. effects[k] \in Nat /\ lost[k] \in Nat /\ Cardinality(Claims(k)) \in Nat
    BY <1>3, ClaimsFinite DEF TypeOK, IdempotencyTypeOK
  <2>2. effects[k] + Cardinality(Claims(k)) <= lost[k] + (IF Has(k) THEN 1 ELSE 0)
    BY <1>3 DEF KeysInv, Covered
  <2> QED BY <2>1, <2>2, SMT
<1>4. TypeOK /\ KeysInv => AppliedOnce
  BY <1>3 DEF AppliedOnce
<1> QED BY <1>1, <1>2, <1>4, PTL DEF Spec
=============================================================================
