------------------------ MODULE ElectronShell_proofs ------------------------
(***************************************************************************)
(* Theorems about the Electron shell, for any sizes, guests and resizes,    *)
(* any number of calls, processes and runs of ensureCoredProcess.           *)
(*                                                                          *)
(* The ledger of resizes (ResizeSettlement): that a receipt is true rests   *)
(* on what a transaction has gathered so far (PendingIsTrue).               *)
(*                                                                          *)
(* The bridge to cored (ElectronBridge): that a call gets its own answer    *)
(* rests on ids being unique over everything that is under way, WireIsTrue, *)
(* and on a call waiting in one place only, WaitersJoin; that no process    *)
(* is left behind on ChildrenAreKnown; that cored knows the windows on      *)
(* what is still on its way to it, HostInforms.                             *)
(***************************************************************************)
EXTENDS ResizeSettlement, ElectronBridge, FiniteSetTheorems, SequenceTheorems, TLAPS

-----------------------------------------------------------------------------
(* Sequences without repetition. *)

\* The range of a queue that was added to.
LEMMA RangeOfAppend ==
    ASSUME NEW S, NEW s \in Seq(S), NEW x \in S
    PROVE  Range(Append(s, x)) = Range(s) \cup {x}
<1>1. /\ DOMAIN Append(s, x) = 1..(Len(s) + 1) /\ DOMAIN s = 1..Len(s) /\ Len(s) \in Nat
      /\ Append(s, x)[Len(s) + 1] = x
      /\ \A i \in 1..Len(s) : Append(s, x)[i] = s[i]
  BY AppendProperties, LenProperties
<1>2. 1..(Len(s) + 1) = 1..Len(s) \cup {Len(s) + 1}
  BY <1>1
<1>3. QED
  BY <1>1, <1>2 DEF Range

\* A queue without repetition stays so when somebody new comes.
LEMMA InjectiveAppend ==
    ASSUME NEW S, NEW s \in Seq(S), NEW x \in S, IsInjective(s), x \notin Range(s)
    PROVE  IsInjective(Append(s, x))
<1>1. /\ DOMAIN Append(s, x) = 1..(Len(s) + 1) /\ DOMAIN s = 1..Len(s) /\ Len(s) \in Nat
      /\ Append(s, x)[Len(s) + 1] = x
      /\ \A i \in 1..Len(s) : Append(s, x)[i] = s[i]
  BY AppendProperties, LenProperties
<1>2. \A i \in 1..Len(s) : s[i] # x
  BY <1>1 DEF Range
<1>3. SUFFICES ASSUME NEW i \in 1..(Len(s) + 1), NEW j \in 1..(Len(s) + 1),
                      Append(s, x)[i] = Append(s, x)[j]
               PROVE  i = j
  BY <1>1 DEF IsInjective
<1>4. CASE i = Len(s) + 1 /\ j # Len(s) + 1
  BY <1>1, <1>2, <1>3, <1>4
<1>5. CASE j = Len(s) + 1 /\ i # Len(s) + 1
  BY <1>1, <1>2, <1>3, <1>5
<1>6. CASE i # Len(s) + 1 /\ j # Len(s) + 1
  <2>1. i \in 1..Len(s) /\ j \in 1..Len(s)
    BY <1>1, <1>6
  <2>2. QED
    BY <2>1, <1>1, <1>3 DEF IsInjective
<1>7. QED
  BY <1>4, <1>5, <1>6

\* What the first of a queue leaves behind.
LEMMA RangeOfTail ==
    ASSUME NEW S, NEW s \in Seq(S), s # <<>>
    PROVE  /\ Head(s) \in S /\ Tail(s) \in Seq(S)
           /\ Range(s) = Range(Tail(s)) \cup {Head(s)}
           /\ IsInjective(s) => IsInjective(Tail(s)) /\ Head(s) \notin Range(Tail(s))
<1>1. /\ Head(s) \in S /\ Head(s) = s[1] /\ Tail(s) \in Seq(S)
      /\ Len(s) \in Nat \ {0} /\ DOMAIN s = 1..Len(s) /\ DOMAIN Tail(s) = 1..(Len(s) - 1)
      /\ \A i \in 1..(Len(s) - 1) : Tail(s)[i] = s[i + 1]
  BY HeadTailProperties, LenProperties, EmptySeq
<1>2. \A i \in 1..Len(s) : i = 1 \/ (i - 1 \in 1..(Len(s) - 1) /\ Tail(s)[i - 1] = s[i])
  BY <1>1
<1>3. \A i \in 1..(Len(s) - 1) : i + 1 \in 1..Len(s)
  BY <1>1
<1>4. ASSUME NEW i \in 1..Len(s) PROVE s[i] \in Range(Tail(s)) \cup {Head(s)}
  <2>1. CASE i = 1
    BY <2>1, <1>1
  <2>2. CASE i - 1 \in 1..(Len(s) - 1) /\ Tail(s)[i - 1] = s[i]
    BY <2>2, <1>1 DEF Range
  <2>3. QED
    BY <1>2, <2>1, <2>2
<1>5. Range(Tail(s)) \cup {Head(s)} \subseteq Range(s)
  BY <1>1, <1>3 DEF Range
<1>6. ASSUME IsInjective(s)
      PROVE  IsInjective(Tail(s)) /\ Head(s) \notin Range(Tail(s))
  <2>1. ASSUME NEW i \in 1..(Len(s) - 1), NEW j \in 1..(Len(s) - 1), Tail(s)[i] = Tail(s)[j]
        PROVE  i = j
    BY <2>1, <1>1, <1>3, <1>6 DEF IsInjective
  <2>2. ASSUME NEW i \in 1..(Len(s) - 1)
        PROVE  Tail(s)[i] # Head(s)
    BY <1>1, <1>3, <1>6 DEF IsInjective
  <2>3. QED
    BY <2>1, <2>2, <1>1 DEF IsInjective, Range
<1>7. QED
  BY <1>1, <1>4, <1>5, <1>6 DEF Range

-----------------------------------------------------------------------------
(* Resizes. *)

Size == Sizes \cup {NoSize}
PendingType ==
    [of : Resizes, requested : Sizes, nativeSeen : BOOLEAN, actual : Sizes,
     proof : [Targets -> Size],
     check : [Guests -> [event : Size, measured : Size, queued : Size]]]
PageType == [Targets -> [laid : Sizes, frame : Size]]
AskedType ==
    [Resizes -> [st : {"new", "asked", "settled", "failed"}, size : Size, proof : [Targets -> Size]]]
LeaseType == [leases : SUBSET {"ledger", "other"}, native : BOOLEAN]

\* A lease is held exactly as long as its holder needs it.
SubscriptionsAreHeld ==
    \A t \in Targets :
       /\ broker[t].native <=> broker[t].leases # {}
       /\ "ledger" \in broker[t].leases <=> InTransaction

\* Of the requests, those of the queue q and no others wait there.
Queued(q, asked) ==
    /\ IsInjective(q)
    /\ \A r \in Resizes :
         /\ (asked[r].st = "asked") <=> (r \in Range(q))
         /\ asked[r].st = "asked" => asked[r].size \in Sizes

\* A request is queued once, or under way, or not to be answered any more; the queue is
\* drained as long as no turn has thrown.
RequestsAreQueued ==
    /\ IsInjective(queue)
    /\ InTransaction => pending.of \notin Range(queue) /\ running = "yes"
    /\ running = "no" => queue = <<>>
    /\ thrown # "none" => running = "yes" /\ ~InTransaction /\ request[thrown].st # "new"
    /\ \A r \in Resizes :
         /\ thrown # r => ((request[r].st = "asked") <=>
                             (r \in Range(queue) \/ (InTransaction /\ pending.of = r)))
         /\ request[r].st = "asked" => request[r].size \in Sizes

\* What the settled of the requests were told.
Receipts(asked) ==
    \A r \in Resizes : asked[r].st = "settled" =>
        /\ asked[r].proof[renderer] = asked[r].size
        /\ \A g \in Guests : asked[r].proof[g] # NoSize

\* A transaction is about the size its request asked for, and has seen and shown no other.
Gathered(p) ==
    /\ p.requested = request[p.of].size
    /\ p.nativeSeen => p.actual = p.requested
    /\ p.proof[renderer] # NoSize => p.proof[renderer] = p.requested

PendingIsTrue == InTransaction => Gathered(pending)

LedgerInv ==
    /\ LedgerTypeOK /\ SubscriptionsAreHeld /\ RequestsAreQueued
    /\ PendingIsTrue /\ ReceiptIsTrue

\* What can be a transaction is one.
LEMMA TransactionsAre ==
    ASSUME NEW p \in PendingType PROVE p # NoPending /\ p.of \in Resizes
BY LedgerAssumption DEF PendingType, NoPending

\* The invariant implies the property.
LEMMA LedgerInvImplies == LedgerInv => ResizeIsSound
<1> SUFFICES ASSUME LedgerInv PROVE LeasesAreSound
  BY DEF ResizeIsSound, LedgerInv
<1>1. \A r \in Resizes : pending.of = r => InTransaction
  BY LedgerAssumption DEF InTransaction, NoPending
<1>2. QED
  BY <1>1 DEF LedgerInv, LeasesAreSound, SubscriptionsAreHeld, RequestsAreQueued

-----------------------------------------------------------------------------
(* The broker. *)

LEMMA ReleaseFacts ==
    ASSUME NEW b \in LeaseType, NEW who, b.native <=> b.leases # {}
    PROVE  /\ release(b, who) \in LeaseType
           /\ release(b, who).leases = b.leases \ {who}
           /\ release(b, who).native <=> release(b, who).leases # {}
BY DEF release, LeaseType

LEMMA AcquireFacts ==
    ASSUME NEW b \in LeaseType, NEW who \in {"ledger", "other"}
    PROVE  /\ acquire(b, who) \in LeaseType
           /\ acquire(b, who).leases = b.leases \cup {who}
           /\ acquire(b, who).native <=> acquire(b, who).leases # {}
BY DEF acquire, LeaseType

LEMMA KeptType ==
    ASSUME NEW p \in PageType, NEW b PROVE Kept(p, b) \in PageType
BY DEF Kept, PageType, Size

\* The ledger gives its leases back.
LEMMA ReleasedFacts ==
    ASSUME LedgerTypeOK, SubscriptionsAreHeld
    PROVE  /\ Released \in [Targets -> LeaseType]
           /\ \A t \in Targets : /\ Released[t].native <=> Released[t].leases # {}
                                 /\ "ledger" \notin Released[t].leases
<1>1. \A t \in Targets : broker[t] \in LeaseType /\ (broker[t].native <=> broker[t].leases # {})
  BY DEF LedgerTypeOK, SubscriptionsAreHeld, LeaseType
<1>2. \A t \in Targets :
        /\ release(broker[t], "ledger") \in LeaseType
        /\ release(broker[t], "ledger").leases = broker[t].leases \ {"ledger"}
        /\ release(broker[t], "ledger").native <=> release(broker[t], "ledger").leases # {}
  BY <1>1, ReleaseFacts
<1>3. QED
  BY <1>2 DEF Released

-----------------------------------------------------------------------------
(* The end of a step that looked whether the transaction is complete. *)

\* A transaction that ends, whatever was told.
LEMMA EndKeeps ==
    ASSUME LedgerInv, InTransaction,
           pending' = NoPending, broker' = Released, queue' = queue,
           running' = "over", thrown' = thrown,
           NEW ending \in [st : {"new", "asked", "settled", "failed"}, size : Size,
                           proof : [Targets -> Size]],
           request' = [request EXCEPT ![pending.of] = ending],
           ending.st \in {"settled", "failed"},
           ending.st = "settled" => /\ ending.proof[renderer] = ending.size
                                    /\ \A g \in Guests : ending.proof[g] # NoSize
    PROVE  /\ request' \in AskedType
           /\ broker' \in [Targets -> LeaseType]
           /\ ~InTransaction'
           /\ SubscriptionsAreHeld' /\ RequestsAreQueued' /\ ReceiptIsTrue'
<1>1. ~InTransaction'
  BY DEF InTransaction, NoPending
<1>2. pending.of \in Resizes /\ pending.of \notin Range(queue) /\ thrown = "none"
  BY DEF LedgerInv, LedgerTypeOK, RequestsAreQueued
<1>3. request \in AskedType
  BY DEF LedgerInv, LedgerTypeOK, AskedType, Size
<1>4. /\ request' \in AskedType
      /\ request'[pending.of] = ending
      /\ \A r \in Resizes : r # pending.of => request'[r] = request[r]
  BY <1>2, <1>3 DEF AskedType
<1>5. broker' \in [Targets -> LeaseType] /\ SubscriptionsAreHeld'
  <2>1. /\ Released \in [Targets -> LeaseType]
        /\ \A t \in Targets : /\ Released[t].native <=> Released[t].leases # {}
                              /\ "ledger" \notin Released[t].leases
    BY ReleasedFacts DEF LedgerInv
  <2>2. QED
    BY <2>1, <1>1 DEF SubscriptionsAreHeld
<1>6. RequestsAreQueued'
  <2>1. IsInjective(queue')
    BY DEF LedgerInv, RequestsAreQueued
  <2>2. ASSUME NEW r \in Resizes
        PROVE  /\ (request'[r].st = "asked") <=> r \in Range(queue')
               /\ request'[r].st = "asked" => request'[r].size \in Sizes
    <3>1. CASE r = pending.of
      BY <3>1, <1>2, <1>4
    <3>2. CASE r # pending.of
      BY <3>2, <1>2, <1>4, LedgerAssumption DEF LedgerInv, RequestsAreQueued
    <3>3. QED
      BY <3>1, <3>2
  <2>3. QED
    BY <2>1, <2>2, <1>1, <1>2 DEF RequestsAreQueued
<1>7. ReceiptIsTrue'
  BY <1>4 DEF LedgerInv, ReceiptIsTrue
<1>8. QED
  BY <1>1, <1>4, <1>5, <1>6, <1>7

\* A transaction that goes on, or ends with its receipt.
LEMMA ContinueKeeps ==
    ASSUME LedgerInv, InTransaction, queue' = queue, thrown' = thrown,
           NEW p \in PendingType, p.of = pending.of, Gathered(p), Continue(p)
    PROVE  /\ request' \in AskedType
           /\ broker' \in [Targets -> LeaseType]
           /\ running' \in {"no", "yes", "over"}
           /\ InTransaction' => pending' \in PendingType
           /\ SubscriptionsAreHeld' /\ RequestsAreQueued' /\ PendingIsTrue' /\ ReceiptIsTrue'
<1>1. request \in AskedType
  BY DEF LedgerInv, LedgerTypeOK, AskedType, Size
<1>2. broker \in [Targets -> LeaseType]
  BY DEF LedgerInv, LedgerTypeOK, LeaseType
<1>0. running \in {"no", "yes", "over"}
  BY DEF LedgerInv, LedgerTypeOK
<1>3. CASE Finishes(p)
  <2> DEFINE ending == [request[p.of] EXCEPT !.st = "settled", !.proof = p.proof]
  <2>1. p.of \in Resizes /\ p.proof \in [Targets -> Size]
    BY DEF PendingType
  <2>2. /\ pending' = NoPending /\ broker' = Released /\ running' = "over"
        /\ request' = [request EXCEPT ![pending.of] = ending]
    BY <1>3, <1>1, <2>1 DEF Continue
  <2>3. /\ ending \in [st : {"new", "asked", "settled", "failed"}, size : Size,
                       proof : [Targets -> Size]]
        /\ ending.st = "settled" /\ ending.size = request[p.of].size /\ ending.proof = p.proof
    BY <1>1, <2>1 DEF AskedType
  <2>4. /\ ending.proof[renderer] = ending.size
        /\ \A g \in Guests : ending.proof[g] # NoSize
    BY <1>3, <2>3 DEF Finishes, Gathered, Targets
  <2> HIDE DEF ending
  <2>5. QED
    BY <2>2, <2>3, <2>4, EndKeeps DEF PendingIsTrue
<1>4. CASE ~Finishes(p)
  <2>1. pending' = p /\ request' = request /\ broker' = broker /\ running' = running
    BY <1>4 DEF Continue
  <2>2. InTransaction'
    BY <2>1, TransactionsAre DEF InTransaction, NoPending
  <2>3. SubscriptionsAreHeld' /\ ReceiptIsTrue'
    BY <2>1, <2>2 DEF LedgerInv, SubscriptionsAreHeld, ReceiptIsTrue
  <2>4. RequestsAreQueued'
    BY <2>1, <2>2 DEF LedgerInv, RequestsAreQueued
  <2>5. PendingIsTrue'
    BY <2>1 DEF PendingIsTrue, Gathered
  <2>6. QED
    BY <2>1, <2>3, <2>4, <2>5, <1>0, <1>1, <1>2
<1>5. QED
  BY <1>3, <1>4
-----------------------------------------------------------------------------
(* Every step keeps the invariant. *)

\* The first of a queue has its turn: it becomes a transaction, is refused or throws.
LEMMA DrainKeeps ==
    ASSUME LedgerTypeOK, SubscriptionsAreHeld, ~InTransaction, thrown = "none",
           NEW q \in Seq(Resizes), NEW asked \in AskedType, NEW own, Queued(q, asked), Receipts(asked),
           drain(q, asked, own), UNCHANGED <<page, external>>
    PROVE  LedgerInv'
<1>1. CASE q = <<>>
  <2>1. /\ UNCHANGED <<pending, broker, win, toTell, thrown, page, external>>
        /\ queue' = q /\ running' = "no" /\ request' = asked
    BY <1>1 DEF drain
  <2>2. LedgerTypeOK' /\ SubscriptionsAreHeld' /\ ~InTransaction'
    BY <2>1 DEF LedgerTypeOK, SubscriptionsAreHeld, InTransaction, Queued, AskedType, Size
  <2>3. RequestsAreQueued'
    BY <2>1, <2>2, <1>1 DEF RequestsAreQueued, Queued, AskedType
  <2>4. QED
    BY <2>1, <2>2, <2>3 DEF LedgerInv, PendingIsTrue, ReceiptIsTrue, Receipts
<1>2. CASE q # <<>>
  <2> DEFINE r == Head(q)
  <2>1. /\ queue' = Tail(q) /\ UNCHANGED <<page, external>>
        /\ \/ \E to \in Sizes : perform(r, asked, to)
           \/ Refused(r, asked)
           \/ Throws(r, asked, own)
    BY <1>2 DEF drain
  <2>2. /\ r \in Resizes /\ queue' \in Seq(Resizes)
        /\ Range(q) = Range(queue') \cup {r}
        /\ IsInjective(queue') /\ r \notin Range(queue')
    BY <1>2, <2>1, RangeOfTail DEF Queued
  <2> HIDE DEF r
  <2>3. /\ asked[r].st = "asked" /\ asked[r].size \in Sizes
    BY <2>2 DEF Queued, AskedType
  <2>4. ASSUME NEW to \in Sizes, perform(r, asked, to)
        PROVE  LedgerInv'
    <3>1. /\ pending' \in PendingType /\ pending'.of = r
          /\ pending'.requested = asked[r].size
          /\ pending'.nativeSeen => win = asked[r].size
          /\ pending'.actual = win /\ \A t \in Targets : pending'.proof[t] = NoSize
      BY <2>2, <2>3, <2>4 DEF perform, PendingType, Size, Unmeasured, LedgerTypeOK
    <3>2. InTransaction'
      BY <3>1, TransactionsAre DEF InTransaction
    <3>3. /\ broker' \in [Targets -> LeaseType]
          /\ \A t \in Targets : /\ broker'[t].native <=> broker'[t].leases # {}
                                /\ "ledger" \in broker'[t].leases
      <4>1. ASSUME NEW t \in Targets
            PROVE  /\ acquire(broker[t], "ledger") \in LeaseType
                   /\ acquire(broker[t], "ledger").leases = broker[t].leases \cup {"ledger"}
                   /\ acquire(broker[t], "ledger").native
                        <=> acquire(broker[t], "ledger").leases # {}
        BY AcquireFacts DEF LedgerTypeOK, LeaseType
      <4>2. broker' = [t \in Targets |-> acquire(broker[t], "ledger")]
        BY <2>4 DEF perform
      <4>3. QED
        BY <4>1, <4>2
    <3>4. request' = asked /\ running' = "yes" /\ thrown' = thrown
      BY <2>4 DEF perform
    <3>5. LedgerTypeOK'
      BY <2>1, <2>2, <2>3, <2>4, <3>1, <3>3, <3>4
      DEF LedgerTypeOK, perform, PendingType, LeaseType, AskedType, Size
    <3>6. SubscriptionsAreHeld'
      BY <3>2, <3>3 DEF SubscriptionsAreHeld
    <3>7. RequestsAreQueued'
      BY <2>2, <3>1, <3>2, <3>4 DEF RequestsAreQueued, Queued, AskedType
    <3>8. PendingIsTrue'
      BY <3>1, <3>4 DEF PendingIsTrue, Gathered, Targets
    <3>9. ReceiptIsTrue'
      BY <3>4 DEF ReceiptIsTrue, Receipts
    <3>10. QED
      BY <3>5, <3>6, <3>7, <3>8, <3>9 DEF LedgerInv
  <2>5. ASSUME \/ Refused(r, asked)
               \/ Throws(r, asked, own)
        PROVE  LedgerInv'
    <3>1. /\ UNCHANGED <<pending, broker, win, toTell>> /\ ~InTransaction'
          /\ request' = asked \/ request' = [asked EXCEPT ![r].st = "failed"]
      BY <2>5 DEF Refused, Throws, InTransaction
    <3>2. /\ request' \in AskedType
          /\ \A q2 \in Resizes \ {r} : request'[q2] = asked[q2]
          /\ request'[r].st \in {"asked", "failed"} /\ request'[r].size = asked[r].size
      <4>1. CASE request' = asked
        BY <2>3, <4>1
      <4>2. CASE request' = [asked EXCEPT ![r].st = "failed"]
        BY <2>2, <4>2 DEF AskedType
      <4>3. QED
        BY <3>1, <4>1, <4>2
    <3>3. \/ running' = "over" /\ thrown' = "none" /\ request'[r].st = "failed"
          \/ running' = "yes" /\ thrown' = r
      BY <2>2, <2>3, <2>5 DEF Refused, Throws, AskedType
    <3>4. LedgerTypeOK' /\ SubscriptionsAreHeld'
      BY <2>1, <2>2, <3>1, <3>2, <3>3
      DEF LedgerTypeOK, SubscriptionsAreHeld, InTransaction, AskedType, Size
    <3>5. RequestsAreQueued'
      <4>1. \A q2 \in Resizes \ {r} :
              /\ (request'[q2].st = "asked") <=> (q2 \in Range(queue'))
              /\ request'[q2].st = "asked" => request'[q2].size \in Sizes
        BY <2>2, <3>2 DEF Queued, AskedType
      <4>2. r # "none"
        BY <2>2, LedgerAssumption
      <4>3. QED
        BY <4>1, <4>2, <2>2, <2>3, <3>1, <3>2, <3>3 DEF RequestsAreQueued
    <3>6. PendingIsTrue' /\ ReceiptIsTrue'
      BY <3>1, <3>2 DEF PendingIsTrue, ReceiptIsTrue, Receipts
    <3>7. QED
      BY <3>4, <3>5, <3>6 DEF LedgerInv
  <2>6. QED
    BY <2>1, <2>4, <2>5
<1>3. QED
  BY <1>1, <1>2

\* The turn after one that is settled.
LEMMA NextTurnKeeps == ASSUME LedgerInv, NextTurn PROVE LedgerInv'
<1> USE DEF LedgerInv
<1>1. PICK own \in {FALSE} : /\ running = "over" /\ drain(queue, request, own)
                            /\ UNCHANGED <<page, external>>
  BY DEF NextTurn
<1>2. ~InTransaction /\ thrown = "none"
  BY <1>1 DEF RequestsAreQueued
<1>3. /\ queue \in Seq(Resizes) /\ request \in AskedType
      /\ Queued(queue, request) /\ Receipts(request)
  BY <1>2, LedgerAssumption
  DEF Queued, Receipts, RequestsAreQueued, ReceiptIsTrue, LedgerTypeOK, AskedType, Size
<1>4. QED
  BY <1>1, <1>2, <1>3, DrainKeeps

\* A step that looked whether the transaction is complete keeps the invariant.
LEMMA LedgerAfter ==
    ASSUME LedgerInv,
           request' \in AskedType,
           broker' \in [Targets -> LeaseType],
           InTransaction' => pending' \in PendingType,
           SubscriptionsAreHeld', RequestsAreQueued', PendingIsTrue', ReceiptIsTrue',
           page' \in PageType, queue' \in Seq(Resizes),
           running' \in {"no", "yes", "over"}, thrown' \in Resizes \cup {"none"},
           win' \in Sizes, toTell' \in Nat, external' \in 0..MaxExternal
    PROVE  LedgerInv'
BY DEF LedgerInv, LedgerTypeOK, PageType, PendingType, LeaseType, AskedType, Size

\* A step that leaves the transaction, its request and the ledger's leases alone.
LEMMA TransactionUntouched ==
    ASSUME LedgerInv, UNCHANGED <<turnVars, pending, request, broker>>,
           page' \in PageType, win' \in Sizes, toTell' \in Nat, external' \in 0..MaxExternal
    PROVE  LedgerInv'
<1>1. SubscriptionsAreHeld' /\ RequestsAreQueued' /\ PendingIsTrue' /\ ReceiptIsTrue'
  BY DEF LedgerInv, SubscriptionsAreHeld, RequestsAreQueued, PendingIsTrue, Gathered,
         ReceiptIsTrue, InTransaction, turnVars
<1>2. LedgerTypeOK'
  <2>1. LedgerTypeOK
    BY DEF LedgerInv
  <2>2. QED
    BY <2>1 DEF LedgerTypeOK, PageType, InTransaction, Size, turnVars
<1>3. QED
  BY <1>1, <1>2 DEF LedgerInv

\* A consumer beside the ledger takes or returns its lease.
LEMMA OthersKeep ==
    ASSUME LedgerInv, NEW t \in Shared, OtherAcquires(t) \/ OtherReleases(t)
    PROVE  LedgerInv'
<1> USE DEF LedgerInv
<1>1. t \in Targets /\ broker[t] \in LeaseType /\ (broker[t].native <=> broker[t].leases # {})
      /\ broker \in [Targets -> LeaseType] /\ page \in PageType
  BY LedgerAssumption DEF LedgerTypeOK, LeaseType, SubscriptionsAreHeld, PageType, Size
<1>2. UNCHANGED <<win, toTell, queue, running, thrown, pending, request, external>>
  BY DEF OtherAcquires, OtherReleases, turnVars
<1>3. /\ broker' \in [Targets -> LeaseType]
      /\ \A u \in Targets : u # t => broker'[u] = broker[u]
      /\ broker'[t].native <=> broker'[t].leases # {}
      /\ ("ledger" \in broker'[t].leases) <=> ("ledger" \in broker[t].leases)
  <2>1. CASE OtherAcquires(t)
    BY <2>1, <1>1, AcquireFacts DEF OtherAcquires
  <2>2. CASE OtherReleases(t)
    BY <2>2, <1>1, ReleaseFacts DEF OtherReleases
  <2>3. QED
    BY <2>1, <2>2
<1>4. page' \in PageType
  BY <1>1, KeptType DEF OtherAcquires, OtherReleases
<1>5. SubscriptionsAreHeld' /\ RequestsAreQueued' /\ PendingIsTrue' /\ ReceiptIsTrue'
  BY <1>2, <1>3 DEF SubscriptionsAreHeld, RequestsAreQueued, PendingIsTrue, Gathered,
                    ReceiptIsTrue, InTransaction
<1>6. QED
  BY <1>2, <1>3, <1>4, <1>5 DEF LedgerTypeOK, PageType, LeaseType, Size, InTransaction

\* A new request: it waits for its turn, or has it at once.
LEMMA ResizeKeeps ==
    ASSUME LedgerInv, NEW r \in Resizes, NEW size \in Sizes, resize(r, size)
    PROVE  LedgerInv'
<1> USE DEF LedgerInv
<1> DEFINE asked == [request EXCEPT ![r].st = "asked", ![r].size = size]
           longer == Append(queue, r)
<1>1. /\ request[r].st = "new" /\ queue \in Seq(Resizes) /\ UNCHANGED <<page, external>>
      /\ IF running = "no" THEN drain(longer, asked, TRUE)
         ELSE /\ queue' = longer /\ request' = asked
              /\ UNCHANGED <<win, toTell, broker, running, thrown, pending>>
  BY DEF resize, LedgerTypeOK
<1>2. request \in AskedType
  BY DEF LedgerTypeOK, AskedType, Size
<1>3. /\ asked \in AskedType /\ asked[r].st = "asked" /\ asked[r].size = size
      /\ \A q \in Resizes : q # r => asked[q] = request[q]
  BY <1>2 DEF AskedType, Size
<1>4. r \notin Range(queue) /\ (InTransaction => pending.of # r) /\ thrown # r
  BY <1>1, LedgerAssumption DEF RequestsAreQueued
<1>5. /\ Range(longer) = Range(queue) \cup {r} /\ longer \in Seq(Resizes)
      /\ IsInjective(longer)
  BY <1>1, <1>4, RangeOfAppend, InjectiveAppend, AppendProperties DEF RequestsAreQueued
<1> HIDE DEF asked, longer
<1>6. CASE running = "no"
  <2>1. ~InTransaction /\ thrown = "none" /\ queue = <<>>
    BY <1>6 DEF RequestsAreQueued
  <2>2. Queued(longer, asked) /\ Receipts(asked)
    BY <2>1, <1>3, <1>5, LedgerAssumption DEF Queued, Receipts, RequestsAreQueued, ReceiptIsTrue
  <2>3. QED
    BY <1>1, <1>3, <1>5, <1>6, <2>1, <2>2, DrainKeeps
<1>7. CASE running # "no"
  <2>1. /\ queue' = longer /\ request' = asked
        /\ UNCHANGED <<win, toTell, broker, running, thrown, pending, page, external>>
    BY <1>1, <1>7
  <2>2. RequestsAreQueued'
    <3>1. thrown # "none" => thrown \in Resizes
      BY DEF LedgerTypeOK
    <3>2. QED
      BY <3>1, <2>1, <1>3, <1>4, <1>5, <1>7 DEF RequestsAreQueued, InTransaction
  <2>3. SubscriptionsAreHeld'
    BY <2>1 DEF SubscriptionsAreHeld, InTransaction
  <2>4. PendingIsTrue'
    <3>1. InTransaction => pending.of \in Resizes
      BY DEF LedgerTypeOK
    <3>2. QED
      BY <3>1, <2>1, <1>3, <1>4 DEF PendingIsTrue, Gathered, InTransaction
  <2>5. ReceiptIsTrue'
    BY <2>1, <1>3 DEF ReceiptIsTrue
  <2>6. QED
    BY <2>1, <1>3, <1>5, <2>2, <2>3, <2>4, <2>5 DEF LedgerTypeOK, AskedType, InTransaction, Size
<1>8. QED
  BY <1>6, <1>7

\* The timer of the transaction.
LEMMA TimeoutKeeps == ASSUME LedgerInv, Timeout PROVE LedgerInv'
<1> USE DEF LedgerInv
<1> DEFINE ending == [request[pending.of] EXCEPT !.st = "failed"]
<1>1. /\ InTransaction /\ pending' = NoPending /\ broker' = Released /\ running' = "over"
      /\ request' = [request EXCEPT ![pending.of].st = "failed"]
      /\ page' = Kept(page, broker')
      /\ UNCHANGED <<win, toTell, queue, thrown, external>>
  BY DEF Timeout, TimeIsUp
<1>2. /\ request \in AskedType
      /\ pending.of \in Resizes
  BY <1>1 DEF LedgerTypeOK, AskedType, Size
<1>3. /\ ending \in [st : {"new", "asked", "settled", "failed"}, size : Size,
                     proof : [Targets -> Size]]
      /\ ending.st = "failed" /\ request' = [request EXCEPT ![pending.of] = ending]
  BY <1>1, <1>2 DEF AskedType
<1> HIDE DEF ending
<1>4. /\ request' \in AskedType
      /\ broker' \in [Targets -> LeaseType] /\ ~InTransaction'
      /\ SubscriptionsAreHeld' /\ RequestsAreQueued' /\ ReceiptIsTrue'
  BY <1>1, <1>3, EndKeeps
<1>5. page' \in PageType
  BY <1>1, KeptType DEF LedgerTypeOK, PageType, Size
<1>6. QED
  BY <1>1, <1>4, <1>5, LedgerAfter DEF LedgerTypeOK, PendingIsTrue

\* A resize event, a frame of the page, an answer of a guest: they may complete it.
LEMMA OnResizeKeeps == ASSUME LedgerInv, onResize PROVE LedgerInv'
<1> USE DEF LedgerInv
<1> DEFINE p == [pending EXCEPT !.nativeSeen = TRUE, !.actual = win]
<1>1. /\ UNCHANGED <<win, queue, thrown, external>> /\ toTell' \in Nat
      /\ thrown \in Resizes \cup {"none"}
      /\ win \in Sizes /\ external \in 0..MaxExternal /\ queue \in Seq(Resizes)
      /\ page \in PageType /\ page' = Kept(page, broker')
  BY DEF onResize, LedgerTypeOK, PageType, Size
<1>2. page' \in PageType
  BY <1>1, KeptType
<1>3. CASE InTransaction /\ win = pending.requested
  <2>1. pending \in PendingType
    BY <1>3 DEF LedgerTypeOK, PendingType, Size
  <2>2. /\ p \in PendingType /\ p.of = pending.of /\ p.requested = pending.requested
        /\ p.actual = win /\ p.proof = pending.proof
    BY <2>1, <1>1 DEF PendingType
  <2>3. Continue(p)
    BY <1>3 DEF onResize
  <2> HIDE DEF p
  <2>4. Gathered(p)
    BY <1>3, <2>2 DEF Gathered, PendingIsTrue
  <2>5. QED
    BY <1>1, <1>2, <1>3, <2>2, <2>3, <2>4, ContinueKeeps, LedgerAfter
<1>4. CASE ~(InTransaction /\ win = pending.requested)
  <2>1. UNCHANGED <<running, pending, request, broker>>
    BY <1>4 DEF onResize
  <2>2. QED
    BY <2>1, <1>1, <1>2, TransactionUntouched DEF turnVars
<1>5. QED
  BY <1>3, <1>4

LEMMA RendererFrameKeeps == ASSUME LedgerInv, RendererFrame PROVE LedgerInv'
<1> USE DEF LedgerInv
<1> DEFINE frame == page[renderer].frame
           proven == Listens(renderer) /\ win = pending.actual /\ frame = win
           p == [pending EXCEPT !.proof[renderer] = frame]
<1>1. /\ UNCHANGED <<win, toTell, queue, thrown, external>> /\ toTell \in Nat
      /\ thrown \in Resizes \cup {"none"}
      /\ win \in Sizes /\ external \in 0..MaxExternal /\ queue \in Seq(Resizes)
      /\ page \in PageType /\ page' = Kept([page EXCEPT ![renderer].frame = NoSize], broker')
      /\ renderer \in Targets
  BY DEF RendererFrame, LedgerTypeOK, PageType, Size, Targets
<1>2. page' \in PageType
  <2>1. [page EXCEPT ![renderer].frame = NoSize] \in PageType
    BY <1>1 DEF PageType, Size
  <2>2. QED
    BY <2>1, <1>1, KeptType
<1>3. CASE proven
  <2>1. InTransaction /\ pending \in PendingType /\ pending.nativeSeen
    BY <1>3 DEF LedgerTypeOK, PendingType, Size, Listens
  <2>2. /\ p \in PendingType /\ p.of = pending.of /\ p.requested = pending.requested
        /\ p.actual = pending.actual /\ p.nativeSeen = pending.nativeSeen
        /\ p.proof[renderer] = win
    BY <2>1, <1>1, <1>3 DEF PendingType, Size
  <2>3. Continue(p)
    BY <1>3 DEF RendererFrame
  <2>4. win = pending.actual
    BY <1>3
  <2> HIDE DEF p
  <2>5. Gathered(p)
    BY <2>1, <2>2, <2>4 DEF Gathered, PendingIsTrue
  <2>6. QED
    BY <1>1, <1>2, <2>1, <2>2, <2>3, <2>5, ContinueKeeps, LedgerAfter
<1>4. CASE ~proven
  <2>1. UNCHANGED <<running, pending, request, broker>>
    BY <1>4 DEF RendererFrame
  <2>2. QED
    BY <2>1, <1>1, <1>2, TransactionUntouched DEF turnVars
<1>5. QED
  BY <1>3, <1>4

LEMMA GuestAnswerKeeps ==
    ASSUME LedgerInv, NEW g \in Guests, GuestAnswer(g) PROVE LedgerInv'
<1> USE DEF LedgerInv
<1> DEFINE c == pending.check[g]
           q == [pending EXCEPT !.check[g] = [Unmeasured EXCEPT !.event = c.queued]]
           p == IF c.event = c.measured
                THEN [q EXCEPT !.proof[g] = c.event, !.check[g] = Unmeasured] ELSE q
<1>1. /\ UNCHANGED <<win, toTell, queue, thrown, external>> /\ toTell \in Nat
      /\ thrown \in Resizes \cup {"none"}
      /\ win \in Sizes /\ external \in 0..MaxExternal /\ queue \in Seq(Resizes)
      /\ page \in PageType /\ page' = Kept(page, broker')
      /\ g \in Targets /\ g # renderer
  BY LedgerAssumption DEF GuestAnswer, LedgerTypeOK, PageType, Size, Targets
<1>2. page' \in PageType
  BY <1>1, KeptType
<1>3. InTransaction /\ pending \in PendingType /\ Continue(p)
  BY DEF GuestAnswer, LedgerTypeOK, PendingType, Size
<1>4. /\ q \in PendingType /\ q.of = pending.of /\ q.requested = pending.requested
      /\ q.actual = pending.actual /\ q.nativeSeen = pending.nativeSeen
      /\ q.proof = pending.proof /\ c.event \in Size /\ Unmeasured \in
           [event : Size, measured : Size, queued : Size]
  BY <1>3 DEF PendingType, Size, Unmeasured
<1> HIDE DEF q, c
<1>5. /\ p \in PendingType /\ p.of = pending.of /\ p.requested = pending.requested
      /\ p.actual = pending.actual /\ p.nativeSeen = pending.nativeSeen
      /\ p.proof[renderer] = pending.proof[renderer]
  <2>1. CASE c.event = c.measured
    <3> DEFINE w == [q EXCEPT !.proof = [q.proof EXCEPT ![g] = c.event],
                              !.check = [q.check EXCEPT ![g] = Unmeasured]]
    <3>1. p = w
      BY <2>1
    <3>2. /\ [q.proof EXCEPT ![g] = c.event] \in [Targets -> Size]
          /\ [q.proof EXCEPT ![g] = c.event][renderer] = q.proof[renderer]
          /\ [q.check EXCEPT ![g] = Unmeasured] \in
               [Guests -> [event : Size, measured : Size, queued : Size]]
      BY <1>1, <1>4 DEF PendingType, Targets
    <3>3. /\ w \in PendingType /\ w.of = q.of /\ w.requested = q.requested
          /\ w.actual = q.actual /\ w.nativeSeen = q.nativeSeen
          /\ w.proof = [q.proof EXCEPT ![g] = c.event]
      BY <1>4, <3>2 DEF PendingType
    <3> HIDE DEF w, p
    <3>4. QED
      BY <1>4, <3>1, <3>2, <3>3
  <2>2. CASE c.event # c.measured
    BY <2>2, <1>4
  <2>3. QED
    BY <2>1, <2>2
<1> HIDE DEF p
<1>6. Gathered(p)
  BY <1>3, <1>5 DEF Gathered, PendingIsTrue
<1>7. QED
  BY <1>1, <1>2, <1>3, <1>5, <1>6, ContinueKeeps, LedgerAfter

\* What a guest is asked does not change what was gathered.
LEMMA GuestChecksKeep ==
    ASSUME LedgerInv, NEW g \in Guests, GuestFrame(g) \/ GuestMeasured(g) PROVE LedgerInv'
<1> USE DEF LedgerInv
<1>1. /\ UNCHANGED <<win, toTell, broker, queue, running, thrown, request, external>>
      /\ page \in PageType /\ g \in Targets
  BY DEF GuestFrame, GuestMeasured, LedgerTypeOK, PageType, Size, Targets, turnVars
<1>2. page' \in PageType /\ page[g].frame \in Size /\ page[g].laid \in Size
  BY <1>1 DEF GuestFrame, GuestMeasured, PageType, Size
<1>3. CASE pending' = pending
  BY <1>1, <1>2, <1>3, TransactionUntouched DEF LedgerTypeOK, turnVars
<1>4. CASE pending' # pending
  <2>1. InTransaction /\ pending \in PendingType
    BY <1>4 DEF GuestFrame, GuestMeasured, Listens, LedgerTypeOK, PendingType, Size
  <2>2. /\ pending' \in PendingType /\ pending'.of = pending.of
        /\ pending'.requested = pending.requested /\ pending'.actual = pending.actual
        /\ pending'.nativeSeen = pending.nativeSeen /\ pending'.proof = pending.proof
    <3>1. CASE GuestFrame(g)
      BY <3>1, <1>2, <1>4, <2>1 DEF GuestFrame, PendingType
    <3>2. CASE GuestMeasured(g)
      BY <3>2, <1>2, <2>1 DEF GuestMeasured, PendingType
    <3>3. QED
      BY <3>1, <3>2
  <2>3. InTransaction'
    BY <2>2, TransactionsAre DEF InTransaction
  <2>4. SubscriptionsAreHeld' /\ RequestsAreQueued' /\ PendingIsTrue' /\ ReceiptIsTrue'
    BY <1>1, <2>1, <2>2, <2>3 DEF SubscriptionsAreHeld, RequestsAreQueued, PendingIsTrue,
                                  Gathered, ReceiptIsTrue
  <2>5. QED
    BY <1>1, <1>2, <2>2, <2>4 DEF LedgerTypeOK, PendingType, PageType, Size
<1>5. QED
  BY <1>3, <1>4

\* The pages and the window manager go their own way.
LEMMA OutsideKeeps ==
    ASSUME LedgerInv, (\E t \in Targets : LayOut(t) \/ Present(t))
                      \/ (\E to \in Sizes : ExternalResize(to))
    PROVE  LedgerInv'
<1>1. /\ page \in PageType /\ win \in Sizes /\ toTell \in Nat /\ external \in 0..MaxExternal
  BY DEF LedgerInv, LedgerTypeOK, PageType, Size
<1>2. ASSUME NEW t \in Targets, LayOut(t) \/ Present(t)
      PROVE  /\ UNCHANGED <<turnVars, pending, request, broker, win, toTell, external>>
             /\ page' \in PageType
  BY <1>1, <1>2 DEF LayOut, Present, PageType, Size
<1>3. ASSUME NEW to \in Sizes, ExternalResize(to)
      PROVE  /\ UNCHANGED <<turnVars, pending, request, broker, page>>
             /\ win' \in Sizes /\ toTell' \in Nat /\ external' \in 0..MaxExternal
  BY <1>1, <1>3, LedgerAssumption DEF ExternalResize
<1>4. QED
  BY <1>1, <1>2, <1>3, TransactionUntouched

-----------------------------------------------------------------------------
(* The theorem. *)

LEMMA LedgerStarts == LedgerInit => LedgerInv
<1> SUFFICES ASSUME LedgerInit PROVE LedgerInv
  OBVIOUS
<1>1. ~InTransaction /\ queue = <<>> /\ queue \in Seq(Resizes)
  BY DEF LedgerInit, InTransaction
<1>2. Range(queue) = {} /\ IsInjective(queue)
  BY <1>1, EmptySeq DEF Range, IsInjective
<1>3. LedgerTypeOK
  BY <1>1, LedgerAssumption DEF LedgerInit, LedgerTypeOK, Unasked, Size
<1>4. QED
  BY <1>1, <1>2, <1>3 DEF LedgerInit, LedgerInv, SubscriptionsAreHeld, RequestsAreQueued,
                          PendingIsTrue, ReceiptIsTrue, Unasked

LEMMA LedgerSteps == LedgerInv /\ [LedgerNext]_ledgerVars => LedgerInv'
<1> SUFFICES ASSUME LedgerInv, [LedgerNext]_ledgerVars PROVE LedgerInv'
  OBVIOUS
<1>1. CASE UNCHANGED ledgerVars
  BY <1>1, TransactionUntouched DEF ledgerVars, LedgerInv, LedgerTypeOK, PageType, Size
<1>2. CASE LedgerNext
  BY <1>2, ResizeKeeps, NextTurnKeeps, OutsideKeeps, OnResizeKeeps, RendererFrameKeeps,
     TimeoutKeeps, GuestChecksKeep, GuestAnswerKeeps, OthersKeep DEF LedgerNext
<1>3. QED
  BY <1>1, <1>2

\* A lease keeps its subscription and the last one ends it; every request is queued
\* once, under way or answered; and a settled resize was shown in the size that was
\* asked for (frameSubscriptionBroker.cjs, resizeSettlement.cjs).
THEOREM TheResizeIsSound == LedgerSpec => []ResizeIsSound
<1>1. LedgerSpec => []LedgerInv
  BY LedgerStarts, LedgerSteps, PTL DEF LedgerSpec
<1>2. QED
  BY <1>1, LedgerInvImplies, PTL

-----------------------------------------------------------------------------
(* Calls, runs of ensureCoredProcess and the control host.                    *)

Names == Calls \cup {"declare"}
CallType == [Calls -> [st : {"new", "early", "joining", "sent", "answered", "failed"},
                       got : Calls]]
LinkType == [st : {"down", "dialing", "up"}, to : Procs \cup {NoOne}, waiters : SUBSET Calls]
RequestType(n) == [id : 1..n, of : Names]

\* An id belongs to one request, wherever that or its answer is; a call waits for one
\* answer, on a connection that stands, and what it was told is its own.
WireIsTrue ==
    /\ link \in LinkType /\ call \in CallType /\ seq \in Nat
    /\ awaiting \subseteq RequestType(seq)
    /\ line \in [asked : SUBSET RequestType(seq), answers : Seq(RequestType(seq))]
    /\ \A r \in awaiting, m \in awaiting \cup line.asked \cup Range(line.answers) :
          r.id = m.id => r = m
    /\ \A r, m \in awaiting : r.of = m.of /\ r.of \in Calls => r = m
    /\ awaiting # {} => link.st = "up"
    /\ \A c \in Calls : call[c].st = "sent" <=> \E r \in awaiting : r.of = c
    /\ \A c \in Calls : call[c].st = "answered" => call[c].got = c

\* Who waits for a connection, waits for one dial or for one run.
WaitersJoin ==
    /\ \A c \in link.waiters : call[c].st = "joining"
    /\ \A k \in Runs : /\ ensures[k].waiters \subseteq Calls
                       /\ \A c \in ensures[k].waiters : call[c].st = "joining"
                       /\ ensures[k].waiters \cap link.waiters = {}
    /\ \A j, k \in Runs : j # k => ensures[j].waiters \cap ensures[k].waiters = {}

EnsureType == [st : {"none", "probing", "waiting", "reaping", "reprobing",
                     "spawned", "adopted", "failed"},
               child : Procs \cup {NoOne}, waiters : SUBSET Calls]
ProcType == [st : {"none", "starting", "binding", "serving", "gone"}, ours : BOOLEAN,
             line : BOOLEAN, dying : BOOLEAN, code : 0..2]

\* A run has a child from the moment it started one, and gives up on one that is gone.
ChildrenAreKnown ==
    /\ proc \in [Procs -> ProcType] /\ serving \in Procs \cup {NoOne}
    /\ ensures \in [Runs -> EnsureType] /\ backendReady \in {"no", "yes", "failed"}
    /\ \A k \in Runs :
         /\ ensures[k].st \in {"none", "probing"} => ensures[k].child = NoOne
         /\ ensures[k].st \in {"waiting", "reaping", "reprobing"} => ensures[k].child # NoOne
         /\ ensures[k].st \in {"reprobing", "failed"} /\ ensures[k].child # NoOne
              => proc[ensures[k].child].st = "gone"

Message == {"attach", "windows"} \X (0..MaxFacts)

HostType == [st : {"none", "dialing", "down", "up"}, to : Procs \cup {NoOne},
             queue : Seq(Message), known : 0..MaxFacts \cup {NoFacts},
             at : 0..MaxFacts \cup {NoFacts}]

\* A host that is not registered has its registration on its way; from the registration
\* on, what is on its way is no older than the connection.
Informs(h, now) ==
    LET q == h.queue IN
    /\ h.st \in {"dialing", "down"}
         => h.known = NoFacts /\ \A i \in DOMAIN q : q[i][1] = "windows"
    /\ h.st = "up" =>
         /\ h.at \in 0..now
         /\ h.known = NoFacts => \E i \in DOMAIN q : q[i][1] = "attach"
         /\ h.known # NoFacts => h.known >= h.at /\ \A j \in DOMAIN q : q[j][2] >= h.at
         /\ \A i, j \in DOMAIN q : q[i][1] = "attach" /\ i <= j => q[j][2] >= h.at

\* The last thing on its way to cored is what the windows are.
Latest(h, now) ==
    h.st = "up" =>
      /\ h.queue = <<>> => h.known = now
      /\ h.queue # <<>> => h.queue[Len(h.queue)][2] = now

HostInforms ==
    /\ facts \in 0..MaxFacts /\ controlHost \in Runs \cup {NoOne}
    /\ hosts \in [Runs -> HostType]
    /\ \A k \in Runs : /\ Informs(hosts[k], facts)
                       /\ k = controlHost => Latest(hosts[k], facts)

BridgeInv == WireIsTrue /\ WaitersJoin /\ ChildrenAreKnown /\ HostInforms

\* The invariant implies the property.
LEMMA BridgeInvImplies == BridgeInv => BridgeIsSound
<1> SUFFICES ASSUME BridgeInv PROVE BridgeIsSound
  OBVIOUS
<1>1. BridgeTypeOK
  <2>1. \A r \in awaiting : r.id \in 1..seq
    BY DEF BridgeInv, WireIsTrue, RequestType
  <2>2. QED
    BY <2>1 DEF BridgeInv, WireIsTrue, ChildrenAreKnown, HostInforms, BridgeTypeOK, CallType,
                LinkType, EnsureType, ProcType, HostType
<1>2. CallsAreTrue
  BY <1>1 DEF BridgeInv, WireIsTrue, CallsAreTrue
<1>3. NothingLeftBehind
  BY DEF BridgeInv, ChildrenAreKnown, NothingLeftBehind, Alive
<1>4. HostKnows
  <2> SUFFICES ASSUME NEW k \in Runs, hosts[k].st = "up", hosts[k].queue = <<>>
               PROVE  /\ hosts[k].known >= hosts[k].at
                      /\ k = controlHost => hosts[k].known = facts
    BY DEF HostKnows
  <2>1. Informs(hosts[k], facts) /\ (k = controlHost => Latest(hosts[k], facts))
    BY DEF BridgeInv, HostInforms
  <2>2. DOMAIN hosts[k].queue = {}
    BY EmptySeq
  <2>3. QED
    BY <2>1, <2>2 DEF Informs, Latest
<1>5. QED
  BY <1>2, <1>3, <1>4 DEF BridgeIsSound

-----------------------------------------------------------------------------
(* Requests. *)

\* SetToSeq lists every member of a finite set once.
LEMMA ListOfSet ==
    ASSUME NEW S, IsFiniteSet(S)
    PROVE  /\ Cardinality(S) \in Nat
           /\ SetToSeq(S) \in [1..Cardinality(S) -> S]
           /\ \A i, j \in 1..Cardinality(S) : SetToSeq(S)[i] = SetToSeq(S)[j] => i = j
           /\ \A c \in S : \E i \in 1..Cardinality(S) : SetToSeq(S)[i] = c
<1> DEFINE n == Cardinality(S)
           f == SetToSeq(S)
<1>1. n \in Nat /\ ExistsBijection(1..n, S)
  BY FS_CardinalityType
<1>2. \E g \in [1..n -> S] : IsInjective(g)
  <2>1. PICK g \in Bijection(1..n, S) : TRUE
    BY <1>1 DEF ExistsBijection
  <2>2. g \in [1..n -> S] /\ \A i, j \in 1..n : g[i] = g[j] => i = j
    BY <2>1 DEF Bijection, Injection, IsInjective
  <2>3. QED
    BY <2>2 DEF IsInjective
<1>3. f \in [1..n -> S] /\ IsInjective(f)
  BY <1>2 DEF SetToSeq
<1> HIDE DEF f
<1>4. \A i, j \in 1..n : f[i] = f[j] => i = j
  BY <1>3 DEF IsInjective
<1>5. ASSUME NEW c \in S, \A i \in 1..n : f[i] # c
      PROVE  FALSE
  <2>1. f \in [1..n -> S \ {c}]
    BY <1>3, <1>5
  <2>2. IsFiniteSet(S \ {c}) /\ Cardinality(S \ {c}) = n - 1
    BY FS_RemoveElement
  <2>3. IsFiniteSet(1..n) /\ Cardinality(1..n) = n
    BY <1>1, FS_Interval
  <2>4. \E x, y \in 1..n : x # y /\ f[x] = f[y]
    BY <1>1, <2>1, <2>2, <2>3, FS_PigeonHole
  <2>5. QED
    BY <2>4, <1>4
<1>6. QED
  BY <1>1, <1>3, <1>4, <1>5 DEF f

\* What is written is one request for each call, with ids never used before.
LEMMA WrittenFacts ==
    ASSUME seq \in Nat, NEW S \in SUBSET Calls
    PROVE  /\ Cardinality(S) \in Nat
           /\ Written(S) \subseteq [id : (seq + 1)..(seq + Cardinality(S)), of : S]
           /\ \A c \in S : \E r \in Written(S) : r.of = c
           /\ \A r, m \in Written(S) : r.id = m.id \/ r.of = m.of => r = m
<1> DEFINE n == Cardinality(S)
           q == SetToSeq(S)
<1>1. IsFiniteSet(S)
  BY BridgeAssumption, FS_Subset
<1>2. /\ n \in Nat /\ q \in [1..n -> S]
      /\ \A i, j \in 1..n : q[i] = q[j] => i = j
      /\ \A c \in S : \E i \in 1..n : q[i] = c
  BY <1>1, ListOfSet
<1>3. Written(S) = {[id |-> seq + i, of |-> q[i]] : i \in 1..n}
  BY <1>2 DEF Written, NextId
<1> HIDE DEF n, q
<1>4. Written(S) \subseteq [id : (seq + 1)..(seq + n), of : S]
  BY <1>2, <1>3
<1>5. ASSUME NEW c \in S PROVE \E r \in Written(S) : r.of = c
  <2>1. PICK i \in 1..n : q[i] = c
    BY <1>2
  <2>2. [id |-> seq + i, of |-> q[i]] \in Written(S)
    BY <1>3
  <2>3. QED
    BY <2>1, <2>2
<1>6. ASSUME NEW r \in Written(S), NEW m \in Written(S), r.id = m.id \/ r.of = m.of
      PROVE  r = m
  <2>1. PICK i \in 1..n : r = [id |-> seq + i, of |-> q[i]]
    BY <1>3
  <2>2. PICK j \in 1..n : m = [id |-> seq + j, of |-> q[j]]
    BY <1>3
  <2>3. i = j
    BY <1>2, <1>6, <2>1, <2>2
  <2>4. QED
    BY <2>1, <2>2, <2>3
<1>7. QED
  BY <1>2, <1>4, <1>5, <1>6 DEF n

\* Requests are written to a connection that stands.
LEMMA NewRequests ==
    ASSUME WireIsTrue, NEW n \in Nat, NEW N, seq <= n,
           N \subseteq [id : (seq + 1)..n, of : Names],
           \A r, m \in N : r.id = m.id \/ r.of = m.of => r = m,
           awaiting' = awaiting \cup N, seq' = n,
           line' \in [asked : {line.asked \cup N, N}, answers : {line.answers, <<>>}],
           link' \in LinkType, link'.st = "up",
           call' \in CallType,
           \A c \in Calls : IF \E r \in N : r.of = c
                            THEN call[c].st # "sent" /\ call'[c].st = "sent"
                            ELSE call'[c] = call[c]
    PROVE  WireIsTrue'
<1>1. /\ seq \in Nat /\ awaiting \subseteq RequestType(seq)
      /\ line.asked \subseteq RequestType(seq) /\ line.answers \in Seq(RequestType(seq))
  BY DEF WireIsTrue
<1>2. RequestType(seq) \subseteq RequestType(n) /\ N \subseteq RequestType(n)
  BY <1>1 DEF RequestType
<1>3. Seq(RequestType(seq)) \subseteq Seq(RequestType(n))
  BY <1>2
<1>4. /\ line'.asked \subseteq line.asked \cup N
      /\ Range(line'.answers) \subseteq Range(line.answers)
      /\ line' \in [asked : SUBSET RequestType(n), answers : Seq(RequestType(n))]
  <2>1. line'.answers = line.answers \/ line'.answers = <<>>
    OBVIOUS
  <2>2. Range(<<>>) = {} /\ <<>> \in Seq(RequestType(n))
    BY EmptySeq DEF Range
  <2>3. line'.answers \in Seq(RequestType(n)) /\ Range(line'.answers) \subseteq Range(line.answers)
    BY <1>1, <1>3, <2>1, <2>2
  <2>4. line'.asked \subseteq line.asked \cup N
    OBVIOUS
  <2>5. QED
    BY <1>1, <1>2, <2>3, <2>4
<1>5. \A m \in Range(line.answers) : m \in RequestType(seq)
  BY <1>1, LenProperties, ElementOfSeq DEF Range
<1>6. ASSUME NEW r \in awaiting', NEW m \in awaiting' \cup line'.asked \cup Range(line'.answers),
             r.id = m.id
      PROVE  r = m
  <2>1. r \in awaiting \cup N /\ m \in awaiting \cup line.asked \cup Range(line.answers) \cup N
    BY <1>4
  <2>2. \A x \in awaiting \cup line.asked \cup Range(line.answers) : x.id \in 1..seq
    BY <1>1, <1>5 DEF RequestType
  <2>3. \A x \in N : x.id \in (seq + 1)..n
    OBVIOUS
  <2>4. CASE r \in N /\ m \in N
    BY <2>4, <1>6
  <2>5. CASE r \in awaiting /\ m \in awaiting \cup line.asked \cup Range(line.answers)
    BY <2>5, <1>6 DEF WireIsTrue
  <2>6. CASE r \in N /\ m \in awaiting \cup line.asked \cup Range(line.answers)
    BY <2>2, <2>3, <2>6, <1>1, <1>6
  <2>7. CASE r \in awaiting /\ m \in N
    BY <2>2, <2>3, <2>7, <1>1, <1>6
  <2>8. QED
    BY <2>1, <2>4, <2>5, <2>6, <2>7
<1>7. ASSUME NEW r \in awaiting', NEW m \in awaiting', r.of = m.of, r.of \in Calls
      PROVE  r = m
  <2>1. r \in awaiting \cup N /\ m \in awaiting \cup N
    OBVIOUS
  <2>2. \A x \in awaiting : x.of \in Calls => call[x.of].st = "sent"
    BY DEF WireIsTrue
  <2>3. \A x \in N : x.of \in Calls => call[x.of].st # "sent"
    OBVIOUS
  <2>4. QED
    BY <2>1, <2>2, <2>3, <1>7 DEF WireIsTrue
<1>8. ASSUME NEW c \in Calls
      PROVE  (call'[c].st = "sent") <=> \E r \in awaiting' : r.of = c
  BY DEF WireIsTrue
<1>9. ASSUME NEW c \in Calls, call'[c].st = "answered" PROVE call'[c].got = c
  BY <1>9 DEF WireIsTrue
<1>10. awaiting' \subseteq RequestType(n)
  BY <1>1, <1>2
<1>11. QED
  BY <1>4, <1>6, <1>7, <1>8, <1>9, <1>10 DEF WireIsTrue
\* The calls S, none of which is under way, are written.
LEMMA SendKeeps ==
    ASSUME WireIsTrue, NEW S \in SUBSET Calls, link.st = "up", link' = link, Send(S),
           \A c \in S : call[c].st # "sent"
    PROVE  WireIsTrue' /\ (\A c \in Calls \ S : call'[c] = call[c])
<1> DEFINE n == seq + Cardinality(S)
<1>1. /\ seq \in Nat /\ link \in LinkType /\ call \in CallType
      /\ line \in [asked : SUBSET RequestType(seq), answers : Seq(RequestType(seq))]
  BY DEF WireIsTrue
<1>2. /\ n \in Nat /\ seq <= n /\ Written(S) \subseteq [id : (seq + 1)..n, of : Names]
      /\ \A c \in S : \E r \in Written(S) : r.of = c
      /\ \A r \in Written(S) : r.of \in S
      /\ \A r, m \in Written(S) : r.id = m.id \/ r.of = m.of => r = m
  BY <1>1, WrittenFacts DEF Names
<1>3. /\ awaiting' = awaiting \cup Written(S) /\ seq' = n
      /\ line' = [line EXCEPT !.asked = @ \cup Written(S)]
      /\ call' = [c \in Calls |-> IF c \in S THEN [call[c] EXCEPT !.st = "sent"] ELSE call[c]]
  BY DEF Send
<1> HIDE DEF n
<1>4. line' \in [asked : {line.asked \cup Written(S), Written(S)},
                answers : {line.answers, <<>>}]
  BY <1>1, <1>3
<1>5. /\ call' \in CallType
      /\ \A c \in Calls : IF \E r \in Written(S) : r.of = c
                          THEN call[c].st # "sent" /\ call'[c].st = "sent"
                          ELSE call'[c] = call[c]
      /\ \A c \in Calls \ S : call'[c] = call[c]
  BY <1>1, <1>2, <1>3 DEF CallType
<1> DEFINE N == Written(S)
<1>6. /\ N \subseteq [id : (seq + 1)..n, of : Names]
      /\ \A r, m \in N : r.id = m.id \/ r.of = m.of => r = m
      /\ awaiting' = awaiting \cup N
      /\ line' \in [asked : {line.asked \cup N, N}, answers : {line.answers, <<>>}]
      /\ \A c \in Calls : IF \E r \in N : r.of = c
                          THEN call[c].st # "sent" /\ call'[c].st = "sent"
                          ELSE call'[c] = call[c]
  BY <1>2, <1>3, <1>4, <1>5
<1> HIDE DEF N
<1>7. link' \in LinkType /\ link'.st = "up" /\ seq' = n /\ call' \in CallType
  BY <1>1, <1>3, <1>5
<1>8. WireIsTrue'
  BY <1>2, <1>6, <1>7, NewRequests
<1>9. QED
  BY <1>5, <1>8

\* Calls that are not on the wire change what their callers know.
LEMMA OffTheWire ==
    ASSUME WireIsTrue, NEW S \in SUBSET Calls, \A c \in S : call[c].st # "sent",
           UNCHANGED <<awaiting, seq, line>>, link' \in LinkType,
           awaiting # {} => link'.st = "up",
           call' \in CallType, \A c \in Calls \ S : call'[c] = call[c],
           \A c \in S : call'[c].st \notin {"sent", "answered"}
    PROVE  WireIsTrue'
<1>1. \A c \in Calls : (call'[c].st = "sent") <=> (call[c].st = "sent")
  OBVIOUS
<1>2. \A c \in Calls : call'[c].st = "answered" => call'[c] = call[c]
  OBVIOUS
<1>3. QED
  BY <1>1, <1>2 DEF WireIsTrue

\* connect(), for the calls S.
LEMMA JoinKeeps ==
    ASSUME WireIsTrue, NEW S \in SUBSET Calls, Join(S), S \cap link.waiters = {},
           \A c \in link.waiters : call[c].st = "joining",
           \A c \in S : call[c].st # "sent"
    PROVE  /\ WireIsTrue'
           /\ \A c \in Calls \ S : call'[c] = call[c]
           /\ link'.waiters \subseteq link.waiters \cup S
           /\ \A c \in link'.waiters : call'[c].st = "joining"
<1>1. link \in LinkType /\ call \in CallType
  BY DEF WireIsTrue
<1>2. CASE link.st = "up"
  <2>1. Send(S) /\ link' = link
    BY <1>2 DEF Join
  <2>2. WireIsTrue' /\ (\A c \in Calls \ S : call'[c] = call[c])
    BY <1>2, <2>1, SendKeeps
  <2>3. QED
    BY <1>1, <2>1, <2>2 DEF LinkType
<1>3. CASE link.st # "up"
  <2>1. /\ link' = [link EXCEPT !.st = "dialing", !.waiters = @ \cup S]
        /\ call' = [c \in Calls |-> IF c \in S THEN [call[c] EXCEPT !.st = "joining"] ELSE call[c]]
        /\ UNCHANGED <<awaiting, seq, line>>
    BY <1>3 DEF Join
  <2>2. awaiting = {}
    BY <1>3 DEF WireIsTrue
  <2>3. /\ link' \in LinkType /\ link'.waiters = link.waiters \cup S
        /\ call' \in CallType /\ \A c \in Calls \ S : call'[c] = call[c]
        /\ \A c \in S : call'[c].st = "joining"
    <3>1. link' \in LinkType /\ link'.waiters = link.waiters \cup S
      BY <1>1, <2>1 DEF LinkType
    <3>2. /\ call' \in CallType /\ \A c \in Calls \ S : call'[c] = call[c]
          /\ \A c \in S : call'[c].st = "joining"
      BY <1>1, <2>1 DEF CallType
    <3>3. QED
      BY <3>1, <3>2
  <2>4. WireIsTrue'
    BY <2>1, <2>2, <2>3, OffTheWire
  <2>5. QED
    BY <1>1, <2>3, <2>4 DEF LinkType
<1>4. QED
  BY <1>2, <1>3

\* The calls S fail.
LEMMA FailKeeps ==
    ASSUME WireIsTrue, NEW S \in SUBSET Calls, Fail(S), \A c \in S : call[c].st # "sent",
           UNCHANGED <<link, awaiting, seq, line>>
    PROVE  WireIsTrue' /\ (\A c \in Calls \ S : call'[c] = call[c])
<1>1. link \in LinkType /\ call \in CallType
  BY DEF WireIsTrue
<1>2. call' = [c \in Calls |-> IF c \in S THEN [call[c] EXCEPT !.st = "failed"] ELSE call[c]]
  BY DEF Fail
<1>3. /\ call' \in CallType /\ \A c \in Calls \ S : call'[c] = call[c]
      /\ \A c \in S : call'[c].st = "failed"
  BY <1>1, <1>2 DEF CallType
<1>4. QED
  BY <1>1, <1>3, OffTheWire DEF WireIsTrue

\* The calls S go on; who waits elsewhere still does.
LEMMA WaitersStay ==
    ASSUME WaitersJoin, NEW S \in SUBSET Calls, link.waiters \subseteq Calls,
           \A c \in Calls \ S : call'[c] = call[c],
           \A k \in Runs : /\ ensures'[k].waiters \subseteq ensures[k].waiters
                           /\ ensures'[k].waiters \cap S = {},
           link'.waiters \subseteq link.waiters \cup S,
           \A c \in link'.waiters : call'[c].st = "joining"
    PROVE  WaitersJoin'
<1>1. ASSUME NEW k \in Runs
      PROVE  /\ ensures'[k].waiters \subseteq Calls
             /\ \A c \in ensures'[k].waiters : call'[c].st = "joining"
             /\ ensures'[k].waiters \cap link'.waiters = {}
  BY DEF WaitersJoin
<1>2. ASSUME NEW j \in Runs, NEW k \in Runs, j # k
      PROVE  ensures'[j].waiters \cap ensures'[k].waiters = {}
  BY <1>2 DEF WaitersJoin
<1>3. QED
  BY <1>1, <1>2 DEF WaitersJoin
-----------------------------------------------------------------------------
(* The calls in every step.                                                   *)

\* The dial succeeds.
LEMMA DialOkKeeps == ASSUME BridgeInv, DialOk PROVE WireIsTrue' /\ WaitersJoin'
<1> USE DEF BridgeInv
<1> DEFINE W == link.waiters
           n == seq + 1 + Cardinality(W)
           first == [id |-> seq + 1, of |-> "declare"]
           rest == {[r EXCEPT !.id = @ + 1] : r \in Written(W)}
           N == {first} \cup rest
<1>1. /\ seq \in Nat /\ link \in LinkType /\ call \in CallType /\ W \in SUBSET Calls
      /\ link.st = "dialing" /\ awaiting = {} /\ serving \in Procs \cup {NoOne}
  BY DEF DialOk, WireIsTrue, LinkType, ChildrenAreKnown
<1>2. /\ Cardinality(W) \in Nat
      /\ Written(W) \subseteq [id : (seq + 1)..(seq + Cardinality(W)), of : W]
      /\ \A c \in W : \E r \in Written(W) : r.of = c
      /\ \A r, m \in Written(W) : r.id = m.id \/ r.of = m.of => r = m
  BY <1>1, WrittenFacts
<1>3. /\ link' = [st |-> "up", to |-> serving, waiters |-> {}]
      /\ awaiting' = awaiting \cup N /\ seq' = n
      /\ line' = [asked |-> N, answers |-> <<>>]
      /\ call' = [c \in Calls |-> IF c \in W THEN [call[c] EXCEPT !.st = "sent"] ELSE call[c]]
      /\ ensures' = ensures
  BY DEF DialOk, NextId
<1> HIDE DEF W
<1>4. \A x \in rest : /\ x.id \in (seq + 2)..n /\ x.of \in W
                      /\ x = [id |-> x.id, of |-> x.of]
                      /\ [id |-> x.id - 1, of |-> x.of] \in Written(W)
  BY <1>1, <1>2
<1>5. ASSUME NEW c \in W PROVE \E x \in rest : x.of = c
  <2>1. PICK r \in Written(W) : r.of = c
    BY <1>2
  <2>2. [r EXCEPT !.id = @ + 1] \in rest /\ [r EXCEPT !.id = @ + 1].of = r.of
    BY <1>2
  <2>3. QED
    BY <2>1, <2>2
<1>6. \A x, y \in rest : x.id = y.id \/ x.of = y.of => x = y
  <2> SUFFICES ASSUME NEW x \in rest, NEW y \in rest, x.id = y.id \/ x.of = y.of PROVE x = y
    OBVIOUS
  <2>1. [id |-> x.id - 1, of |-> x.of] = [id |-> y.id - 1, of |-> y.of]
    BY <1>2, <1>4
  <2>2. x.id - 1 = y.id - 1 /\ x.of = y.of
    BY <2>1
  <2>3. QED
    BY <2>2, <1>1, <1>2, <1>4
<1>7. "declare" \notin W
  BY <1>1, BridgeAssumption
<1> HIDE DEF rest
<1>8. /\ n \in Nat /\ seq <= n /\ N \subseteq [id : (seq + 1)..n, of : Names]
      /\ first \in N /\ first.of \notin Calls
  <2>1. n \in Nat /\ seq <= n /\ (seq + 2)..n \subseteq (seq + 1)..n /\ seq + 1 \in (seq + 1)..n
    BY <1>1, <1>2
  <2>2. first \in [id : (seq + 1)..n, of : Names]
    BY <2>1 DEF Names
  <2> HIDE DEF n
  <2>3. ASSUME NEW x \in rest PROVE x \in [id : (seq + 1)..n, of : Names]
    <3>1. x.id \in (seq + 2)..n /\ x.of \in W /\ x = [id |-> x.id, of |-> x.of]
      BY <1>4
    <3>2. x.id \in (seq + 1)..n /\ x.of \in Names
      BY <3>1, <2>1, <1>1 DEF Names
    <3>3. [id |-> x.id, of |-> x.of] \in [id : (seq + 1)..n, of : Names]
      BY <3>2
    <3>4. QED
      BY <3>1, <3>3
  <2>4. QED
    BY <2>1, <2>2, <2>3, BridgeAssumption
<1>9. \A r, m \in N : r.id = m.id \/ r.of = m.of => r = m
  <2>1. ASSUME NEW x \in rest PROVE x.id # first.id /\ x.of # first.of
    <3>1. x.id \in (seq + 2)..n /\ x.of \in W
      BY <1>4
    <3>2. QED
      BY <3>1, <1>1, <1>2, <1>7
  <2>2. QED
    BY <2>1, <1>6
<1>10. /\ call' \in CallType
       /\ \A c \in Calls : IF \E r \in N : r.of = c
                           THEN call[c].st # "sent" /\ call'[c].st = "sent"
                           ELSE call'[c] = call[c]
       /\ \A c \in Calls \ W : call'[c] = call[c]
  <2>1. \A c \in Calls : (\E r \in N : r.of = c) <=> c \in W
    BY <1>4, <1>5, <1>8
  <2>2. \A c \in W : call[c].st # "sent"
    BY DEF WaitersJoin, W
  <2>3. call' \in CallType
    BY <1>1, <1>3 DEF CallType
  <2>4. QED
    BY <2>1, <2>2, <2>3, <1>1, <1>3 DEF CallType
<1>11. link' \in LinkType /\ link'.st = "up" /\ link'.waiters = {}
  BY <1>1, <1>3 DEF LinkType
<1>12. line' \in [asked : {line.asked \cup N, N}, answers : {line.answers, <<>>}]
  BY <1>3
<1> HIDE DEF n, N, first
<1>13. WireIsTrue'
  <2>1. awaiting' = awaiting \cup N /\ seq' = n /\ WireIsTrue
    BY <1>3
  <2>2. QED
    BY <2>1, <1>8, <1>9, <1>10, <1>11, <1>12, NewRequests
<1>14. WaitersJoin'
  <2>1. \A k \in Runs : ensures'[k].waiters = ensures[k].waiters
                        /\ ensures'[k].waiters \cap W = {}
    BY <1>3 DEF WaitersJoin, W
  <2>2. W \in SUBSET Calls /\ link.waiters \subseteq Calls
    BY <1>1 DEF LinkType
  <2>3. QED
    BY <2>1, <2>2, <1>10, <1>11, WaitersStay
<1>15. QED
  BY <1>13, <1>14

\* The dial fails.
LEMMA DialFailsKeeps == ASSUME BridgeInv, DialFails PROVE WireIsTrue' /\ WaitersJoin'
<1> USE DEF BridgeInv
<1>1. /\ link \in LinkType /\ link.st = "dialing" /\ awaiting = {} /\ call \in CallType
      /\ link' = [link EXCEPT !.st = "down", !.waiters = {}]
      /\ UNCHANGED <<awaiting, seq, line>> /\ ensures \in [Runs -> EnsureType]
  BY DEF DialFails, WireIsTrue, ChildrenAreKnown
<1>2. link' \in LinkType /\ link'.waiters = {} /\ link.waiters \in SUBSET Calls
  BY <1>1 DEF LinkType
<1>3. CASE \E k \in Unused :
             /\ ensures' = [ensures EXCEPT ![k].st = "probing", ![k].waiters = link.waiters]
             /\ UNCHANGED call
  <2>1. PICK k \in Unused :
             /\ ensures' = [ensures EXCEPT ![k].st = "probing", ![k].waiters = link.waiters]
             /\ UNCHANGED call
    BY <1>3
  <2>2. /\ k \in Runs /\ ensures'[k].waiters = link.waiters
        /\ \A j \in Runs : j # k => ensures'[j].waiters = ensures[j].waiters
    BY <2>1, <1>1 DEF Unused, EnsureType
  <2>3. WireIsTrue'
    BY <2>1, <1>1, <1>2, OffTheWire
  <2>4. WaitersJoin'
    BY <2>1, <2>2, <1>2 DEF WaitersJoin
  <2>5. QED
    BY <2>3, <2>4
<1>4. CASE Fail(link.waiters) /\ UNCHANGED ensures
  <2>1. /\ call' \in CallType
        /\ \A c \in Calls \ link.waiters : call'[c] = call[c]
        /\ \A c \in link.waiters : call'[c].st = "failed"
    BY <1>1, <1>2, <1>4 DEF Fail, CallType
  <2>2. \A c \in link.waiters : call[c].st # "sent"
    BY DEF WaitersJoin
  <2>3. WireIsTrue'
    BY <2>1, <2>2, <1>1, <1>2, OffTheWire
  <2>4. WaitersJoin'
    <3>1. \A k \in Runs : /\ ensures'[k].waiters \subseteq ensures[k].waiters
                          /\ ensures'[k].waiters \cap link.waiters = {}
      BY <1>4 DEF WaitersJoin
    <3>2. QED
      BY <3>1, <2>1, <1>2, WaitersStay
  <2>5. QED
    BY <2>3, <2>4
<1>5. QED
  BY <1>3, <1>4 DEF DialFails

\* A step that leaves the calls and who waits alone.
LEMMA CallsUntouched ==
    ASSUME BridgeInv, UNCHANGED <<link, awaiting, seq, line, call>>,
           \A k \in Runs : ensures'[k].waiters = ensures[k].waiters
    PROVE  WireIsTrue' /\ WaitersJoin'
<1>1. WireIsTrue'
  BY DEF BridgeInv, WireIsTrue
<1>2. WaitersJoin'
  BY DEF BridgeInv, WaitersJoin
<1>3. QED
  BY <1>1, <1>2

\* The connection closes.
LEMMA OnCloseKeeps == ASSUME BridgeInv, onClose PROVE WireIsTrue' /\ WaitersJoin'
<1> USE DEF BridgeInv
<1> DEFINE S == {c \in Calls : \E r \in awaiting : r.of = c}
<1>1. /\ link \in LinkType /\ call \in CallType /\ seq \in Nat
      /\ link' = [link EXCEPT !.st = "down"] /\ awaiting' = {}
      /\ line' = Silent /\ seq' = seq /\ ensures' = ensures
      /\ call' = [c \in Calls |-> IF c \in S THEN [call[c] EXCEPT !.st = "failed"] ELSE call[c]]
  BY DEF onClose, WireIsTrue, Fail
<1>2. /\ call' \in CallType /\ \A c \in Calls \ S : call'[c] = call[c]
      /\ \A c \in S : call'[c].st = "failed" /\ call[c].st = "sent"
      /\ \A c \in Calls : call'[c].st # "sent"
  <2>1. \A c \in Calls : call[c].st = "sent" <=> c \in S
    BY DEF WireIsTrue
  <2>2. QED
    BY <2>1, <1>1 DEF CallType
<1>3. link' \in LinkType /\ link'.waiters = link.waiters /\ link.waiters \subseteq Calls
  BY <1>1 DEF LinkType
<1>4. line' \in [asked : SUBSET RequestType(seq), answers : Seq(RequestType(seq))]
      /\ line'.asked = {} /\ Range(line'.answers) = {}
  BY <1>1, EmptySeq DEF Silent, Range
<1> HIDE DEF S
<1>5. \A c \in Calls : call'[c].st = "answered" => call'[c].got = c
  BY <1>2 DEF WireIsTrue
<1>6. WireIsTrue'
  BY <1>1, <1>2, <1>3, <1>4, <1>5 DEF WireIsTrue
<1>7. WaitersJoin'
  <2>1. /\ \A c \in link.waiters : c \notin S
        /\ \A k \in Runs : ensures[k].waiters \cap S = {}
    BY <1>2 DEF WaitersJoin
  <2>2. QED
    BY <2>1, <1>1, <1>2, <1>3 DEF WaitersJoin
<1>8. QED
  BY <1>6, <1>7

\* A call that was given up.
LEMMA TimesOutKeeps ==
    ASSUME BridgeInv, NEW r \in awaiting, TimesOut(r) PROVE WireIsTrue' /\ WaitersJoin'
<1> USE DEF BridgeInv
<1> DEFINE S == {r.of} \cap Calls
<1>1. /\ link \in LinkType /\ call \in CallType
      /\ awaiting' = awaiting \ {r} /\ UNCHANGED <<ensures, link, seq, line>>
      /\ call' = [c \in Calls |-> IF c \in S THEN [call[c] EXCEPT !.st = "failed"] ELSE call[c]]
  BY DEF TimesOut, WireIsTrue, Fail
<1>2. /\ call' \in CallType /\ \A c \in Calls \ S : call'[c] = call[c]
      /\ \A c \in S : call'[c].st = "failed" /\ call[c].st = "sent"
  <2>1. \A c \in S : call[c].st = "sent"
    BY DEF WireIsTrue
  <2>2. QED
    BY <2>1, <1>1 DEF CallType
<1>3. \A c \in Calls : (call'[c].st = "sent") <=> \E m \in awaiting' : m.of = c
  <2> SUFFICES ASSUME NEW c \in Calls
               PROVE  (call'[c].st = "sent") <=> \E m \in awaiting' : m.of = c
    OBVIOUS
  <2>1. CASE c \in S
    <3>1. \A m \in awaiting : m.of = c => m = r
      BY <2>1 DEF WireIsTrue
    <3>2. QED
      BY <3>1, <2>1, <1>1, <1>2
  <2>2. CASE c \notin S
    <3>1. call'[c] = call[c] /\ r.of # c
      BY <2>2, <1>2
    <3>2. (call[c].st = "sent") <=> \E m \in awaiting : m.of = c
      BY DEF WireIsTrue
    <3>3. QED
      BY <3>1, <3>2, <1>1
  <2>3. QED
    BY <2>1, <2>2
<1> HIDE DEF S
<1>4. \A c \in Calls : call'[c].st = "answered" => call'[c].got = c
  BY <1>2 DEF WireIsTrue
<1>5. WireIsTrue'
  BY <1>1, <1>2, <1>3, <1>4 DEF WireIsTrue
<1>6. WaitersJoin'
  <2>1. /\ \A c \in link.waiters : c \notin S
        /\ \A k \in Runs : ensures[k].waiters \cap S = {}
    BY <1>2 DEF WaitersJoin
  <2>2. link.waiters \subseteq Calls
    BY <1>1 DEF LinkType
  <2>3. QED
    BY <2>1, <2>2, <1>1, <1>2 DEF WaitersJoin
<1>7. QED
  BY <1>5, <1>6

\* cored answers; the request and its answer have the same id.
LEMMA AnswerKeeps ==
    ASSUME BridgeInv, NEW r \in line.asked, Answer(r) PROVE WireIsTrue' /\ WaitersJoin'
<1> USE DEF BridgeInv
<1>1. /\ line \in [asked : SUBSET RequestType(seq), answers : Seq(RequestType(seq))]
      /\ line' = [asked |-> line.asked \ {r}, answers |-> Append(line.answers, r)]
      /\ UNCHANGED <<ensures, link, awaiting, seq, call>>
  BY DEF Answer, WireIsTrue
<1>2. /\ Range(line'.answers) = Range(line.answers) \cup {r}
      /\ line'.answers \in Seq(RequestType(seq))
  BY <1>1, RangeOfAppend, AppendProperties
<1>3. /\ line' \in [asked : SUBSET RequestType(seq), answers : Seq(RequestType(seq))]
      /\ line'.asked \cup Range(line'.answers) = line.asked \cup Range(line.answers)
  BY <1>1, <1>2
<1>4. WireIsTrue'
  BY <1>1, <1>3 DEF WireIsTrue
<1>5. WaitersJoin'
  BY <1>1 DEF WaitersJoin
<1>6. QED
  BY <1>4, <1>5

\* An answer is taken.
LEMMA OnDataKeeps == ASSUME BridgeInv, onData PROVE WireIsTrue' /\ WaitersJoin'
<1> USE DEF BridgeInv
<1> DEFINE msg == Head(line.answers)
           entries == {r \in awaiting : r.id = msg.id}
           S == {c \in Calls : \E r \in entries : r.of = c}
<1>1. /\ link \in LinkType /\ call \in CallType /\ line.answers # <<>>
      /\ line \in [asked : SUBSET RequestType(seq), answers : Seq(RequestType(seq))]
      /\ line' = [line EXCEPT !.answers = Tail(@)]
      /\ UNCHANGED <<ensures, link, seq>> /\ awaiting' = awaiting \ entries
      /\ call' = [c \in Calls |-> IF \E r \in entries : r.of = c
                                  THEN [st |-> "answered", got |-> msg.of] ELSE call[c]]
  BY DEF onData, WireIsTrue
<1>2. /\ msg \in RequestType(seq) /\ Tail(line.answers) \in Seq(RequestType(seq))
      /\ Range(line.answers) = Range(Tail(line.answers)) \cup {msg}
  BY <1>1, RangeOfTail
<1> HIDE DEF msg
<1>3. \A r \in entries : r = msg
  BY <1>2 DEF WireIsTrue
<1>4. \A c \in S : msg.of = c /\ msg \in entries
  BY <1>3
<1>5. /\ call' \in CallType /\ \A c \in Calls \ S : call'[c] = call[c]
      /\ \A c \in S : /\ call'[c].st = "answered" /\ call'[c].got = c
                      /\ call[c].st = "sent"
  <2>1. \A c \in S : call[c].st = "sent"
    BY DEF WireIsTrue
  <2>2. QED
    BY <2>1, <1>1, <1>4 DEF CallType
<1>6. \A c \in Calls : (call'[c].st = "sent") <=> \E m \in awaiting' : m.of = c
  <2> SUFFICES ASSUME NEW c \in Calls
               PROVE  (call'[c].st = "sent") <=> \E m \in awaiting' : m.of = c
    OBVIOUS
  <2>1. CASE c \in S
    <3>1. \A m \in awaiting : m.of = c => m = msg
      BY <2>1, <1>4 DEF WireIsTrue
    <3>2. QED
      BY <3>1, <2>1, <1>1, <1>4, <1>5
  <2>2. CASE c \notin S
    <3>1. call'[c] = call[c] /\ \A r \in entries : r.of # c
      BY <2>2, <1>5
    <3>2. (call[c].st = "sent") <=> \E m \in awaiting : m.of = c
      BY DEF WireIsTrue
    <3>3. QED
      BY <3>1, <3>2, <1>1
  <2>3. QED
    BY <2>1, <2>2
<1>7. /\ line' \in [asked : SUBSET RequestType(seq), answers : Seq(RequestType(seq))]
      /\ line'.asked \cup Range(line'.answers) \subseteq line.asked \cup Range(line.answers)
  BY <1>1, <1>2
<1>8. awaiting' \subseteq awaiting
  BY <1>1
<1> HIDE DEF entries, S
<1>9. \A c \in Calls : call'[c].st = "answered" => call'[c].got = c
  BY <1>5 DEF WireIsTrue
<1>10. WireIsTrue'
  <2>1. /\ link' \in LinkType /\ call' \in CallType /\ seq' = seq /\ seq \in Nat
        /\ link'.st = link.st
    BY <1>1, <1>5 DEF WireIsTrue
  <2>2. /\ \A r \in awaiting', m \in awaiting' \cup line'.asked \cup Range(line'.answers) :
              r.id = m.id => r = m
        /\ \A r, m \in awaiting' : r.of = m.of /\ r.of \in Calls => r = m
        /\ awaiting' \subseteq RequestType(seq)
        /\ awaiting' # {} => link.st = "up"
    BY <1>7, <1>8 DEF WireIsTrue
  <2>3. QED
    BY <2>1, <2>2, <1>6, <1>7, <1>9 DEF WireIsTrue
<1>11. WaitersJoin'
  <2>1. /\ \A c \in link.waiters : c \notin S
        /\ \A k \in Runs : ensures[k].waiters \cap S = {}
    BY <1>5 DEF WaitersJoin
  <2>2. link.waiters \subseteq Calls
    BY <1>1 DEF LinkType
  <2>3. /\ link' = link /\ ensures' = ensures
        /\ \A c \in Calls \ S : call'[c] = call[c]
    BY <1>1, <1>5
  <2>4. QED
    BY <2>1, <2>2, <2>3 DEF WaitersJoin
<1>12. QED
  BY <1>10, <1>11
-----------------------------------------------------------------------------
(* The runs of ensureCoredProcess.                                            *)

\* A step of a run: it ends well, it ends badly, or it goes on.
LEMMA EnsureStepFacts ==
    ASSUME BridgeInv, NEW k \in Runs, EnsureStep(k)
    PROVE  /\ facts' = facts /\ serving' = serving
           /\ \/ Succeeds(k, "adopted") \/ Succeeds(k, "spawned")
              \/ /\ Fails(k) /\ proc' = proc
                 /\ ensures[k].child = NoOne \/ proc[ensures[k].child].st = "gone"
              \/ /\ UNCHANGED <<backendReady, link, callVars, hosts, controlHost>>
                 /\ ensures' \in [Runs -> EnsureType]
                 /\ \A j \in Runs : /\ j # k => ensures'[j] = ensures[j]
                                    /\ ensures'[j].waiters = ensures[j].waiters
                 /\ ensures'[k].st \in {"waiting", "reaping", "reprobing"}
                 /\ ensures'[k].child # NoOne
                 /\ ensures'[k].st = "reprobing" => proc'[ensures'[k].child].st = "gone"
           /\ proc' \in [Procs -> ProcType]
           /\ \A p \in Procs : proc[p].st = "gone" => proc'[p].st = "gone"
<1> USE DEF BridgeInv
<1>1. /\ proc \in [Procs -> ProcType] /\ ensures \in [Runs -> EnsureType]
      /\ Procs \subseteq Nat \ {NoOne} /\ ensures[k] \in EnsureType
      /\ ensures[k].st \in {"none", "probing"} => ensures[k].child = NoOne
      /\ ensures[k].st \in {"waiting", "reaping", "reprobing"} => ensures[k].child # NoOne
      /\ ensures[k].st \in {"reprobing", "failed"} /\ ensures[k].child # NoOne
            => proc[ensures[k].child].st = "gone"
  BY BridgeAssumption DEF ChildrenAreKnown, Procs, NoOne
<1>2. ensures[k].child # NoOne => ensures[k].child \in Procs
  BY <1>1 DEF EnsureType
<1>3. CASE Probe(k)
  <2>1. ensures[k].st = "probing" /\ ensures[k].child = NoOne /\ facts' = facts
        /\ serving' = serving
    BY <1>1, <1>3 DEF Probe
  <2>2. CASE \E p \in Procs :
            /\ serving = NoOne /\ proc[p].st = "none" /\ \A q \in 1..(p - 1) : proc[q].st # "none"
            /\ proc' = [proc EXCEPT ![p].st = "starting", ![p].ours = TRUE]
            /\ ensures' = [ensures EXCEPT ![k].st = "waiting", ![k].child = p]
            /\ UNCHANGED <<backendReady, link, callVars, hosts, controlHost>>
    <3>1. PICK p \in Procs :
            /\ proc[p].st = "none"
            /\ proc' = [proc EXCEPT ![p].st = "starting", ![p].ours = TRUE]
            /\ ensures' = [ensures EXCEPT ![k].st = "waiting", ![k].child = p]
            /\ UNCHANGED <<backendReady, link, callVars, hosts, controlHost>>
      BY <2>2
    <3>2. /\ proc' \in [Procs -> ProcType]
          /\ \A q \in Procs : proc[q].st = "gone" => proc'[q].st = "gone"
      BY <1>1, <3>1 DEF ProcType
    <3>3. /\ ensures' \in [Runs -> EnsureType]
          /\ \A j \in Runs : /\ j # k => ensures'[j] = ensures[j]
                             /\ ensures'[j].waiters = ensures[j].waiters
          /\ ensures'[k].st = "waiting" /\ ensures'[k].child = p
      BY <1>1, <3>1 DEF EnsureType
    <3>4. QED
      BY <1>1, <2>1, <3>1, <3>2, <3>3
  <2>3. CASE Succeeds(k, "adopted") /\ UNCHANGED proc
    BY <1>1, <2>1, <2>3
  <2>4. CASE Fails(k) /\ UNCHANGED proc
    BY <1>1, <2>1, <2>4
  <2>5. QED
    BY <1>3, <2>2, <2>3, <2>4 DEF Probe
<1>4. CASE ReadyLine(k)
  <2>1. /\ proc' = [proc EXCEPT ![ensures[k].child].line = FALSE]
        /\ Succeeds(k, "spawned") /\ facts' = facts /\ serving' = serving
        /\ ensures[k].child \in Procs
    BY <1>1, <1>2, <1>4 DEF ReadyLine
  <2>2. /\ proc' \in [Procs -> ProcType]
        /\ \A q \in Procs : proc[q].st = "gone" => proc'[q].st = "gone"
    BY <1>1, <2>1 DEF ProcType
  <2>3. QED
    BY <2>1, <2>2
<1>5. CASE TooLate(k)
  <2>1. /\ ensures' = [ensures EXCEPT ![k].st = "reaping"]
        /\ proc' = [proc EXCEPT ![ensures[k].child].dying = TRUE]
        /\ UNCHANGED <<serving, backendReady, link, callVars, hostVars>>
        /\ ensures[k].child \in Procs /\ ensures[k].child # NoOne
    BY <1>1, <1>2, <1>5 DEF TooLate
  <2>2. /\ proc' \in [Procs -> ProcType]
        /\ \A q \in Procs : proc[q].st = "gone" => proc'[q].st = "gone"
    BY <1>1, <2>1 DEF ProcType
  <2>3. /\ ensures' \in [Runs -> EnsureType]
        /\ \A j \in Runs : /\ j # k => ensures'[j] = ensures[j]
                           /\ ensures'[j].waiters = ensures[j].waiters
        /\ ensures'[k].st = "reaping" /\ ensures'[k].child = ensures[k].child
    BY <1>1, <2>1 DEF EnsureType
  <2>4. QED
    BY <2>1, <2>2, <2>3 DEF hostVars
<1>6. CASE ReapedAndFailed(k)
  BY <1>1, <1>6 DEF ReapedAndFailed, Child
<1>7. CASE ChildClosed(k)
  <2>1. /\ proc[ensures[k].child].st = "gone" /\ UNCHANGED <<proc, serving, facts>>
        /\ ensures[k].child # NoOne
    BY <1>1, <1>7 DEF ChildClosed, Child
  <2>2. CASE Child(k).code = 0
    <3>1. /\ ensures' = [ensures EXCEPT ![k].st = "reprobing"]
          /\ UNCHANGED <<backendReady, link, callVars, hosts, controlHost>>
      BY <1>7, <2>2 DEF ChildClosed
    <3>2. /\ ensures' \in [Runs -> EnsureType]
          /\ \A j \in Runs : /\ j # k => ensures'[j] = ensures[j]
                             /\ ensures'[j].waiters = ensures[j].waiters
          /\ ensures'[k].st = "reprobing" /\ ensures'[k].child = ensures[k].child
      BY <1>1, <3>1 DEF EnsureType
    <3>3. QED
      BY <1>1, <2>1, <3>1, <3>2
  <2>3. CASE Child(k).code # 0
    BY <1>1, <1>7, <2>1, <2>3 DEF ChildClosed
  <2>4. QED
    BY <2>2, <2>3
<1>8. CASE Reprobe(k)
  BY <1>1, <1>8 DEF Reprobe
<1>9. QED
  BY <1>3, <1>4, <1>5, <1>6, <1>7, <1>8 DEF EnsureStep

\* The calls that a run has kept waiting go on or fail.
LEMMA EnsureStepKeepsCalls ==
    ASSUME BridgeInv, NEW k \in Runs, EnsureStep(k) PROVE WireIsTrue' /\ WaitersJoin'
<1> USE DEF BridgeInv
<1> DEFINE S == IF k = boot THEN Early ELSE ensures[k].waiters
<1>1. /\ link \in LinkType /\ link.waiters \subseteq Calls
      /\ ensures \in [Runs -> EnsureType] /\ S \in SUBSET Calls
  BY DEF WireIsTrue, LinkType, ChildrenAreKnown, WaitersJoin, Early
<1>2. /\ \A c \in S : call[c].st \in {"early", "joining"}
      /\ S \cap link.waiters = {}
      /\ \A j \in Runs : j # k => S \cap ensures[j].waiters = {}
      /\ \A c \in link.waiters : call[c].st = "joining"
  BY DEF WaitersJoin, Early
<1> HIDE DEF S
<1>3. ASSUME ensures' = [ensures EXCEPT ![k].st = ensures'[k].st, ![k].waiters = {}]
      PROVE  \A j \in Runs : /\ ensures'[j].waiters \subseteq ensures[j].waiters
                             /\ ensures'[j].waiters \cap S = {}
  <2>1. /\ ensures'[k].waiters = {}
        /\ \A j \in Runs : j # k => ensures'[j] = ensures[j]
    BY <1>1, <1>3 DEF EnsureType
  <2>2. QED
    BY <2>1, <1>2
<1>4. ASSUME NEW how, Succeeds(k, how)
      PROVE  WireIsTrue' /\ WaitersJoin'
  <2>1. \A j \in Runs : /\ ensures'[j].waiters \subseteq ensures[j].waiters
                        /\ ensures'[j].waiters \cap S = {}
    <3>1. ensures' = [ensures EXCEPT ![k].st = how, ![k].waiters = {}]
      BY <1>4 DEF Succeeds
    <3>2. ensures'[k].st = how
      BY <1>1, <3>1 DEF EnsureType
    <3>3. QED
      BY <3>1, <3>2, <1>3
  <2>2. CASE Join(S)
    <3>1. /\ WireIsTrue' /\ \A c \in Calls \ S : call'[c] = call[c]
          /\ link'.waiters \subseteq link.waiters \cup S
          /\ \A c \in link'.waiters : call'[c].st = "joining"
      BY <1>1, <1>2, <2>2, JoinKeeps
    <3>2. QED
      BY <3>1, <2>1, <1>1, WaitersStay
  <2>3. CASE UNCHANGED <<link, callVars>>
    <3>1. WireIsTrue'
      BY <2>3 DEF WireIsTrue, callVars
    <3>2. /\ \A c \in Calls \ S : call'[c] = call[c]
          /\ link'.waiters \subseteq link.waiters \cup S
          /\ \A c \in link'.waiters : call'[c].st = "joining"
      BY <1>2, <2>3 DEF callVars
    <3>3. QED
      BY <3>1, <3>2, <2>1, <1>1, WaitersStay
  <2>4. QED
    BY <1>4, <2>2, <2>3 DEF Succeeds, S
<1>5. ASSUME Fails(k)
      PROVE  WireIsTrue' /\ WaitersJoin'
  <2>1. \A j \in Runs : /\ ensures'[j].waiters \subseteq ensures[j].waiters
                        /\ ensures'[j].waiters \cap S = {}
    <3>1. ensures' = [ensures EXCEPT ![k].st = "failed", ![k].waiters = {}]
      BY <1>5 DEF Fails
    <3>2. ensures'[k].st = "failed"
      BY <1>1, <3>1 DEF EnsureType
    <3>3. QED
      BY <3>1, <3>2, <1>3
  <2>2. Fail(S) /\ UNCHANGED <<link, awaiting, seq, line>>
    BY <1>5 DEF Fails, Rejected, S
  <2>3. WireIsTrue' /\ \A c \in Calls \ S : call'[c] = call[c]
    BY <1>1, <1>2, <2>2, FailKeeps
  <2>4. \A c \in link'.waiters : call'[c].st = "joining"
    BY <1>1, <1>2, <2>2, <2>3
  <2>5. QED
    BY <2>1, <2>2, <2>3, <2>4, <1>1, WaitersStay
<1>6. CASE UNCHANGED <<link, callVars>> /\ \A j \in Runs : ensures'[j].waiters = ensures[j].waiters
  BY <1>6, CallsUntouched DEF callVars
<1>7. QED
  BY <1>4, <1>5, <1>6, EnsureStepFacts

LEMMA CallBackendKeeps ==
    ASSUME BridgeInv, NEW c \in Calls, callBackend(c) PROVE WireIsTrue' /\ WaitersJoin'
<1> USE DEF BridgeInv
<1>1. /\ link \in LinkType /\ link.waiters \subseteq Calls /\ call \in CallType
      /\ {c} \in SUBSET Calls /\ call[c].st = "new" /\ ensures' = ensures
      /\ \A x \in link.waiters : call[x].st = "joining"
      /\ {c} \cap link.waiters = {}
      /\ \A j \in Runs : /\ ensures'[j].waiters \subseteq ensures[j].waiters
                         /\ ensures'[j].waiters \cap {c} = {}
  BY DEF callBackend, WireIsTrue, LinkType, WaitersJoin
<1>2. CASE Join({c})
  <2>1. /\ WireIsTrue' /\ \A x \in Calls \ {c} : call'[x] = call[x]
        /\ link'.waiters \subseteq link.waiters \cup {c}
        /\ \A x \in link'.waiters : call'[x].st = "joining"
    BY <1>1, <1>2, JoinKeeps
  <2>2. QED
    BY <2>1, <1>1, WaitersStay
<1>3. CASE Fail({c}) /\ UNCHANGED <<link, awaiting, seq, line>>
  <2>1. WireIsTrue' /\ \A x \in Calls \ {c} : call'[x] = call[x]
    BY <1>1, <1>3, FailKeeps
  <2>2. \A x \in link'.waiters : call'[x].st = "joining"
    BY <1>1, <1>3, <2>1
  <2>3. QED
    BY <2>1, <2>2, <1>1, <1>3, WaitersStay
<1>4. CASE call' = [call EXCEPT ![c].st = "early"] /\ UNCHANGED <<link, awaiting, seq, line>>
  <2>1. /\ call' \in CallType /\ call'[c].st = "early"
        /\ \A x \in Calls \ {c} : call'[x] = call[x]
    BY <1>1, <1>4 DEF CallType
  <2>2. WireIsTrue'
    BY <2>1, <1>1, <1>4, OffTheWire DEF WireIsTrue
  <2>3. \A x \in link'.waiters : call'[x].st = "joining"
    BY <1>1, <1>4, <2>1
  <2>4. QED
    BY <2>1, <2>2, <2>3, <1>1, <1>4, WaitersStay
<1>5. QED
  BY <1>2, <1>3, <1>4 DEF callBackend, ChildrenAreKnown

\* A run of ensureCoredProcess starts nothing it forgets.
LEMMA EnsureStepKeepsChildren ==
    ASSUME BridgeInv, NEW k \in Runs, EnsureStep(k) PROVE ChildrenAreKnown' /\ HostInforms'
<1> USE DEF BridgeInv
<1>1. /\ facts' = facts /\ serving' = serving /\ proc' \in [Procs -> ProcType]
      /\ \A p \in Procs : proc[p].st = "gone" => proc'[p].st = "gone"
  BY EnsureStepFacts
<1>2. /\ ensures \in [Runs -> EnsureType] /\ serving \in Procs \cup {NoOne}
      /\ backendReady \in {"no", "yes", "failed"} /\ HostInforms
      /\ \A j \in Runs :
         /\ ensures[j].child # NoOne => ensures[j].child \in Procs
         /\ ensures[j].st \in {"none", "probing"} => ensures[j].child = NoOne
         /\ ensures[j].st \in {"waiting", "reaping", "reprobing"} => ensures[j].child # NoOne
         /\ ensures[j].st \in {"reprobing", "failed"} /\ ensures[j].child # NoOne
              => proc[ensures[j].child].st = "gone"
  BY DEF ChildrenAreKnown, EnsureType
<1>3. ASSUME UNCHANGED <<hosts, controlHost>>
      PROVE  HostInforms'
  BY <1>1, <1>2, <1>3 DEF HostInforms
<1>4. ASSUME NEW how \in {"adopted", "spawned"}, Succeeds(k, how)
      PROVE  ChildrenAreKnown' /\ HostInforms'
  <2>1. /\ ensures' = [ensures EXCEPT ![k].st = how, ![k].waiters = {}]
        /\ hosts' = [hosts EXCEPT ![k] = NewHost] /\ controlHost' = k
        /\ backendReady' \in {"no", "yes", "failed"}
    BY <1>2, <1>4 DEF Succeeds
  <2>2. /\ ensures' \in [Runs -> EnsureType] /\ ensures'[k].st = how
        /\ \A j \in Runs : j # k => ensures'[j] = ensures[j]
    BY <1>2, <2>1 DEF EnsureType
  <2>3. \A j \in Runs : j # k =>
         /\ ensures'[j].st \in {"none", "probing"} => ensures'[j].child = NoOne
         /\ ensures'[j].st \in {"waiting", "reaping", "reprobing"} => ensures'[j].child # NoOne
         /\ ensures'[j].st \in {"reprobing", "failed"} /\ ensures'[j].child # NoOne
              => proc'[ensures'[j].child].st = "gone"
    BY <1>1, <1>2, <2>2
  <2>4. ChildrenAreKnown'
    BY <1>1, <1>2, <2>1, <2>2, <2>3 DEF ChildrenAreKnown
  <2>5. HostInforms'
    <3>1. NewHost = [st |-> "dialing", to |-> NoOne, queue |-> <<>>, known |-> NoFacts,
                     at |-> NoFacts]
      BY DEF NewHost, NoHost
    <3>2. <<>> \in Seq(Message) /\ NoOne \in Procs \cup {NoOne} /\ DOMAIN <<>> = {}
      BY EmptySeq
    <3>3. NewHost \in HostType /\ Informs(NewHost, facts) /\ Latest(NewHost, facts)
      BY <3>1, <3>2 DEF HostType, Informs, Latest
    <3>4. /\ hosts' \in [Runs -> HostType] /\ hosts'[k] = NewHost
          /\ \A j \in Runs : j # k => hosts'[j] = hosts[j]
      BY <1>2, <2>1, <3>3 DEF HostInforms
    <3>5. QED
      BY <1>1, <1>2, <2>1, <3>3, <3>4 DEF HostInforms
  <2>6. QED
    BY <2>4, <2>5
<1>5. ASSUME Fails(k), ensures[k].child = NoOne \/ proc[ensures[k].child].st = "gone"
      PROVE  ChildrenAreKnown' /\ HostInforms'
  <2>1. /\ ensures' = [ensures EXCEPT ![k].st = "failed", ![k].waiters = {}]
        /\ UNCHANGED <<hosts, controlHost>> /\ backendReady' \in {"no", "yes", "failed"}
    BY <1>2, <1>5 DEF Fails
  <2>2. /\ ensures' \in [Runs -> EnsureType] /\ ensures'[k].st = "failed"
        /\ ensures'[k].child = ensures[k].child
        /\ \A j \in Runs : j # k => ensures'[j] = ensures[j]
    BY <1>2, <2>1 DEF EnsureType
  <2>3. \A j \in Runs :
         /\ ensures'[j].st \in {"none", "probing"} => ensures'[j].child = NoOne
         /\ ensures'[j].st \in {"waiting", "reaping", "reprobing"} => ensures'[j].child # NoOne
         /\ ensures'[j].st \in {"reprobing", "failed"} /\ ensures'[j].child # NoOne
              => proc'[ensures'[j].child].st = "gone"
    BY <1>1, <1>2, <1>5, <2>2
  <2>4. QED
    BY <1>1, <1>2, <1>3, <2>1, <2>2, <2>3 DEF ChildrenAreKnown
<1>6. ASSUME /\ UNCHANGED <<backendReady, link, callVars, hosts, controlHost>>
             /\ ensures' \in [Runs -> EnsureType]
             /\ \A j \in Runs : j # k => ensures'[j] = ensures[j]
             /\ ensures'[k].st \in {"waiting", "reaping", "reprobing"}
             /\ ensures'[k].child # NoOne
             /\ ensures'[k].st = "reprobing" => proc'[ensures'[k].child].st = "gone"
      PROVE  ChildrenAreKnown' /\ HostInforms'
  <2>1. \A j \in Runs :
         /\ ensures'[j].st \in {"none", "probing"} => ensures'[j].child = NoOne
         /\ ensures'[j].st \in {"waiting", "reaping", "reprobing"} => ensures'[j].child # NoOne
         /\ ensures'[j].st \in {"reprobing", "failed"} /\ ensures'[j].child # NoOne
              => proc'[ensures'[j].child].st = "gone"
    BY <1>1, <1>2, <1>6
  <2>2. QED
    BY <1>1, <1>2, <1>3, <1>6, <2>1 DEF ChildrenAreKnown
<1>7. QED
  BY <1>4, <1>5, <1>6, EnsureStepFacts

\* Processes come and go: one that is gone stays gone.
LEMMA ProcessesKeep ==
    ASSUME BridgeInv, NEW p \in Procs,
           Looks(p) \/ Bind(p) \/ Dies(p) \/ Killed(p) \/ OtherStarts(p)
    PROVE  BridgeInv'
<1> USE DEF BridgeInv
<1>1. proc \in [Procs -> ProcType] /\ serving \in Procs \cup {NoOne}
  BY DEF ChildrenAreKnown
<1>2. UNCHANGED <<ensures, backendReady, link, awaiting, seq, line, call, hosts, controlHost,
                  facts>>
  BY DEF Looks, Bind, Dies, Killed, OtherStarts, callVars, hostVars
<1>3. /\ proc' \in [Procs -> ProcType] /\ serving' \in Procs \cup {NoOne}
      /\ \A q \in Procs : proc[q].st = "gone" => proc'[q].st = "gone"
  <2>1. CASE Looks(p) \/ Bind(p)
    <3>1. CASE Looks(p)
      BY <1>1, <3>1 DEF Looks, ProcType
    <3>2. CASE Bind(p)
      BY <1>1, <3>2 DEF Bind, ProcType
    <3>3. QED
      BY <2>1, <3>1, <3>2
  <2>2. CASE Dies(p) \/ Killed(p)
    BY <1>1, <2>2 DEF Dies, Killed, ProcType
  <2>3. CASE OtherStarts(p)
    BY <1>1, <2>3 DEF OtherStarts, ProcType
  <2>4. QED
    BY <2>1, <2>2, <2>3
<1>4. ChildrenAreKnown'
  <2>1. ensures \in [Runs -> EnsureType]
    BY DEF ChildrenAreKnown
  <2>2. \A j \in Runs : ensures[j].child # NoOne => ensures[j].child \in Procs
    BY <2>1 DEF EnsureType
  <2>3. QED
    BY <1>2, <1>3, <2>1, <2>2 DEF ChildrenAreKnown
<1>5. WireIsTrue' /\ WaitersJoin'
  BY <1>2, CallsUntouched
<1>6. HostInforms'
  BY <1>2 DEF HostInforms
<1>7. QED
  BY <1>4, <1>5, <1>6

\* What is added at the end is last.
LEMMA LastOfAppend ==
    ASSUME NEW S, NEW q \in Seq(S), NEW e \in S
    PROVE  LET r == Append(q, e) IN
           /\ r \in Seq(S) /\ r # <<>> /\ r[Len(r)] = e
           /\ Len(r) \in DOMAIN r
           /\ \A i \in DOMAIN q : i \in DOMAIN r /\ r[i] = q[i]
           /\ \A i \in DOMAIN r : i = Len(r) \/ (i \in DOMAIN q /\ r[i] = q[i])
           /\ \A i \in DOMAIN r : i \in Nat /\ i <= Len(r)
<1>1. /\ Append(q, e) \in Seq(S) /\ Len(Append(q, e)) = Len(q) + 1
      /\ Append(q, e)[Len(q) + 1] = e /\ Len(q) \in Nat
      /\ \A i \in 1..Len(q) : Append(q, e)[i] = q[i]
  OBVIOUS
<1>2. DOMAIN q = 1..Len(q) /\ DOMAIN Append(q, e) = 1..(Len(q) + 1)
  BY <1>1
<1>3. QED
  BY <1>1, <1>2

\* A step that changes one control host, and not what the windows are.
LEMMA OneHostChanges ==
    ASSUME BridgeInv, NEW k \in Runs, NEW h \in HostType,
           UNCHANGED <<processVars, ensures, backendReady, link, callVars, controlHost, facts>>,
           hosts' = [hosts EXCEPT ![k] = h],
           Informs(h, facts), k = controlHost => Latest(h, facts)
    PROVE  BridgeInv'
<1> USE DEF BridgeInv
<1>1. UNCHANGED <<proc, serving, ensures, backendReady, link, awaiting, seq, line, call,
                  controlHost, facts>>
  BY DEF processVars, callVars
<1>2. WireIsTrue' /\ WaitersJoin' /\ ChildrenAreKnown'
  BY <1>1, CallsUntouched DEF ChildrenAreKnown
<1>3. HostInforms'
  <2>1. /\ hosts' \in [Runs -> HostType] /\ hosts'[k] = h
        /\ \A j \in Runs : j # k => hosts'[j] = hosts[j]
    BY DEF HostInforms
  <2>2. QED
    BY <1>1, <2>1 DEF HostInforms
<1>4. QED
  BY <1>2, <1>3

\* The registration goes to the end of what was written before.
LEMMA HostConnectsKeeps ==
    ASSUME BridgeInv, NEW k \in Runs, HostConnects(k) PROVE BridgeInv'
<1> USE DEF BridgeInv
<1> DEFINE q == hosts[k].queue
           e == <<"attach", facts>>
           r == Append(q, e)
           h == [hosts[k] EXCEPT !.st = "up", !.to = serving, !.at = facts, !.queue = r]
<1>1. /\ hosts[k] \in HostType /\ hosts[k].st = "dialing" /\ Informs(hosts[k], facts)
      /\ facts \in 0..MaxFacts /\ MaxFacts \in Nat /\ q \in Seq(Message)
      /\ serving \in Procs \cup {NoOne} /\ hosts \in [Runs -> HostType]
  BY BridgeAssumption DEF HostConnects, HostInforms, ChildrenAreKnown, HostType
<1>2. e \in Message /\ e[1] = "attach" /\ e[2] = facts
  BY <1>1 DEF Message
<1>3. hosts' = [hosts EXCEPT ![k] = h]
  BY DEF HostConnects
<1> HIDE DEF e
<1>4. /\ r \in Seq(Message) /\ r # <<>> /\ Len(r) \in DOMAIN r /\ r[Len(r)] = e
      /\ \A i \in DOMAIN r : i = Len(r) \/ (i \in DOMAIN q /\ r[i] = q[i])
      /\ \A i \in DOMAIN r : i \in Nat /\ i <= Len(r)
  BY <1>1, <1>2, LastOfAppend
<1>5. \A i \in DOMAIN q : q[i][1] = "windows"
  BY <1>1 DEF Informs
<1> HIDE DEF r, q
<1>6. /\ h \in HostType /\ h.st = "up" /\ h.at = facts /\ h.queue = r
      /\ h.known = hosts[k].known
  BY <1>1, <1>4 DEF HostType
<1> HIDE DEF h
<1>7. \A i \in DOMAIN r : r[i][1] = "attach" => i = Len(r)
  BY <1>4, <1>5
<1>8. \A i, j \in DOMAIN r : r[i][1] = "attach" /\ i <= j => r[j][2] >= facts
  <2> SUFFICES ASSUME NEW i \in DOMAIN r, NEW j \in DOMAIN r, r[i][1] = "attach", i <= j
               PROVE  r[j][2] >= facts
    OBVIOUS
  <2>1. j = Len(r)
    BY <1>4, <1>7
  <2>2. QED
    BY <2>1, <1>1, <1>2, <1>4
<1>9. Informs(h, facts)
  <2>1. hosts[k].known = NoFacts
    BY <1>1 DEF Informs
  <2>2. QED
    BY <2>1, <1>1, <1>2, <1>4, <1>6, <1>8 DEF Informs
<1>10. Latest(h, facts)
  BY <1>2, <1>4, <1>6 DEF Latest
<1>11. QED
  BY <1>3, <1>6, <1>9, <1>10, OneHostChanges DEF HostConnects

\* A host that is down has nothing under way.
LEMMA HostDialsKeep ==
    ASSUME BridgeInv, NEW k \in Runs, HostDrops(k) \/ HostRetries(k) PROVE BridgeInv'
<1> USE DEF BridgeInv
<1>1. hosts[k] \in HostType /\ hosts \in [Runs -> HostType] /\ Informs(hosts[k], facts)
  BY DEF HostInforms
<1>2. CASE HostDrops(k)
  <2> DEFINE h == [NoHost EXCEPT !.st = "down"]
  <2>1. hosts' = [hosts EXCEPT ![k] = h]
    BY <1>2 DEF HostDrops
  <2>0. /\ h = [st |-> "down", to |-> NoOne, queue |-> <<>>, known |-> NoFacts, at |-> NoFacts]
        /\ <<>> \in Seq(Message) /\ DOMAIN <<>> = {}
    BY EmptySeq DEF NoHost
  <2> HIDE DEF h
  <2>2. h \in HostType /\ h.st = "down" /\ h.known = NoFacts /\ h.queue = <<>>
    BY <2>0 DEF HostType
  <2>3. Informs(h, facts) /\ Latest(h, facts)
    BY <2>0, <2>2 DEF Informs, Latest
  <2>4. QED
    BY <1>2, <2>1, <2>2, <2>3, OneHostChanges DEF HostDrops
<1>3. CASE HostRetries(k)
  <2> DEFINE h == [hosts[k] EXCEPT !.st = "dialing"]
  <2>1. hosts' = [hosts EXCEPT ![k] = h] /\ hosts[k].st = "down"
    BY <1>3 DEF HostRetries
  <2>2. /\ h \in HostType /\ h.st = "dialing" /\ h.known = hosts[k].known
        /\ h.queue = hosts[k].queue
    BY <1>1 DEF HostType
  <2> HIDE DEF h
  <2>3. Informs(h, facts) /\ Latest(h, facts)
    BY <1>1, <2>1, <2>2 DEF Informs, Latest
  <2>4. QED
    BY <1>3, <2>1, <2>2, <2>3, OneHostChanges DEF HostRetries
<1>4. QED
  BY <1>2, <1>3

\* cored takes the first message, or leaves it while nobody is registered.
LEMMA HostHeardKeeps ==
    ASSUME BridgeInv, NEW k \in Runs, HostHeard(k) PROVE BridgeInv'
<1> USE DEF BridgeInv
<1> DEFINE g == hosts[k]
           q == g.queue
           msg == Head(q)
           taken == msg[1] = "attach" \/ g.known # NoFacts
           known == IF taken THEN msg[2] ELSE g.known
           h == [g EXCEPT !.queue = Tail(q), !.known = known]
<1>1. /\ g \in HostType /\ g.st = "up" /\ q # <<>> /\ Informs(g, facts)
      /\ facts \in 0..MaxFacts /\ MaxFacts \in Nat /\ q \in Seq(Message)
      /\ g.known \in 0..MaxFacts \cup {NoFacts} /\ g.at \in 0..facts
      /\ hosts \in [Runs -> HostType]
      /\ k = controlHost => Latest(g, facts)
  BY BridgeAssumption DEF HostHeard, HostInforms, HostType, Informs
<1>2. hosts' = [hosts EXCEPT ![k] = h]
  BY DEF HostHeard
<1>3. /\ msg \in Message /\ msg = q[1] /\ Tail(q) \in Seq(Message)
      /\ Len(q) \in Nat \ {0} /\ Len(Tail(q)) = Len(q) - 1
      /\ DOMAIN q = 1..Len(q) /\ DOMAIN Tail(q) = 1..(Len(q) - 1)
      /\ \A i \in 1..(Len(q) - 1) : Tail(q)[i] = q[i + 1]
  BY <1>1
<1>4. msg[2] \in 0..MaxFacts
  BY <1>3 DEF Message
<1>5. known \in 0..MaxFacts \cup {NoFacts}
  BY <1>1, <1>4
<1>6. /\ g.known = NoFacts => \E i \in 1..Len(q) : q[i][1] = "attach"
      /\ g.known # NoFacts => g.known >= g.at /\ \A j \in 1..Len(q) : q[j][2] >= g.at
      /\ \A i, j \in 1..Len(q) : q[i][1] = "attach" /\ i <= j => q[j][2] >= g.at
  BY <1>1, <1>3 DEF Informs
<1> DEFINE r == Tail(q)
<1>7. /\ h \in HostType /\ h.st = "up" /\ h.queue = r /\ h.known = known /\ h.at = g.at
  BY <1>1, <1>3, <1>5 DEF HostType
<1> HIDE DEF msg, h, q, g
<1>8. known = NoFacts => \E i \in DOMAIN r : r[i][1] = "attach"
  <2> SUFFICES ASSUME known = NoFacts PROVE \E i \in DOMAIN r : r[i][1] = "attach"
    OBVIOUS
  <2>1. msg[2] # NoFacts
    BY <1>4 DEF NoFacts
  <2>2. ~taken /\ g.known = NoFacts
    BY <2>1
  <2>3. PICK i \in 1..Len(q) : q[i][1] = "attach"
    BY <2>2, <1>6
  <2>4. i # 1
    BY <2>2, <2>3, <1>3
  <2>5. i - 1 \in DOMAIN r /\ r[i - 1] = q[i]
    BY <2>4, <1>3
  <2>6. QED
    BY <2>3, <2>5
<1>9. \A i \in DOMAIN r : i \in 1..Len(q) /\ i + 1 \in 1..Len(q) /\ r[i] = q[i + 1] /\ i \in Nat
  BY <1>3
<1>10. known # NoFacts => known >= g.at /\ \A j \in DOMAIN r : r[j][2] >= g.at
  <2>1. CASE g.known # NoFacts
    <3>1. known = msg[2] /\ msg = q[1] /\ 1 \in 1..Len(q)
      BY <2>1, <1>3
    <3>2. QED
      BY <2>1, <3>1, <1>6, <1>9
  <2>2. CASE g.known = NoFacts /\ msg[1] = "attach"
    <3>1. known = msg[2] /\ msg = q[1] /\ 1 \in 1..Len(q) /\ \A j \in 1..Len(q) : 1 <= j
      BY <2>2, <1>3
    <3>2. \A j \in 1..Len(q) : q[j][2] >= g.at
      BY <2>2, <3>1, <1>6
    <3>3. QED
      BY <3>1, <3>2, <1>9
  <2>3. CASE ~taken
    BY <2>3
  <2>4. QED
    BY <2>1, <2>2, <2>3
<1>11. \A i, j \in DOMAIN r : r[i][1] = "attach" /\ i <= j => r[j][2] >= g.at
  <2> SUFFICES ASSUME NEW i \in DOMAIN r, NEW j \in DOMAIN r, r[i][1] = "attach", i <= j
               PROVE  r[j][2] >= g.at
    OBVIOUS
  <2>1. /\ i + 1 \in 1..Len(q) /\ j + 1 \in 1..Len(q) /\ i + 1 <= j + 1
        /\ q[i + 1][1] = "attach" /\ r[j] = q[j + 1]
    BY <1>9
  <2>2. QED
    BY <2>1, <1>6
<1>12. ASSUME k = controlHost PROVE Latest(h, facts)
  <2>1. q[Len(q)][2] = facts
    <3>1. Latest(g, facts) /\ g.st = "up" /\ q # <<>>
      BY <1>1, <1>12
    <3>2. QED
      BY <3>1 DEF Latest, q
  <2>2. ASSUME r = <<>> PROVE known = facts
    <3>1. \A t \in Seq(Message) : t = <<>> => Len(t) = 0
      OBVIOUS
    <3>2. Len(r) = 0
      BY <3>1, <1>3, <2>2
    <3>3. Len(q) = 1
      BY <3>2, <1>3
    <3>4. msg[2] = facts /\ msg = q[1]
      BY <3>3, <1>3, <2>1
    <3>5. CASE g.known # NoFacts
      BY <3>4, <3>5
    <3>6. CASE g.known = NoFacts
      <4>1. q[1][1] = "attach"
        BY <3>3, <3>6, <1>6
      <4>2. QED
        BY <4>1, <3>4
    <3>7. QED
      BY <3>5, <3>6
  <2>3. ASSUME r # <<>> PROVE r[Len(r)][2] = facts
    <3>1. Len(q) > 1
      BY <1>3, <2>3
    <3>2. QED
      BY <3>1, <1>3, <2>1
  <2> HIDE DEF r
  <2>4. QED
    BY <2>2, <2>3, <1>7 DEF Latest
<1> HIDE DEF r, known
<1>13. Informs(h, facts)
  BY <1>1, <1>7, <1>8, <1>10, <1>11 DEF Informs
<1>14. QED
  BY <1>2, <1>7, <1>12, <1>13, OneHostChanges DEF HostHeard

\* The windows change: the host made last is told, for the others nothing changes.
LEMMA AnnounceKeeps == ASSUME BridgeInv, announceWindows PROVE BridgeInv'
<1> USE DEF BridgeInv
<1> DEFINE e == <<"windows", facts'>>
           told(k) == k = controlHost /\ hosts[k].st \in {"dialing", "up"}
<1>1. /\ UNCHANGED <<proc, serving, ensures, backendReady, link, awaiting, seq, line, call,
                     controlHost>>
      /\ facts' = facts + 1 /\ facts < MaxFacts
  BY DEF announceWindows, processVars, callVars
<1>2. /\ facts \in 0..MaxFacts /\ MaxFacts \in Nat /\ hosts \in [Runs -> HostType]
      /\ \A k \in Runs : Informs(hosts[k], facts)
      /\ controlHost \in Runs \cup {NoOne}
  BY BridgeAssumption DEF HostInforms
<1>3. facts' \in 0..MaxFacts /\ facts \in Nat
  BY <1>1, <1>2
<1>4. e \in Message /\ e[1] = "windows" /\ e[2] = facts'
  BY <1>3 DEF Message
<1> HIDE DEF e
<1>5. hosts' = [k \in Runs |-> IF told(k) THEN [hosts[k] EXCEPT !.queue = Append(@, e)]
                               ELSE hosts[k]]
  BY DEF announceWindows, e
<1>6. ASSUME NEW k \in Runs, told(k)
      PROVE  /\ hosts'[k] \in HostType /\ Informs(hosts'[k], facts') /\ Latest(hosts'[k], facts')
  <2> DEFINE q == hosts[k].queue
             r == Append(q, e)
  <2>1. /\ hosts[k] \in HostType /\ q \in Seq(Message) /\ Informs(hosts[k], facts)
        /\ hosts'[k] = [hosts[k] EXCEPT !.queue = r]
    BY <1>2, <1>5, <1>6 DEF HostType
  <2>2. /\ r \in Seq(Message) /\ r # <<>> /\ r[Len(r)] = e /\ Len(r) \in DOMAIN r
        /\ \A i \in DOMAIN q : i \in DOMAIN r /\ r[i] = q[i]
        /\ \A i \in DOMAIN r : i = Len(r) \/ (i \in DOMAIN q /\ r[i] = q[i])
        /\ \A i \in DOMAIN r : i \in Nat /\ i <= Len(r)
    BY <2>1, <1>4, LastOfAppend
  <2> HIDE DEF r
  <2>3. /\ hosts'[k] \in HostType /\ hosts'[k].queue = r /\ hosts'[k].st = hosts[k].st
        /\ hosts'[k].known = hosts[k].known /\ hosts'[k].at = hosts[k].at
    BY <2>1, <2>2 DEF HostType
  <2> HIDE DEF q
  <2>4. Latest(hosts'[k], facts')
    BY <2>2, <2>3, <1>4 DEF Latest
  <2>5. CASE hosts[k].st = "dialing"
    <3>1. \A i \in DOMAIN r : r[i][1] = "windows"
      BY <2>1, <2>2, <2>5, <1>4 DEF Informs, q
    <3>2. hosts[k].known = NoFacts
      BY <2>1, <2>5 DEF Informs
    <3>3. QED
      BY <2>3, <2>4, <2>5, <3>1, <3>2 DEF Informs
  <2>6. CASE hosts[k].st = "up"
    <3> DEFINE at == hosts[k].at
    <3>1. /\ at \in 0..facts
          /\ hosts[k].known = NoFacts => \E i \in DOMAIN q : q[i][1] = "attach"
          /\ hosts[k].known # NoFacts
               => hosts[k].known >= at /\ \A j \in DOMAIN q : q[j][2] >= at
          /\ \A i, j \in DOMAIN q : q[i][1] = "attach" /\ i <= j => q[j][2] >= at
      BY <2>1, <2>6 DEF Informs, q
    <3> HIDE DEF at
    <3>2. at \in 0..facts' /\ e[2] >= at
      BY <3>1, <1>1, <1>3, <1>4
    <3>3. hosts[k].known = NoFacts => \E i \in DOMAIN r : r[i][1] = "attach"
      BY <3>1, <2>2
    <3>4. hosts[k].known # NoFacts
               => hosts[k].known >= at /\ \A j \in DOMAIN r : r[j][2] >= at
      BY <3>1, <3>2, <2>2
    <3>5. \A i, j \in DOMAIN r : r[i][1] = "attach" /\ i <= j => r[j][2] >= at
      <4> SUFFICES ASSUME NEW i \in DOMAIN r, NEW j \in DOMAIN r, r[i][1] = "attach", i <= j
                   PROVE  r[j][2] >= at
        OBVIOUS
      <4>1. CASE j = Len(r)
        BY <4>1, <3>2, <2>2
      <4>2. CASE j # Len(r)
        <5>1. j \in DOMAIN q /\ r[j] = q[j] /\ i # Len(r)
          BY <4>2, <2>2
        <5>2. i \in DOMAIN q /\ r[i] = q[i]
          BY <5>1, <2>2
        <5>3. QED
          BY <5>1, <5>2, <3>1
      <4>3. QED
        BY <4>1, <4>2
    <3>6. Informs(hosts'[k], facts')
      BY <2>3, <2>6, <3>2, <3>3, <3>4, <3>5 DEF Informs, at
    <3>7. QED
      BY <2>3, <2>4, <3>6
  <2>7. QED
    BY <1>6, <2>5, <2>6
<1>7. ASSUME NEW k \in Runs, ~told(k)
      PROVE  /\ hosts'[k] \in HostType /\ Informs(hosts'[k], facts')
             /\ k = controlHost => Latest(hosts'[k], facts')
  <2>1. hosts'[k] = hosts[k] /\ hosts[k] \in HostType /\ Informs(hosts[k], facts)
    BY <1>2, <1>5, <1>7
  <2>2. \A at \in 0..facts : at \in 0..facts'
    BY <1>1, <1>2
  <2>3. Informs(hosts[k], facts')
    BY <2>1, <2>2 DEF Informs
  <2>4. k = controlHost => Latest(hosts[k], facts')
    BY <1>7 DEF Latest
  <2>5. QED
    BY <2>1, <2>3, <2>4
<1> HIDE DEF told
<1>8. HostInforms'
  <2>1. hosts' \in [Runs -> HostType]
    BY <1>5, <1>6, <1>7
  <2>2. QED
    BY <2>1, <1>1, <1>2, <1>3, <1>6, <1>7 DEF HostInforms
<1>9. QED
  BY <1>1, <1>8, CallsUntouched DEF ChildrenAreKnown

\* Steps of the connection: the runs and the host are left alone, but for a run that a
\* failed dial sets off.
LEMMA LinkKeepsChildren ==
    ASSUME BridgeInv, UNCHANGED <<processVars, backendReady, hostVars>>,
           UNCHANGED ensures \/ DialFails
    PROVE  ChildrenAreKnown' /\ HostInforms'
<1> USE DEF BridgeInv
<1>1. UNCHANGED <<proc, serving, hosts, controlHost, facts>>
  BY DEF processVars, hostVars
<1>2. HostInforms'
  BY <1>1 DEF HostInforms
<1>3. CASE UNCHANGED ensures
  BY <1>1, <1>2, <1>3 DEF ChildrenAreKnown
<1>4. CASE \E k \in Unused :
              ensures' = [ensures EXCEPT ![k].st = "probing", ![k].waiters = link.waiters]
  <2>1. PICK k \in Unused :
              ensures' = [ensures EXCEPT ![k].st = "probing", ![k].waiters = link.waiters]
    BY <1>4
  <2>2. k \in Runs /\ ensures[k].st = "none" /\ ensures[k].child = NoOne
    BY DEF Unused, ChildrenAreKnown
  <2>3. link.waiters \in SUBSET Calls /\ ensures \in [Runs -> EnsureType]
    BY DEF WireIsTrue, LinkType, ChildrenAreKnown
  <2>4. /\ ensures' \in [Runs -> EnsureType] /\ ensures'[k].st = "probing"
        /\ ensures'[k].child = NoOne /\ \A j \in Runs : j # k => ensures'[j] = ensures[j]
    BY <2>1, <2>2, <2>3 DEF EnsureType
  <2>5. \A j \in Runs :
         /\ ensures'[j].st \in {"none", "probing"} => ensures'[j].child = NoOne
         /\ ensures'[j].st \in {"waiting", "reaping", "reprobing"} => ensures'[j].child # NoOne
         /\ ensures'[j].st \in {"reprobing", "failed"} /\ ensures'[j].child # NoOne
              => proc[ensures'[j].child].st = "gone"
    BY <2>4 DEF ChildrenAreKnown
  <2>6. QED
    BY <1>1, <1>2, <2>4, <2>5 DEF ChildrenAreKnown
<1>5. QED
  BY <1>3, <1>4 DEF DialFails

LEMMA BridgeStarts == BridgeInit => BridgeInv
<1> SUFFICES ASSUME BridgeInit PROVE BridgeInv
  OBVIOUS
<1> USE BridgeAssumption DEF BridgeInit
<1>1. WireIsTrue
  BY DEF WireIsTrue, LinkType, CallType, Silent, NoOne
<1>2. WaitersJoin
  BY DEF WaitersJoin
<1>3. ChildrenAreKnown
  BY DEF ChildrenAreKnown, ProcType, EnsureType, Runs, boot
<1>4. HostInforms
  <2>1. <<>> \in Seq(Message) /\ NoHost \in HostType /\ NoHost.st = "none"
    BY DEF HostType, NoHost
  <2>2. Informs(NoHost, 0) /\ Latest(NoHost, 0)
    BY <2>1 DEF Informs, Latest
  <2>3. QED
    BY <2>1, <2>2 DEF HostInforms
<1>5. QED
  BY <1>1, <1>2, <1>3, <1>4 DEF BridgeInv

LEMMA BridgeSteps == BridgeInv /\ [BridgeNext]_bridgeVars => BridgeInv'
<1> SUFFICES ASSUME BridgeInv, [BridgeNext]_bridgeVars PROVE BridgeInv'
  OBVIOUS
<1>1. ASSUME NEW c \in Calls, callBackend(c) PROVE BridgeInv'
  <2>1. UNCHANGED <<processVars, ensures, backendReady, hostVars>>
    BY <1>1 DEF callBackend
  <2>2. QED
    BY <1>1, <2>1, CallBackendKeeps, LinkKeepsChildren DEF BridgeInv
<1>2. CASE DialOk
  <2>1. UNCHANGED <<processVars, ensures, backendReady, hostVars>>
    BY <1>2 DEF DialOk
  <2>2. QED
    BY <1>2, <2>1, DialOkKeeps, LinkKeepsChildren DEF BridgeInv
<1>3. CASE DialFails
  <2>1. UNCHANGED <<processVars, backendReady, hostVars>>
    BY <1>3 DEF DialFails
  <2>2. QED
    BY <1>3, <2>1, DialFailsKeeps, LinkKeepsChildren DEF BridgeInv
<1>4. CASE onClose
  <2>1. UNCHANGED <<processVars, ensures, backendReady, hostVars>>
    BY <1>4 DEF onClose
  <2>2. QED
    BY <1>4, <2>1, OnCloseKeeps, LinkKeepsChildren DEF BridgeInv
<1>5. CASE onData
  <2>1. UNCHANGED <<processVars, ensures, backendReady, hostVars>>
    BY <1>5 DEF onData
  <2>2. QED
    BY <1>5, <2>1, OnDataKeeps, LinkKeepsChildren DEF BridgeInv
<1>6. ASSUME NEW r \in line.asked, Answer(r) PROVE BridgeInv'
  <2>1. UNCHANGED <<processVars, ensures, backendReady, hostVars>>
    BY <1>6 DEF Answer
  <2>2. QED
    BY <1>6, <2>1, AnswerKeeps, LinkKeepsChildren DEF BridgeInv
<1>7. ASSUME NEW r \in awaiting, TimesOut(r) PROVE BridgeInv'
  <2>1. UNCHANGED <<processVars, ensures, backendReady, hostVars>>
    BY <1>7 DEF TimesOut
  <2>2. QED
    BY <1>7, <2>1, TimesOutKeeps, LinkKeepsChildren DEF BridgeInv
<1>8. ASSUME NEW k \in Runs, EnsureStep(k) PROVE BridgeInv'
  BY <1>8, EnsureStepKeepsCalls, EnsureStepKeepsChildren DEF BridgeInv
<1>9. ASSUME NEW p \in Procs, Looks(p) \/ Bind(p) \/ Dies(p) \/ Killed(p) \/ OtherStarts(p)
      PROVE  BridgeInv'
  BY <1>9, ProcessesKeep
<1>10. ASSUME \/ announceWindows
              \/ \E k \in Runs : HostConnects(k) \/ HostDrops(k) \/ HostRetries(k) \/ HostHeard(k)
       PROVE  BridgeInv'
  BY <1>10, HostConnectsKeeps, HostDialsKeep, HostHeardKeeps, AnnounceKeeps
<1>11. CASE UNCHANGED bridgeVars
  <2>1. UNCHANGED <<proc, serving, ensures, backendReady, link, awaiting, seq, line, call,
                    hosts, controlHost, facts>>
    BY <1>11 DEF bridgeVars
  <2>2. QED
    BY <2>1 DEF BridgeInv, WireIsTrue, WaitersJoin, ChildrenAreKnown, HostInforms
<1>12. QED
  BY <1>1, <1>2, <1>3, <1>4, <1>5, <1>6, <1>7, <1>8, <1>9, <1>10, <1>11 DEF BridgeNext

\* Calls get their own answers, no run leaves a process behind, and of the control host
\* made last cored knows the windows as they are, of the ones made before as they were at
\* their last connection or later, whatever dies, is lost, late or refused (backend.cjs,
\* cored.cjs, control.cjs).
THEOREM TheBridgeIsSound == BridgeSpec => []BridgeIsSound
<1>1. BridgeInv => BridgeIsSound
  BY BridgeInvImplies
<1>2. QED
  BY <1>1, BridgeStarts, BridgeSteps, PTL DEF BridgeSpec
=============================================================================
