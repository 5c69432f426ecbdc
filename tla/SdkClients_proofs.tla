--------------------------- MODULE SdkClients_proofs ---------------------------
(***************************************************************************)
(* Proofs about the SDK as a client of the network: that an account pays   *)
(* for each commitment once, for any number of submissions, any nonces and *)
(* any loss of answers and transactions, and that an approval is mined     *)
(* before the deposit it is for; that the relayers a submission asks are   *)
(* known to it as current and were not removed before it began, and that   *)
(* each takes it once at most, for any number of relayers, operations and  *)
(* calls that overlap; that its Merkle tree, of any depth, has the         *)
(* contract's roots, each of which stands for one number of leaves, and    *)
(* that the proofs of a power of two of leaves lead to the root; and that  *)
(* its advice on timing and privacy keeps its word.                        *)
(***************************************************************************)
EXTENDS AccountTransactions, Relayers, SdkMerkleTree, PrivacyAdvice, Iteration_proofs,
        FiniteSetTheorems, SequenceTheorems, TLAPS

-----------------------------------------------------------------------------
(***************************************************************************)
(* Transactions of an account.                                             *)
(***************************************************************************)
AtMostOne(set) == \A a, b \in set : a = b

\* A call that has begun carries at most one commitment.
CallsCarry ==
    /\ submitted = [i \in Submissions |-> submitted[i]]
    /\ \A i \in Submissions :
           \/ submitted[i] = NotSubmitted
           \/ /\ submitted[i] = [name \in {"phase", "commitment", "given", "nonce"} |->
                                    submitted[i][name]]
              /\ AtMostOne(submitted[i].commitment)

\* So does a transaction that waits.
MempoolCarries == \A n \in DOMAIN mempool : AtMostOne(mempool[n].commitment)

Paid ==
    /\ IsFiniteSet(deposited)
    /\ funds \in Nat
    /\ PaidOnce

AccountInv == CallsCarry /\ MempoolCarries /\ Paid

LEMMA AccountInvInit == AccountInit => AccountInv
<1> SUFFICES ASSUME AccountInit PROVE AccountInv
    OBVIOUS
<1>1. CallsCarry /\ MempoolCarries
    BY DEF AccountInit, CallsCarry, MempoolCarries
<1>2. Paid
    BY AccountAssumption, FS_EmptySet DEF AccountInit, Paid, PaidOnce
<1> QED BY <1>1, <1>2 DEF AccountInv

\* A call begins.
LEMMA CallBegins ==
    ASSUME AccountInv, NEW i \in Submissions, NEW kind, NEW commitments, NEW given,
           AtMostOne(commitments),
           submitted' = [submitted EXCEPT ![i] = Begun(kind, commitments, given)],
           UNCHANGED <<mempool, funds, deposited>>
    PROVE  AccountInv'
<1> DEFINE call == Begun(kind, commitments, given)
<1>1. /\ call = [name \in {"phase", "commitment", "given", "nonce"} |-> call[name]]
      /\ call.commitment = commitments
    BY DEF Begun
<1> HIDE DEF call
<1>2. CallsCarry'
    BY <1>1 DEF AccountInv, CallsCarry, call
<1>3. (MempoolCarries /\ Paid)'
    BY DEF AccountInv, MempoolCarries, Paid, PaidOnce
<1> QED BY <1>2, <1>3 DEF AccountInv

\* A call sends its transaction.
LEMMA CallSends ==
    ASSUME AccountInv, NEW i \in Submissions,
           NEW kind \in {"approve", "deposit", "withdraw"}, NEW next,
           next = [name \in {"phase", "commitment", "given", "nonce"} |-> next[name]],
           next.commitment = submitted[i].commitment,
           Broadcast(i, kind, next)
    PROVE  AccountInv'
<1> DEFINE call == submitted[i]
           threw == [call EXCEPT !.phase = "threw"]
<1>1. call # NotSubmitted
    BY DEF Broadcast, NotSubmitted
<1>2. /\ call = [name \in {"phase", "commitment", "given", "nonce"} |-> call[name]]
      /\ AtMostOne(call.commitment)
    BY <1>1 DEF AccountInv, CallsCarry
<1>3. /\ threw = [name \in {"phase", "commitment", "given", "nonce"} |-> threw[name]]
      /\ threw.commitment = call.commitment
    <2> HIDE DEF call
    <2> QED BY <1>2
<1>4. /\ submitted' = [submitted EXCEPT ![i] = next]
         \/ submitted' = [submitted EXCEPT ![i] = threw]
      /\ (\E nonce : Taken(i, nonce)) \/ UNCHANGED mempool
      /\ UNCHANGED <<funds, deposited>>
    BY DEF Broadcast
<1> HIDE DEF threw
<1>5. CallsCarry'
    BY <1>2, <1>3, <1>4 DEF AccountInv, CallsCarry
<1>6. MempoolCarries'
    <2>1. CASE \E nonce : Taken(i, nonce)
        <3>1. PICK nonce : Taken(i, nonce)
            BY <2>1
        <3>2. /\ DOMAIN mempool' = DOMAIN mempool \cup {nonce}
              /\ mempool'[nonce].commitment = call.commitment
              /\ \A n \in DOMAIN mempool : n # nonce => mempool'[n] = mempool[n]
            BY <3>1 DEF Taken
        <3> QED BY <1>2, <3>2 DEF AccountInv, MempoolCarries
    <2>2. CASE UNCHANGED mempool
        BY <2>2 DEF AccountInv, MempoolCarries
    <2> QED BY <1>4, <2>1, <2>2
<1>7. Paid'
    BY <1>4 DEF AccountInv, Paid, PaidOnce
<1> QED BY <1>5, <1>6, <1>7 DEF AccountInv

\* The chain takes a denomination for the one commitment it adds.
LEMMA MinedPays ==
    ASSUME AccountInv, Mined
    PROVE  AccountInv'
<1> DEFINE tx == mempool[accountNonce]
           paying == {c \in tx.commitment : tx.kind = "deposit" /\ Deposits(c)}
<1>1. /\ accountNonce \in DOMAIN mempool
      /\ funds' = funds - Cardinality(paying) /\ deposited' = deposited \cup paying
      /\ mempool' = [n \in DOMAIN mempool \ {accountNonce} |-> mempool[n]]
      /\ UNCHANGED submitted
    BY DEF Mined
<1>2. AtMostOne(tx.commitment)
    BY <1>1 DEF AccountInv, MempoolCarries
<1>3. Paid'
    <2>1. CASE paying = {}
        <3>1. Cardinality(paying) = 0
            BY <2>1, FS_EmptySet
        <3>2. funds' = funds /\ deposited' = deposited
            BY <1>1, <2>1, <3>1 DEF AccountInv, Paid
        <3> QED BY <3>2 DEF AccountInv, Paid, PaidOnce
    <2>2. CASE paying # {}
        <3>1. PICK c \in paying : paying = {c}
            BY <1>2, <2>2 DEF AtMostOne
        <3>2. funds > 0 /\ c \notin deposited
            BY <3>1 DEF Deposits
        <3>3. Cardinality(paying) = 1
            BY <3>1, FS_Singleton
        <3> HIDE DEF paying
        <3>4. /\ IsFiniteSet(deposited')
              /\ Cardinality(deposited') = Cardinality(deposited) + 1
              /\ Cardinality(deposited) \in Nat
            BY <1>1, <3>1, <3>2, FS_AddElement, FS_CardinalityType DEF AccountInv, Paid
        <3> QED BY <1>1, <3>2, <3>3, <3>4 DEF AccountInv, Paid, PaidOnce
    <2> QED BY <2>1, <2>2
<1>4. (CallsCarry /\ MempoolCarries)'
    BY <1>1 DEF AccountInv, CallsCarry, MempoolCarries
<1> QED BY <1>3, <1>4 DEF AccountInv

LEMMA AccountInvNext == AccountInv /\ [AccountNext]_accountVars => AccountInv'
<1> SUFFICES ASSUME AccountInv, [AccountNext]_accountVars PROVE AccountInv'
    OBVIOUS
<1>1. ASSUME NEW i \in Submissions, SubmitDeposit(i) PROVE AccountInv'
    <2>1. PICK commitment \in NoteCommitments, given \in {NoneGiven, {FreeNonce}} :
              submitted' = [submitted EXCEPT ![i] = Begun("approve", {commitment}, given)]
        BY <1>1 DEF SubmitDeposit
    <2>2. AtMostOne({commitment})
        BY DEF AtMostOne
    <2> QED BY <1>1, <2>1, <2>2, CallBegins DEF SubmitDeposit
<1>2. ASSUME NEW i \in Submissions, SubmitWithdrawal(i) PROVE AccountInv'
    <2>1. PICK given \in {NoneGiven, {FreeNonce}} :
              submitted' = [submitted EXCEPT ![i] = Begun("withdraw", {}, given)]
        BY <1>2 DEF SubmitWithdrawal
    <2>2. AtMostOne({})
        BY DEF AtMostOne
    <2> QED BY <1>2, <2>1, <2>2, CallBegins DEF SubmitWithdrawal
<1>3. ASSUME NEW i \in Submissions,
             BroadcastApproval(i) \/ BroadcastDeposit(i) \/ BroadcastWithdrawal(i)
      PROVE  AccountInv'
    <2> DEFINE call == submitted[i]
    <2>1. call.phase \in {"approve", "deposit", "withdraw"}
        BY <1>3 DEF BroadcastApproval, BroadcastDeposit, BroadcastWithdrawal, Broadcast
    <2>2. call = [name \in {"phase", "commitment", "given", "nonce"} |-> call[name]]
        BY <2>1 DEF AccountInv, CallsCarry, NotSubmitted
    <2> DEFINE approved == [call EXCEPT !.phase = "deposit", !.nonce = NonceAfter(call.nonce)]
               returned == [call EXCEPT !.phase = "returned"]
    <2>3. /\ approved = [name \in {"phase", "commitment", "given", "nonce"} |-> approved[name]]
          /\ approved.commitment = call.commitment
          /\ returned = [name \in {"phase", "commitment", "given", "nonce"} |-> returned[name]]
          /\ returned.commitment = call.commitment
        <3> HIDE DEF call
        <3> QED BY <2>2
    <2>4. \/ Broadcast(i, "approve", approved)
          \/ Broadcast(i, "deposit", returned)
          \/ Broadcast(i, "withdraw", returned)
        BY <1>3 DEF BroadcastApproval, BroadcastDeposit, BroadcastWithdrawal
    <2> HIDE DEF approved, returned
    <2> QED BY <2>3, <2>4, CallSends
<1>4. ASSUME Dropped PROVE AccountInv'
    <2>1. /\ \E nonce \in DOMAIN mempool :
                 mempool' = [n \in DOMAIN mempool \ {nonce} |-> mempool[n]]
          /\ UNCHANGED <<submitted, funds, deposited>>
        BY <1>4 DEF Dropped
    <2> QED BY <2>1 DEF AccountInv, CallsCarry, MempoolCarries, Paid, PaidOnce
<1>5. ASSUME UNCHANGED accountVars PROVE AccountInv'
    BY <1>5 DEF accountVars, AccountInv, CallsCarry, MempoolCarries, Paid, PaidOnce
<1> QED BY <1>1, <1>2, <1>3, <1>4, <1>5, MinedPays DEF AccountNext

\* The account pays one denomination for every commitment in the pool, however often the
\* deposit was submitted and whatever became of its transactions.
THEOREM DepositsPaidOnce == AccountSpec => []PaidOnce
<1>1. AccountInv => PaidOnce
    BY DEF AccountInv, Paid
<1> QED BY <1>1, AccountInvInit, AccountInvNext, PTL DEF AccountSpec

-----------------------------------------------------------------------------
(***************************************************************************)
(* Submissions to relayers.  The inductive invariant.                      *)
(***************************************************************************)
Answers == UNION {[urls -> {"asked", "healthy", "unhealthy"}] : urls \in SUBSET Urls}

RegistryCall == [phase : {"probing"}, purpose : {"registry"}, probes : Answers]

SubmissionCall ==
    [phase : {"probing"}, purpose : Operations, probes : Answers, again : BOOLEAN,
     current : SUBSET Urls, absent : SUBSET Urls]

AskingCall ==
    [phase : {"asking"}, purpose : Operations, todo : Seq(Urls) \ {<<>>},
     current : SUBSET Urls, absent : SUBSET Urls]

Calls == {NoCall} \cup RegistryCall \cup SubmissionCall \cup AskingCall

RelayersTyped ==
    /\ registry = [u \in DOMAIN registry |-> registry[u]]
    /\ DOMAIN registry \subseteq Urls
    /\ stale \subseteq DOMAIN registry
    /\ clientCalls \in [Callers -> Calls]

\* While a submission probes: what is healthy was written since it began, or will be
\* written over when its probes are done; and nothing absent when it began has come back
\* without its knowledge.
RefreshKnows(call, cache) ==
    /\ HealthyUrls(cache) \subseteq call.current \cup DOMAIN call.probes
    /\ (DOMAIN cache \cup DOMAIN call.probes) \cap call.absent = {}

\* While it asks.
ListKnown(call) ==
    /\ ToSet(call.todo) \subseteq call.current
    /\ ToSet(call.todo) \cap call.absent = {}

CallsKnow ==
    \A c \in Callers :
        /\ clientCalls[c] \in SubmissionCall => RefreshKnows(clientCalls[c], registry)
        /\ clientCalls[c] \in AskingCall => ListKnown(clientCalls[c])

RelayersInv == RelayersTyped /\ CallsKnow

-----------------------------------------------------------------------------
(***************************************************************************)
(* Lists of relayers.                                                      *)
(***************************************************************************)
\* The kinds of calls are told apart by their phase and purpose.
LEMMA KindsApart ==
    ASSUME NEW call \in Calls
    PROVE  /\ call.phase = "asking" <=> call \in AskingCall
           /\ call.phase = "probing" /\ call.purpose \in Operations <=> call \in SubmissionCall
           /\ call.phase = "probing" /\ call.purpose \notin Operations <=> call \in RegistryCall
<1>1. CASE call = NoCall
    BY <1>1 DEF NoCall, RegistryCall, SubmissionCall, AskingCall
<1>2. CASE call \in RegistryCall
    BY <1>2, RelayersAssumption DEF RegistryCall, SubmissionCall, AskingCall
<1>3. CASE call \in SubmissionCall
    BY <1>3, RelayersAssumption DEF RegistryCall, SubmissionCall, AskingCall
<1>4. CASE call \in AskingCall
    BY <1>4 DEF RegistryCall, SubmissionCall, AskingCall
<1> QED BY <1>1, <1>2, <1>3, <1>4 DEF Calls

\* The first of a ranking are relayers of the ranking, and these are healthy.
LEMMA RankingLists ==
    ASSUME NEW cache, DOMAIN cache \subseteq Urls, NEW ranked \in Rankings(cache)
    PROVE  /\ ToSet(ranked) \subseteq HealthyUrls(cache)
           /\ FirstOf(ranked) \in Seq(Urls)
           /\ ToSet(FirstOf(ranked)) \subseteq ToSet(ranked)
<1> DEFINE healthy == HealthyUrls(cache)
           n == Cardinality(healthy)
<1>1. healthy \subseteq Urls
    BY DEF HealthyUrls
<1>2. n \in Nat
    BY <1>1, RelayersAssumption, FS_Subset, FS_CardinalityType
<1>3. ranked \in [1 .. n -> healthy]
    BY DEF Rankings, SetToSeqs
<1> HIDE DEF n, healthy
<1>4. ranked \in Seq(Urls) /\ Len(ranked) = n /\ DOMAIN ranked = 1 .. n
    BY <1>1, <1>2, <1>3
<1>5. ToSet(ranked) \subseteq healthy
    BY <1>3 DEF ToSet
<1> DEFINE m == IF Len(ranked) < MaxRetries THEN Len(ranked) ELSE MaxRetries
<1>6. m \in 0 .. n
    BY <1>2, <1>4, RelayersAssumption
<1> HIDE DEF m
<1>7. /\ SubSeq(ranked, 1, m) \in Seq(Urls)
      /\ Len(SubSeq(ranked, 1, m)) = m
      /\ \A i \in 1 .. m : SubSeq(ranked, 1, m)[i] = ranked[i]
    BY <1>2, <1>4, <1>6
<1>8. FirstOf(ranked) = SubSeq(ranked, 1, m)
    BY DEF FirstOf, m
<1>9. ToSet(FirstOf(ranked)) \subseteq ToSet(ranked)
    BY <1>2, <1>4, <1>6, <1>7, <1>8 DEF ToSet
<1> QED BY <1>5, <1>7, <1>8, <1>9 DEF healthy

\* The call goes on with the list it made, or is over.
LEMMA WalkKnows ==
    ASSUME NEW cache, DOMAIN cache \subseteq Urls, NEW ranked \in Rankings(cache),
           NEW call \in SubmissionCall,
           HealthyUrls(cache) \subseteq call.current,
           DOMAIN cache \cap call.absent = {}
    PROVE  /\ Walk(call, ranked) = NoCall \/ Walk(call, ranked) \in AskingCall
           /\ Walk(call, ranked) \in AskingCall => ListKnown(Walk(call, ranked))
<1>1. /\ ToSet(ranked) \subseteq HealthyUrls(cache)
      /\ FirstOf(ranked) \in Seq(Urls)
      /\ ToSet(FirstOf(ranked)) \subseteq ToSet(ranked)
    BY RankingLists
<1>2. HealthyUrls(cache) \subseteq DOMAIN cache
    BY DEF HealthyUrls
<1>3. CASE FirstOf(ranked) = <<>>
    <2>1. Walk(call, ranked) = NoCall
        BY <1>3 DEF Walk
    <2> QED BY <2>1 DEF NoCall, AskingCall
<1>4. CASE FirstOf(ranked) # <<>>
    <2> DEFINE next == [phase |-> "asking", purpose |-> call.purpose, todo |-> FirstOf(ranked),
                        current |-> call.current \cap ToSet(ranked),
                        absent |-> call.absent \cap ToSet(ranked)]
    <2>1. Walk(call, ranked) = next
        BY <1>4 DEF Walk
    <2>2. next \in AskingCall
        BY <1>1, <1>4 DEF SubmissionCall, AskingCall
    <2>3. ListKnown(next)
        BY <1>1, <1>2 DEF ListKnown
    <2> QED BY <2>1, <2>2, <2>3
<1> QED BY <1>3, <1>4

\* The rest of a list is on the list.
LEMMA AskNextKnows ==
    ASSUME NEW call \in AskingCall, ListKnown(call)
    PROVE  /\ AskNext(call) = NoCall \/ AskNext(call) \in AskingCall
           /\ AskNext(call) \in AskingCall => ListKnown(AskNext(call))
<1>1. CASE Len(call.todo) = 1
    BY <1>1 DEF AskNext, NoCall, AskingCall
<1>2. CASE Len(call.todo) # 1
    <2> DEFINE next == [call EXCEPT !.todo = Tail(@)]
    <2>1. AskNext(call) = next
        BY <1>2 DEF AskNext
    <2>2. call.todo \in Seq(Urls) /\ call.todo # <<>>
        BY DEF AskingCall
    <2>3. /\ Tail(call.todo) \in Seq(Urls) \ {<<>>}
          /\ ToSet(Tail(call.todo)) \subseteq ToSet(call.todo)
        <3>1. /\ Tail(call.todo) \in Seq(Urls) /\ Len(call.todo) \in Nat \ {0, 1}
              /\ Len(Tail(call.todo)) = Len(call.todo) - 1
              /\ \A i \in 1 .. Len(Tail(call.todo)) : Tail(call.todo)[i] = call.todo[i + 1]
            BY <1>2, <2>2, HeadTailProperties
        <3>2. ToSet(Tail(call.todo)) \subseteq ToSet(call.todo)
            BY <2>2, <3>1 DEF ToSet
        <3>3. Len(<<>>) = 0
            OBVIOUS
        <3>4. Len(Tail(call.todo)) # 0
            BY <3>1
        <3>5. Tail(call.todo) # <<>>
            BY <3>3, <3>4, Zenon
        <3> QED BY <3>1, <3>2, <3>5
    <2>4. next \in AskingCall /\ next.todo = Tail(call.todo)
          /\ next.current = call.current /\ next.absent = call.absent
        BY <2>3 DEF AskingCall
    <2> QED BY <2>1, <2>3, <2>4 DEF ListKnown
<1> QED BY <1>1, <1>2

\* When another call's results are written, a submission knows of them.
LEMMA SharedKnows ==
    ASSUME RelayersInv, NEW c \in Callers, NEW d \in Callers, d # c,
           NEW probes \in Answers,
           registry' = WithResults(registry, probes)
    PROVE  /\ Shared(c, probes)[d] \in Calls
           /\ Shared(c, probes)[d] \in SubmissionCall =>
                  RefreshKnows(Shared(c, probes)[d], registry')
           /\ Shared(c, probes)[d] \in AskingCall => ListKnown(Shared(c, probes)[d])
<1> DEFINE call == clientCalls[d]
           next == Shared(c, probes)[d]
<1>1. /\ call \in Calls
      /\ call \in SubmissionCall => RefreshKnows(call, registry)
      /\ call \in AskingCall => ListKnown(call)
    BY DEF RelayersInv, RelayersTyped, CallsKnow
<1>2. /\ DOMAIN probes \subseteq Urls
      /\ DOMAIN registry' = DOMAIN registry \cup DOMAIN probes
      /\ HealthyUrls(registry') \subseteq HealthyUrls(registry) \cup DOMAIN probes
    BY DEF Answers, WithResults, HealthyUrls
<1>3. CASE call \in SubmissionCall
    <2>1. next = [call EXCEPT !.current = @ \cup DOMAIN probes,
                              !.absent = @ \ DOMAIN probes]
        BY <1>3, RelayersAssumption DEF Shared, IsSubmission, SubmissionCall
    <2>2. /\ next \in SubmissionCall /\ next.probes = call.probes
          /\ next.current = call.current \cup DOMAIN probes
          /\ next.absent = call.absent \ DOMAIN probes
        <3> HIDE DEF next, call
        <3> QED BY <1>2, <1>3, <2>1 DEF SubmissionCall
    <2>3. RefreshKnows(next, registry')
        <3> HIDE DEF next, call
        <3> QED BY <1>1, <1>2, <1>3, <2>2 DEF RefreshKnows
    <2>4. next \notin AskingCall
        BY <2>2 DEF SubmissionCall, AskingCall
    <2> QED BY <2>2, <2>3, <2>4 DEF Calls
<1>4. CASE call \notin SubmissionCall
    <2>1. next = call
        BY <1>1, <1>4, KindsApart DEF Shared, IsSubmission
    <2> QED BY <1>1, <1>4, <2>1
<1> QED BY <1>3, <1>4

-----------------------------------------------------------------------------
(***************************************************************************)
(* The invariant holds at first, and every action keeps it.                *)
(***************************************************************************)
LEMMA RelayersInvInit == RelayersInit => RelayersInv
<1> SUFFICES ASSUME RelayersInit PROVE RelayersInv
    OBVIOUS
<1>1. RelayersTyped
    BY RelayersAssumption DEF RelayersInit, RelayersTyped, Calls
<1>2. CallsKnow
    BY DEF RelayersInit, CallsKnow, NoCall, SubmissionCall, AskingCall
<1> QED BY <1>1, <1>2 DEF RelayersInv

\* One call becomes another, and the registry stays or shrinks.
LEMMA OneCallMoves ==
    ASSUME RelayersInv, NEW c \in Callers, NEW call \in Calls,
           CallBecomes(c, call),
           UNCHANGED <<registry, stale>>,
           call \in SubmissionCall => RefreshKnows(call, registry),
           call \in AskingCall => ListKnown(call)
    PROVE  RelayersInv'
<1>1. RelayersTyped'
    BY DEF RelayersInv, RelayersTyped, CallBecomes
<1>2. CallsKnow'
    BY DEF RelayersInv, RelayersTyped, CallsKnow, CallBecomes
<1> QED BY <1>1, <1>2 DEF RelayersInv

LEMMA RelayersInvProbe ==
    ASSUME RelayersInv, NEW c \in Callers, Probe(c)
    PROVE  RelayersInv'
<1>1. PICK urls \in {DOMAIN registry, stale} \cup {{u} : u \in Urls} :
          CallBecomes(c, Probing("registry", urls)) /\ UNCHANGED <<registry, stale>>
    BY DEF Probe
<1>2. urls \subseteq Urls
    BY DEF RelayersInv, RelayersTyped
<1>3. Probing("registry", urls) \in RegistryCall
    <2>1. [u \in urls |-> "asked"] \in Answers
        BY <1>2 DEF Answers
    <2> QED BY <2>1 DEF Probing, RegistryCall
<1>4. Probing("registry", urls) \notin SubmissionCall \cup AskingCall
    BY <1>3, RelayersAssumption DEF RegistryCall, SubmissionCall, AskingCall
<1> QED BY <1>1, <1>3, <1>4, OneCallMoves DEF Calls

LEMMA RelayersInvSubmit ==
    ASSUME RelayersInv, NEW c \in Callers, NEW op \in Operations, Submit(c, op)
    PROVE  RelayersInv'
<1> DEFINE call == Refreshing(op, DOMAIN registry)
<1>1. CallBecomes(c, call) /\ UNCHANGED <<registry, stale>>
    BY DEF Submit, BeginsWith
<1>2. [u \in DOMAIN registry |-> "asked"] \in Answers
    BY DEF Answers, RelayersInv, RelayersTyped
<1>3. call \in SubmissionCall
    BY <1>2 DEF Refreshing, SubmissionCall
<1>4. /\ DOMAIN call.probes = DOMAIN registry
      /\ call.absent = Urls \ (DOMAIN registry \cup ProbedNow)
    BY DEF Refreshing
<1> HIDE DEF call
<1>5. RefreshKnows(call, registry)
    BY <1>4 DEF RefreshKnows, HealthyUrls
<1>6. call \notin AskingCall
    BY <1>3 DEF SubmissionCall, AskingCall
<1> QED BY <1>1, <1>3, <1>5, <1>6, OneCallMoves DEF Calls

\* A relayer answers a probe, or does not.
LEMMA RelayersInvProbeAnswered ==
    ASSUME RelayersInv, NEW c \in Callers, NEW u \in Urls, ProbeAnswered(c, u)
    PROVE  RelayersInv'
<1> DEFINE call == clientCalls[c]
<1>1. /\ call \in Calls /\ call.phase = "probing" /\ u \in DOMAIN call.probes
      /\ UNCHANGED <<registry, stale>>
    BY DEF ProbeAnswered, RelayersInv, RelayersTyped
<1>2. PICK info \in {"healthy", "unhealthy"} :
          clientCalls' = [clientCalls EXCEPT ![c].probes[u] = info]
    BY DEF ProbeAnswered
<1> DEFINE probes == [call.probes EXCEPT ![u] = info]
           next == [call EXCEPT !.probes = probes]
<1>3. CallBecomes(c, next)
    BY <1>2 DEF CallBecomes
<1>4. call \in SubmissionCall \/ call \in RegistryCall
    BY <1>1, KindsApart
<1>5. call.probes \in Answers
    BY <1>4 DEF SubmissionCall, RegistryCall
<1>6. probes \in Answers /\ DOMAIN probes = DOMAIN call.probes
    BY <1>5 DEF Answers
<1>7. CASE call \in SubmissionCall
    <2>1. RefreshKnows(call, registry)
        BY <1>7 DEF RelayersInv, CallsKnow
    <2> HIDE DEF call, probes
    <2>2. /\ next \in SubmissionCall /\ next.probes = probes
          /\ next.current = call.current /\ next.absent = call.absent
        BY <1>6, <1>7 DEF SubmissionCall
    <2> HIDE DEF next
    <2>3. RefreshKnows(next, registry)
        BY <1>6, <2>1, <2>2 DEF RefreshKnows
    <2>4. next \notin AskingCall
        BY <2>2 DEF SubmissionCall, AskingCall
    <2> QED BY <1>1, <1>3, <2>2, <2>3, <2>4, OneCallMoves DEF Calls
<1>8. CASE call \in RegistryCall
    <2> HIDE DEF call, probes
    <2>1. next \in RegistryCall
        BY <1>6, <1>8 DEF RegistryCall
    <2> HIDE DEF next
    <2>2. next \notin SubmissionCall \cup AskingCall
        BY <2>1, RelayersAssumption DEF RegistryCall, SubmissionCall, AskingCall
    <2> QED BY <1>1, <1>3, <2>1, <2>2, OneCallMoves DEF Calls
<1> QED BY <1>4, <1>7, <1>8

\* A call's results are written; the call itself goes on in some way that knows.
LEMMA ResultsWritten ==
    ASSUME RelayersInv, NEW c \in Callers, NEW probes \in Answers, NEW next \in Calls,
           registry' = WithResults(registry, probes),
           stale' = stale \ DOMAIN probes,
           clientCalls' = [Shared(c, probes) EXCEPT ![c] = next],
           next \in SubmissionCall => RefreshKnows(next, registry'),
           next \in AskingCall => ListKnown(next)
    PROVE  RelayersInv'
<1>1. /\ DOMAIN probes \subseteq Urls /\ DOMAIN registry' = DOMAIN registry \cup DOMAIN probes
      /\ registry' = [u \in DOMAIN registry' |-> registry'[u]]
    BY DEF Answers, WithResults
<1>2. /\ clientCalls'[c] = next
      /\ \A d \in Callers : d # c => clientCalls'[d] = Shared(c, probes)[d]
    BY DEF Shared
<1>3. clientCalls' \in [Callers -> Calls]
    <2>1. \A d \in Callers : clientCalls'[d] \in Calls
        BY <1>2, SharedKnows
    <2>2. clientCalls' = [d \in Callers |-> clientCalls'[d]]
        BY DEF Shared
    <2> QED BY <2>1, <2>2
<1>4. RelayersTyped'
    BY <1>1, <1>3 DEF RelayersInv, RelayersTyped
<1>5. CallsKnow'
    BY <1>2, SharedKnows DEF CallsKnow
<1> QED BY <1>4, <1>5 DEF RelayersInv

LEMMA RelayersInvProbesSettle ==
    ASSUME RelayersInv, NEW c \in Callers, ProbesSettle(c)
    PROVE  RelayersInv'
<1> DEFINE call == clientCalls[c]
<1>1. call \in RegistryCall
    BY KindsApart DEF RelayersInv, RelayersTyped, ProbesSettle, Settled
<1>2. call.probes \in Answers
    BY <1>1 DEF RegistryCall
<1>3. /\ registry' = WithResults(registry, call.probes)
      /\ stale' = stale \ DOMAIN call.probes
      /\ clientCalls' = [Shared(c, call.probes) EXCEPT ![c] = NoCall]
    BY DEF ProbesSettle
<1>4. NoCall \in Calls /\ NoCall \notin SubmissionCall \cup AskingCall
    BY DEF Calls, NoCall, SubmissionCall, AskingCall
<1> QED BY <1>2, <1>3, <1>4, ResultsWritten

LEMMA RelayersInvRefreshSettles ==
    ASSUME RelayersInv, NEW c \in Callers, RefreshSettles(c)
    PROVE  RelayersInv'
<1> DEFINE probes == clientCalls[c].probes
           call == [clientCalls[c] EXCEPT !.current = @ \cup HealthyUrls(probes)]
           nowStale == stale \ DOMAIN probes
           again == [call EXCEPT !.probes = [u \in nowStale |-> "asked"], !.again = TRUE]
<1>1. clientCalls[c] \in SubmissionCall
    BY KindsApart DEF RelayersInv, RelayersTyped, RefreshSettles, Settled
<1>2. RefreshKnows(clientCalls[c], registry)
    BY <1>1 DEF RelayersInv, CallsKnow
<1>3. /\ registry' = WithResults(registry, probes) /\ stale' = nowStale
      /\ \/ clientCalls' = [Shared(c, probes) EXCEPT ![c] = again]
         \/ \E ranked \in Rankings(registry') :
                clientCalls' = [Shared(c, probes) EXCEPT ![c] = Walk(call, ranked)]
    BY DEF RefreshSettles
<1>4. probes \in Answers /\ DOMAIN probes \subseteq Urls
    BY <1>1 DEF SubmissionCall, Answers
<1>5. /\ DOMAIN registry' = DOMAIN registry \cup DOMAIN probes
      /\ HealthyUrls(registry') \subseteq
             HealthyUrls(probes) \cup (HealthyUrls(registry) \ DOMAIN probes)
      /\ HealthyUrls(probes) \subseteq Urls
    BY <1>3, <1>4 DEF WithResults, HealthyUrls
<1>6. /\ call \in SubmissionCall
      /\ call.current = clientCalls[c].current \cup HealthyUrls(probes)
      /\ call.absent = clientCalls[c].absent /\ call.again = clientCalls[c].again
    <2> HIDE DEF probes
    <2> QED BY <1>1, <1>5 DEF SubmissionCall
<1>7. /\ HealthyUrls(registry') \subseteq call.current
      /\ DOMAIN registry' \cap call.absent = {}
    BY <1>2, <1>5, <1>6 DEF RefreshKnows
<1>8. /\ nowStale \subseteq DOMAIN registry /\ nowStale \subseteq Urls
      /\ DOMAIN registry' \subseteq Urls
    BY <1>4, <1>5 DEF RelayersInv, RelayersTyped
<1> HIDE DEF call
<1>9. CASE clientCalls' = [Shared(c, probes) EXCEPT ![c] = again]
    <2>1. [u \in nowStale |-> "asked"] \in Answers
        <3> HIDE DEF nowStale
        <3> QED BY <1>8 DEF Answers
    <2>2. /\ again \in SubmissionCall /\ DOMAIN again.probes = nowStale
          /\ again.current = call.current /\ again.absent = call.absent
        <3> HIDE DEF probes, nowStale
        <3> QED BY <1>6, <2>1 DEF SubmissionCall
    <2> HIDE DEF again
    <2>3. RefreshKnows(again, registry')
        BY <1>5, <1>7, <1>8, <2>2 DEF RefreshKnows
    <2>4. again \in Calls /\ again \notin AskingCall
        BY <2>2 DEF Calls, SubmissionCall, AskingCall
    <2> QED BY <1>3, <1>4, <1>9, <2>3, <2>4, ResultsWritten
<1>10. CASE \E ranked \in Rankings(registry') :
                clientCalls' = [Shared(c, probes) EXCEPT ![c] = Walk(call, ranked)]
    <2>1. PICK ranked \in Rankings(registry') :
              clientCalls' = [Shared(c, probes) EXCEPT ![c] = Walk(call, ranked)]
        BY <1>10
    <2> DEFINE next == Walk(call, ranked)
    <2>2. /\ next = NoCall \/ next \in AskingCall
          /\ next \in AskingCall => ListKnown(next)
        BY <1>6, <1>7, <1>8, WalkKnows
    <2> HIDE DEF next
    <2>3. next \in Calls /\ next \notin SubmissionCall
        BY <2>2 DEF Calls, NoCall, SubmissionCall, AskingCall
    <2> QED BY <1>3, <1>4, <2>1, <2>2, <2>3, ResultsWritten DEF next
<1> QED BY <1>3, <1>9, <1>10

\* The relayer asked takes the operation or fails.
LEMMA RelayersInvAnswer ==
    ASSUME RelayersInv, NEW c \in Callers, RelayerTakes(c) \/ RelayerFails(c)
    PROVE  RelayersInv'
<1> DEFINE call == clientCalls[c]
<1>1. call \in AskingCall /\ ListKnown(call)
    BY KindsApart DEF RelayersInv, RelayersTyped, CallsKnow, RelayerTakes, RelayerFails
<1>2. /\ UNCHANGED <<registry, stale>>
      /\ CallBecomes(c, NoCall) \/ CallBecomes(c, AskNext(call))
    BY DEF RelayerTakes, RelayerFails
<1>3. NoCall \in Calls /\ NoCall \notin SubmissionCall \cup AskingCall
    BY DEF Calls, NoCall, SubmissionCall, AskingCall
<1>4. /\ AskNext(call) = NoCall \/ AskNext(call) \in AskingCall
      /\ AskNext(call) \in AskingCall => ListKnown(AskNext(call))
    BY <1>1, AskNextKnows
<1>5. AskNext(call) \in Calls /\ AskNext(call) \notin SubmissionCall
    BY <1>3, <1>4 DEF Calls, SubmissionCall, AskingCall
<1> QED BY <1>2, <1>3, <1>4, <1>5, OneCallMoves

LEMMA RelayersInvNext == RelayersInv /\ [RelayersNext]_relayerVars => RelayersInv'
<1> SUFFICES ASSUME RelayersInv, [RelayersNext]_relayerVars PROVE RelayersInv'
    OBVIOUS
<1>1. CASE \E c \in Callers, u \in Urls : ProbeAnswered(c, u)
    BY <1>1, RelayersInvProbeAnswered
<1>2. CASE \E c \in Callers : Probe(c) \/ ProbesSettle(c) \/ RefreshSettles(c)
    BY <1>2, RelayersInvProbe, RelayersInvProbesSettle, RelayersInvRefreshSettles
<1>3. CASE \E c \in Callers, op \in Operations : Submit(c, op)
    BY <1>3, RelayersInvSubmit
<1>4. CASE \E c \in Callers : RelayerTakes(c) \/ RelayerFails(c)
    BY <1>4, RelayersInvAnswer
<1>5. CASE RemoveRelayer
    <2>1. PICK u \in DOMAIN registry :
              /\ registry' = [v \in DOMAIN registry \ {u} |-> registry[v]]
              /\ stale' = stale \ {u} /\ clientCalls' = clientCalls
        BY <1>5 DEF RemoveRelayer
    <2>2. DOMAIN registry' = DOMAIN registry \ {u}
          /\ HealthyUrls(registry') \subseteq HealthyUrls(registry)
        BY <2>1 DEF HealthyUrls
    <2>3. RelayersTyped'
        BY <2>1, <2>2 DEF RelayersInv, RelayersTyped
    <2>4. \A call : RefreshKnows(call, registry) => RefreshKnows(call, registry')
        BY <2>2 DEF RefreshKnows
    <2>5. CallsKnow'
        BY <2>1, <2>4 DEF RelayersInv, CallsKnow
    <2> QED BY <2>3, <2>5 DEF RelayersInv
<1>6. CASE FiveMinutesPass \/ UNCHANGED relayerVars
    <2>1. registry' = registry /\ clientCalls' = clientCalls /\ stale' \subseteq DOMAIN registry
        BY <1>6 DEF FiveMinutesPass, relayerVars, RelayersInv, RelayersTyped
    <2>2. RelayersTyped'
        BY <2>1 DEF RelayersInv, RelayersTyped
    <2>3. CallsKnow'
        BY <2>1 DEF RelayersInv, CallsKnow
    <2> QED BY <2>2, <2>3 DEF RelayersInv
<1> QED BY <1>1, <1>2, <1>3, <1>4, <1>5, <1>6 DEF RelayersNext

-----------------------------------------------------------------------------
\* A relayer is asked only if this submission, or a call that overlapped it, found or wrote
\* what the registry has of it, and not if it was removed before the submission began.
THEOREM AskedAlwaysCurrent == RelayersSpec => []AskedAreCurrent
<1>1. RelayersInv => AskedAreCurrent
    BY KindsApart DEF RelayersInv, RelayersTyped, CallsKnow, ListKnown, AskedAreCurrent, Asking
<1> QED BY <1>1, RelayersInvInit, RelayersInvNext, PTL DEF RelayersSpec
-----------------------------------------------------------------------------
(***************************************************************************)
(* How often a submission reaches a relayer.  Counted with what a relayer  *)
(* has taken of an operation: the calls that may still come to ask it.     *)
(***************************************************************************)
NoneTwice(list) == \A i, j \in DOMAIN list : list[i] = list[j] => i = j

MayReach(call, u, op) ==
    /\ call \in SubmissionCall \cup AskingCall /\ call.purpose = op
    /\ call \in AskingCall => u \in ToSet(call.todo)

StillToReach(u, op) == {c \in Callers : MayReach(clientCalls[c], u, op)}

ListsOnce ==
    \A c \in Callers : clientCalls[c] \in AskingCall => NoneTwice(clientCalls[c].todo)

Counted(u, op) ==
    /\ IsFiniteSet(StillToReach(u, op))
    /\ accepted[u][op] + Cardinality(StillToReach(u, op)) <= submissions[op]

ReachInv ==
    /\ submissions \in [Operations -> Nat]
    /\ accepted \in [Urls -> [Operations -> Nat]]
    /\ ListsOnce
    /\ \A u \in Urls, op \in Operations : Counted(u, op)

LEMMA ReachInvInit == RelayersInit => ReachInv
<1> SUFFICES ASSUME RelayersInit PROVE ReachInv
    OBVIOUS
<1>1. /\ submissions \in [Operations -> Nat] /\ accepted \in [Urls -> [Operations -> Nat]]
      /\ \A u \in Urls, op \in Operations : accepted[u][op] = 0 /\ submissions[op] = 0
    BY DEF RelayersInit
<1>2. \A c \in Callers : clientCalls[c] \notin SubmissionCall \cup AskingCall
    BY DEF RelayersInit, NoCall, SubmissionCall, AskingCall
<1>3. ASSUME NEW u \in Urls, NEW op \in Operations PROVE Counted(u, op)
    <2>1. StillToReach(u, op) = {}
        BY <1>2 DEF StillToReach, MayReach
    <2> QED BY <1>1, <2>1, FS_EmptySet DEF Counted
<1> QED BY <1>1, <1>2, <1>3 DEF ReachInv, ListsOnce

\* A call that goes on reaches no relayer it would not have reached before, and its list
\* names none twice.
GoesOn(call, next) ==
    /\ next \in AskingCall => NoneTwice(next.todo)
    /\ \A u \in Urls, op \in Operations : MayReach(next, u, op) => MayReach(call, u, op)

\* Fewer calls count for less.
LEMMA FewerCounted ==
    ASSUME NEW u \in Urls, NEW op \in Operations, ReachInv,
           accepted'[u][op] = accepted[u][op], submissions'[op] = submissions[op],
           \A c \in Callers : MayReach(clientCalls'[c], u, op) => MayReach(clientCalls[c], u, op)
    PROVE  Counted(u, op)'
<1> DEFINE before == StillToReach(u, op)
           after == StillToReach(u, op)'
<1>1. after \subseteq before
    BY DEF StillToReach
<1>2. IsFiniteSet(before) /\ accepted[u][op] + Cardinality(before) <= submissions[op]
    BY DEF ReachInv, Counted
<1>3. accepted[u][op] \in Nat /\ submissions[op] \in Nat
    BY DEF ReachInv
<1> HIDE DEF before, after
<1>4. IsFiniteSet(after) /\ Cardinality(after) <= Cardinality(before)
      /\ Cardinality(after) \in Nat /\ Cardinality(before) \in Nat
    BY <1>1, <1>2, FS_Subset, FS_CardinalityType
<1>5. accepted'[u][op] + Cardinality(after) <= submissions'[op]
    BY <1>2, <1>3, <1>4
<1> QED BY <1>4, <1>5 DEF Counted, after

LEMMA AllGoOn ==
    ASSUME ReachInv, UNCHANGED <<accepted, submissions>>,
           \A c \in Callers : GoesOn(clientCalls[c], clientCalls'[c])
    PROVE  ReachInv'
<1>1. ListsOnce'
    BY DEF ListsOnce, GoesOn
<1>2. ASSUME NEW u \in Urls, NEW op \in Operations PROVE Counted(u, op)'
    BY FewerCounted DEF GoesOn
<1> QED BY <1>1, <1>2 DEF ReachInv

LEMMA SameGoesOn ==
    ASSUME ReachInv, NEW c \in Callers
    PROVE  GoesOn(clientCalls[c], clientCalls[c])
BY DEF ReachInv, ListsOnce, GoesOn

LEMMA OthersEnd ==
    ASSUME NEW call, NEW next, next \notin SubmissionCall \cup AskingCall
    PROVE  GoesOn(call, next)
BY DEF GoesOn, MayReach

LEMMA ProbingGoesOn ==
    ASSUME NEW call \in SubmissionCall, NEW next \in SubmissionCall, next.purpose = call.purpose
    PROVE  GoesOn(call, next)
<1>1. call \notin AskingCall /\ next \notin AskingCall
    BY DEF SubmissionCall, AskingCall
<1> QED BY <1>1 DEF GoesOn, MayReach

LEMMA OneGoesOn ==
    ASSUME RelayersInv, ReachInv, NEW c \in Callers, NEW call, CallBecomes(c, call),
           UNCHANGED <<accepted, submissions>>, GoesOn(clientCalls[c], call)
    PROVE  ReachInv'
<1>1. /\ clientCalls'[c] = call
      /\ \A d \in Callers : d # c => clientCalls'[d] = clientCalls[d]
    BY DEF CallBecomes, RelayersInv, RelayersTyped
<1>2. \A d \in Callers : GoesOn(clientCalls[d], clientCalls'[d])
    BY <1>1, SameGoesOn
<1> QED BY <1>2, AllGoOn

\* What is written by another call's probes changes nothing of whom a call reaches.
LEMMA SharedGoesOn ==
    ASSUME RelayersInv, ReachInv, NEW c \in Callers, NEW d \in Callers, d # c,
           NEW probes \in Answers
    PROVE  GoesOn(clientCalls[d], Shared(c, probes)[d])
<1> DEFINE call == clientCalls[d]
           next == Shared(c, probes)[d]
<1>1. call \in Calls /\ DOMAIN probes \subseteq Urls
    BY DEF RelayersInv, RelayersTyped, Answers
<1>2. CASE call \in SubmissionCall
    <2>1. next = [call EXCEPT !.current = @ \cup DOMAIN probes,
                              !.absent = @ \ DOMAIN probes]
        BY <1>2, RelayersAssumption DEF Shared, IsSubmission, SubmissionCall
    <2>2. next \in SubmissionCall /\ next.purpose = call.purpose
        <3> HIDE DEF next, call
        <3> QED BY <1>1, <1>2, <2>1 DEF SubmissionCall
    <2> HIDE DEF next, call
    <2> QED BY <1>2, <2>2, ProbingGoesOn DEF call, next
<1>3. CASE call \notin SubmissionCall
    <2>1. next = call
        BY <1>1, <1>3, KindsApart DEF Shared, IsSubmission
    <2> QED BY <2>1, SameGoesOn
<1> QED BY <1>2, <1>3

\* No relayer is twice on the list a submission walks down.
LEMMA WalkGoesOn ==
    ASSUME NEW cache, DOMAIN cache \subseteq Urls, NEW ranked \in Rankings(cache),
           NEW call \in SubmissionCall
    PROVE  GoesOn(call, Walk(call, ranked))
<1> DEFINE next == Walk(call, ranked)
<1>1. CASE FirstOf(ranked) = <<>>
    <2>1. next = NoCall
        BY <1>1 DEF Walk
    <2>2. next \notin SubmissionCall \cup AskingCall
        BY <2>1 DEF NoCall, SubmissionCall, AskingCall
    <2> QED BY <2>2, OthersEnd
<1>2. CASE FirstOf(ranked) # <<>>
    <2>1. next = [phase |-> "asking", purpose |-> call.purpose, todo |-> FirstOf(ranked),
                  current |-> call.current \cap ToSet(ranked),
                  absent |-> call.absent \cap ToSet(ranked)]
        BY <1>2 DEF Walk
    <2>2. next.purpose = call.purpose /\ next.todo = FirstOf(ranked)
        BY <2>1
    <2>3. call \notin AskingCall /\ next \notin SubmissionCall
        BY <2>1 DEF SubmissionCall, AskingCall
    <2>4. NoneTwice(FirstOf(ranked))
        <3> DEFINE healthy == HealthyUrls(cache)
                   n == Cardinality(healthy)
        <3>1. n \in Nat
            <4>1. healthy \subseteq Urls
                BY DEF HealthyUrls
            <4> QED BY <4>1, RelayersAssumption, FS_Subset, FS_CardinalityType
        <3>2. /\ ranked \in [1 .. n -> healthy]
              /\ \A i, j \in 1 .. n : i # j => ranked[i] # ranked[j]
            BY DEF Rankings, SetToSeqs
        <3> HIDE DEF n, healthy
        <3>3. ranked \in Seq(healthy) /\ Len(ranked) = n
            BY <3>1, <3>2
        <3> DEFINE m == IF Len(ranked) < MaxRetries THEN Len(ranked) ELSE MaxRetries
        <3>4. m \in 0 .. n
            BY <3>1, <3>3, RelayersAssumption
        <3>5. FirstOf(ranked) = SubSeq(ranked, 1, m)
            BY DEF FirstOf
        <3> HIDE DEF m
        <3>6. /\ DOMAIN SubSeq(ranked, 1, m) = 1 .. m
              /\ \A i \in 1 .. m : SubSeq(ranked, 1, m)[i] = ranked[i]
            BY <3>1, <3>3, <3>4
        <3>7. 1 .. m \subseteq 1 .. n
            BY <3>1, <3>4
        <3> QED BY <3>2, <3>5, <3>6, <3>7 DEF NoneTwice
    <2>5. GoesOn(call, next)
        <3> HIDE DEF next
        <3> QED BY <2>2, <2>3, <2>4 DEF GoesOn, MayReach
    <2> QED BY <2>5
<1> QED BY <1>1, <1>2

\* The rest of a list leaves out the relayer asked.
LEMMA AskNextGoesOn ==
    ASSUME NEW call \in AskingCall, NoneTwice(call.todo)
    PROVE  /\ GoesOn(call, AskNext(call))
           /\ \A op : ~MayReach(AskNext(call), Head(call.todo), op)
           /\ MayReach(call, Head(call.todo), call.purpose)
           /\ Head(call.todo) \in Urls /\ call.purpose \in Operations
<1>1. /\ call.todo \in Seq(Urls) /\ call.todo # <<>> /\ call.purpose \in Operations
      /\ call \notin SubmissionCall
    BY DEF AskingCall, SubmissionCall
<1>2. /\ Head(call.todo) \in Urls /\ Head(call.todo) = call.todo[1]
      /\ 1 \in DOMAIN call.todo /\ Len(call.todo) \in Nat \ {0}
      /\ DOMAIN call.todo = 1 .. Len(call.todo)
    BY <1>1, HeadTailProperties, EmptySeq
<1>3. MayReach(call, Head(call.todo), call.purpose)
    BY <1>2 DEF MayReach, ToSet
<1>4. CASE Len(call.todo) = 1
    <2>1. AskNext(call) \notin SubmissionCall \cup AskingCall
        BY <1>4 DEF AskNext, NoCall, SubmissionCall, AskingCall
    <2> QED BY <1>1, <1>2, <1>3, <2>1, OthersEnd DEF MayReach
<1>5. CASE Len(call.todo) # 1
    <2> DEFINE next == [call EXCEPT !.todo = Tail(@)]
    <2>1. AskNext(call) = next
        BY <1>5 DEF AskNext
    <2>2. /\ next.todo = Tail(call.todo) /\ next.purpose = call.purpose
          /\ next.phase = "asking"
        BY DEF AskingCall
    <2>3. /\ Len(Tail(call.todo)) = Len(call.todo) - 1
          /\ DOMAIN Tail(call.todo) = 1 .. Len(call.todo) - 1
          /\ \A i \in 1 .. Len(call.todo) - 1 : Tail(call.todo)[i] = call.todo[i + 1]
        BY <1>1, <1>2, <1>5, HeadTailProperties
    <2>4. \A i \in 1 .. Len(call.todo) - 1 : i + 1 \in DOMAIN call.todo /\ i + 1 # 1
        BY <1>2
    <2>5. NoneTwice(Tail(call.todo))
        <3> SUFFICES ASSUME NEW i \in 1 .. Len(call.todo) - 1,
                            NEW j \in 1 .. Len(call.todo) - 1,
                            Tail(call.todo)[i] = Tail(call.todo)[j]
                     PROVE  i = j
            BY <2>3 DEF NoneTwice
        <3>1. i + 1 = j + 1
            BY <2>3, <2>4 DEF NoneTwice
        <3> QED BY <1>2, <3>1
    <2>6. /\ ToSet(Tail(call.todo)) \subseteq ToSet(call.todo)
          /\ Head(call.todo) \notin ToSet(Tail(call.todo))
        BY <1>2, <2>3, <2>4 DEF ToSet, NoneTwice
    <2>7. next \notin SubmissionCall
        BY <2>2 DEF SubmissionCall
    <2> HIDE DEF next
    <2> QED
        BY <1>1, <1>2, <1>3, <2>1, <2>2, <2>5, <2>6, <2>7 DEF GoesOn, MayReach
<1> QED BY <1>4, <1>5

\* What is no submission, or a list, reaches nobody, or whom it lists.
LEMMA ReachInvProbing ==
    ASSUME RelayersInv, ReachInv, NEW c \in Callers,
           Probe(c) \/ ProbesSettle(c) \/ \E u \in Urls : ProbeAnswered(c, u)
    PROVE  ReachInv'
<1> DEFINE call == clientCalls[c]
<1>0. call \in Calls /\ \A d \in Callers : clientCalls[d] \in Calls
    BY DEF RelayersInv, RelayersTyped
<1>1. CASE Probe(c)
    <2>1. PICK urls : CallBecomes(c, Probing("registry", urls))
        BY <1>1 DEF Probe
    <2>2. Probing("registry", urls) \notin SubmissionCall \cup AskingCall
        BY RelayersAssumption DEF Probing, SubmissionCall, AskingCall
    <2> QED BY <1>1, <2>1, <2>2, OthersEnd, OneGoesOn DEF Probe
<1>2. CASE ProbesSettle(c)
    <2>1. call \in RegistryCall
        BY <1>0, <1>2, KindsApart DEF ProbesSettle, Settled
    <2>2. call.probes \in Answers
        BY <2>1 DEF RegistryCall
    <2>3. /\ clientCalls' = [Shared(c, call.probes) EXCEPT ![c] = NoCall]
          /\ UNCHANGED <<accepted, submissions>>
        BY <1>2 DEF ProbesSettle
    <2>4. /\ clientCalls'[c] = NoCall
          /\ \A d \in Callers : d # c => clientCalls'[d] = Shared(c, call.probes)[d]
        BY <2>3 DEF Shared
    <2>5. NoCall \notin SubmissionCall \cup AskingCall
        BY DEF NoCall, SubmissionCall, AskingCall
    <2>6. \A d \in Callers : GoesOn(clientCalls[d], clientCalls'[d])
        BY <2>2, <2>4, <2>5, OthersEnd, SharedGoesOn
    <2> QED BY <2>3, <2>6, AllGoOn
<1>3. ASSUME NEW u \in Urls, ProbeAnswered(c, u) PROVE ReachInv'
    <2>1. PICK info \in {"healthy", "unhealthy"} :
              clientCalls' = [clientCalls EXCEPT ![c].probes[u] = info]
        BY <1>3 DEF ProbeAnswered
    <2> DEFINE probes == [call.probes EXCEPT ![u] = info]
               next == [call EXCEPT !.probes = probes]
    <2>2. CallBecomes(c, next) /\ UNCHANGED <<accepted, submissions>>
        BY <1>3, <2>1 DEF CallBecomes, ProbeAnswered
    <2>3. call \in SubmissionCall \/ call \in RegistryCall
        BY <1>0, <1>3, KindsApart DEF ProbeAnswered
    <2>4. call.probes \in Answers
        BY <2>3 DEF SubmissionCall, RegistryCall
    <2>5. probes \in Answers
        BY <2>4 DEF Answers
    <2>6. GoesOn(call, next)
        <3> HIDE DEF probes
        <3>1. CASE call \in SubmissionCall
            <4> HIDE DEF call
            <4>1. next \in SubmissionCall /\ next.purpose = call.purpose
                BY <2>5, <3>1 DEF SubmissionCall
            <4> HIDE DEF next
            <4> QED BY <3>1, <4>1, ProbingGoesOn
        <3>2. CASE call \in RegistryCall
            <4> HIDE DEF call
            <4>1. next \in RegistryCall
                BY <2>5, <3>2 DEF RegistryCall
            <4> HIDE DEF next
            <4>2. next \notin SubmissionCall \cup AskingCall
                BY <4>1, RelayersAssumption DEF RegistryCall, SubmissionCall, AskingCall
            <4> QED BY <4>2, OthersEnd
        <3> QED BY <2>3, <3>1, <3>2
    <2> HIDE DEF next
    <2> QED BY <2>2, <2>6, OneGoesOn
<1> QED BY <1>1, <1>2, <1>3

LEMMA ReachInvRefreshSettles ==
    ASSUME RelayersInv, RelayersInv', ReachInv, NEW c \in Callers, RefreshSettles(c)
    PROVE  ReachInv'
<1> DEFINE probes == clientCalls[c].probes
           call == [clientCalls[c] EXCEPT !.current = @ \cup HealthyUrls(probes)]
           nowStale == stale \ DOMAIN probes
           again == [call EXCEPT !.probes = [u \in nowStale |-> "asked"], !.again = TRUE]
<1>1. clientCalls[c] \in SubmissionCall
    BY KindsApart DEF RelayersInv, RelayersTyped, RefreshSettles, Settled
<1>2. /\ UNCHANGED <<accepted, submissions>>
      /\ \/ clientCalls' = [Shared(c, probes) EXCEPT ![c] = again]
         \/ \E ranked \in Rankings(registry') :
                clientCalls' = [Shared(c, probes) EXCEPT ![c] = Walk(call, ranked)]
    BY DEF RefreshSettles
<1>3. probes \in Answers
    BY <1>1 DEF SubmissionCall
<1>4. HealthyUrls(probes) \subseteq Urls
    BY <1>3 DEF Answers, HealthyUrls
<1>5. call \in SubmissionCall /\ call.purpose = clientCalls[c].purpose
    <2> HIDE DEF probes
    <2> QED BY <1>1, <1>4 DEF SubmissionCall
<1>6. nowStale \subseteq Urls /\ DOMAIN registry' \subseteq Urls
    BY DEF RelayersInv, RelayersTyped
<1> HIDE DEF call, probes
<1>7. GoesOn(clientCalls[c], call)
    BY <1>1, <1>5, ProbingGoesOn
<1>8. ASSUME NEW next, clientCalls' = [Shared(c, probes) EXCEPT ![c] = next],
             GoesOn(clientCalls[c], next)
      PROVE  ReachInv'
    <2>1. /\ clientCalls'[c] = next
          /\ \A d \in Callers : d # c => clientCalls'[d] = Shared(c, probes)[d]
        BY <1>8 DEF Shared
    <2>2. \A d \in Callers : GoesOn(clientCalls[d], clientCalls'[d])
        BY <1>3, <1>8, <2>1, SharedGoesOn
    <2> QED BY <1>2, <2>2, AllGoOn
<1>9. CASE clientCalls' = [Shared(c, probes) EXCEPT ![c] = again]
    <2>1. [u \in nowStale |-> "asked"] \in Answers
        <3> HIDE DEF nowStale
        <3> QED BY <1>6 DEF Answers
    <2>2. again \in SubmissionCall /\ again.purpose = call.purpose
        <3> HIDE DEF nowStale
        <3> QED BY <1>5, <2>1 DEF SubmissionCall
    <2> HIDE DEF again
    <2>3. GoesOn(clientCalls[c], again)
        BY <1>1, <1>5, <2>2, ProbingGoesOn
    <2> QED BY <1>8, <1>9, <2>3
<1>10. CASE \E ranked \in Rankings(registry') :
                clientCalls' = [Shared(c, probes) EXCEPT ![c] = Walk(call, ranked)]
    <2>1. PICK ranked \in Rankings(registry') :
              clientCalls' = [Shared(c, probes) EXCEPT ![c] = Walk(call, ranked)]
        BY <1>10
    <2>2. GoesOn(call, Walk(call, ranked))
        BY <1>5, <1>6, WalkGoesOn
    <2>3. GoesOn(clientCalls[c], Walk(call, ranked))
        BY <1>7, <2>2 DEF GoesOn
    <2> QED BY <1>8, <2>1, <2>3
<1> QED BY <1>2, <1>9, <1>10

LEMMA ReachInvSubmit ==
    ASSUME RelayersInv, ReachInv, NEW c \in Callers, NEW op \in Operations, Submit(c, op)
    PROVE  ReachInv'
<1> DEFINE call == Refreshing(op, DOMAIN registry)
<1>1. /\ CallBecomes(c, call) /\ UNCHANGED accepted
      /\ submissions' = [submissions EXCEPT ![op] = @ + 1]
    BY DEF Submit, BeginsWith
<1>2. call.purpose = op /\ call \notin AskingCall
    BY DEF Refreshing, AskingCall
<1> HIDE DEF call
<1>3. /\ clientCalls'[c] = call
      /\ \A d \in Callers : d # c => clientCalls'[d] = clientCalls[d]
    BY <1>1 DEF CallBecomes, RelayersInv, RelayersTyped
<1>4. ListsOnce'
    BY <1>2, <1>3 DEF ReachInv, ListsOnce
<1>5. submissions' \in [Operations -> Nat] /\ submissions'[op] = submissions[op] + 1
    BY <1>1 DEF ReachInv
<1>6. ASSUME NEW u \in Urls, NEW o \in Operations PROVE Counted(u, o)'
    <2>1. CASE o # op
        <3>1. \A d \in Callers : MayReach(clientCalls'[d], u, o) => MayReach(clientCalls[d], u, o)
            BY <1>2, <1>3, <2>1 DEF MayReach
        <3>2. accepted'[u][o] = accepted[u][o] /\ submissions'[o] = submissions[o]
            BY <1>1, <2>1 DEF ReachInv
        <3> QED BY <3>1, <3>2, FewerCounted
    <2>2. CASE o = op
        <3> DEFINE before == StillToReach(u, op)
                   after == StillToReach(u, op)'
        <3>1. after \subseteq before \cup {c}
            BY <1>3 DEF StillToReach
        <3>2. IsFiniteSet(before) /\ accepted[u][op] + Cardinality(before) <= submissions[op]
            BY DEF ReachInv, Counted
        <3>3. accepted[u][op] \in Nat /\ submissions[op] \in Nat /\ accepted' = accepted
            BY <1>1 DEF ReachInv
        <3> HIDE DEF before, after
        <3>4. /\ IsFiniteSet(before \cup {c}) /\ Cardinality(before) \in Nat
              /\ Cardinality(before \cup {c}) <= Cardinality(before) + 1
              /\ Cardinality(before \cup {c}) \in Nat
            <4>1. /\ IsFiniteSet(before \cup {c})
                  /\ Cardinality(before) \in Nat /\ Cardinality(before \cup {c}) \in Nat
                BY <3>2, FS_AddElement, FS_CardinalityType
            <4>2. CASE c \in before
                <5>1. Cardinality(before \cup {c}) = Cardinality(before)
                    BY <3>2, <4>2, FS_AddElement
                <5> QED BY <4>1, <5>1
            <4>3. CASE c \notin before
                BY <3>2, <4>1, <4>3, FS_AddElement
            <4> QED BY <4>1, <4>2, <4>3
        <3>5. IsFiniteSet(after) /\ Cardinality(after) <= Cardinality(before \cup {c})
              /\ Cardinality(after) \in Nat
            BY <3>1, <3>4, FS_Subset, FS_CardinalityType
        <3>6. accepted'[u][op] + Cardinality(after) <= submissions'[op]
            BY <1>5, <3>2, <3>3, <3>4, <3>5
        <3> QED BY <2>2, <3>5, <3>6 DEF Counted, after
    <2> QED BY <2>1, <2>2
<1> QED BY <1>1, <1>4, <1>5, <1>6 DEF ReachInv

\* What a relayer takes, its call will not ask it for again.
LEMMA ReachInvAnswer ==
    ASSUME RelayersInv, ReachInv, NEW c \in Callers, RelayerTakes(c) \/ RelayerFails(c)
    PROVE  ReachInv'
<1> DEFINE call == clientCalls[c]
<1>1. call \in AskingCall /\ NoneTwice(call.todo)
    BY KindsApart DEF RelayersInv, RelayersTyped, RelayerTakes, RelayerFails, ReachInv, ListsOnce
<1>2. PICK asked \in Urls, taken \in Operations :
          /\ asked = Head(call.todo) /\ taken = call.purpose
          /\ GoesOn(call, AskNext(call)) /\ \A op : ~MayReach(AskNext(call), asked, op)
          /\ MayReach(call, asked, taken)
    BY <1>1, AskNextGoesOn
<1>3. CASE RelayerFails(c)
    BY <1>2, <1>3, OneGoesOn DEF RelayerFails
<1>4. CASE RelayerTakes(c)
    <2>1. /\ accepted' = [accepted EXCEPT ![asked][taken] = @ + 1] /\ UNCHANGED submissions
          /\ CallBecomes(c, NoCall) \/ CallBecomes(c, AskNext(call))
        BY <1>2, <1>4 DEF RelayerTakes
    <2>2. NoCall \notin SubmissionCall \cup AskingCall
        BY DEF NoCall, SubmissionCall, AskingCall
    <2>3. PICK next : /\ CallBecomes(c, next) /\ GoesOn(call, next)
                      /\ \A op : ~MayReach(next, asked, op)
        <3>1. GoesOn(call, NoCall) /\ \A op : ~MayReach(NoCall, asked, op)
            BY <2>2, OthersEnd DEF MayReach
        <3> QED BY <1>2, <2>1, <3>1
    <2>4. /\ clientCalls'[c] = next
          /\ \A d \in Callers : d # c => clientCalls'[d] = clientCalls[d]
        BY <2>3 DEF CallBecomes, RelayersInv, RelayersTyped
    <2>5. \A d \in Callers : GoesOn(clientCalls[d], clientCalls'[d])
        BY <2>3, <2>4, SameGoesOn
    <2>6. /\ accepted' \in [Urls -> [Operations -> Nat]]
          /\ accepted'[asked][taken] = accepted[asked][taken] + 1
          /\ \A u \in Urls, op \in Operations :
                 u # asked \/ op # taken => accepted'[u][op] = accepted[u][op]
        BY <1>2, <2>1 DEF ReachInv
    <2>7. ASSUME NEW u \in Urls, NEW op \in Operations PROVE Counted(u, op)'
        <3>1. CASE u # asked \/ op # taken
            BY <2>1, <2>5, <2>6, <3>1, FewerCounted DEF GoesOn
        <3>2. CASE u = asked /\ op = taken
            <4> DEFINE before == StillToReach(asked, taken)
                       after == StillToReach(asked, taken)'
            <4>1. after \subseteq before \ {c} /\ c \in before
                BY <1>2, <2>3, <2>4 DEF StillToReach
            <4>2. IsFiniteSet(before)
                  /\ accepted[asked][taken] + Cardinality(before) <= submissions[taken]
                BY <1>2 DEF ReachInv, Counted
            <4>3. accepted[asked][taken] \in Nat /\ submissions[taken] \in Nat
                BY <1>2 DEF ReachInv
            <4> HIDE DEF before, after
            <4>4. /\ IsFiniteSet(before \ {c}) /\ Cardinality(before) \in Nat
                  /\ Cardinality(before \ {c}) = Cardinality(before) - 1
                BY <4>1, <4>2, FS_RemoveElement, FS_CardinalityType
            <4>5. /\ IsFiniteSet(after) /\ Cardinality(after) \in Nat
                  /\ Cardinality(after) <= Cardinality(before \ {c})
                BY <4>1, <4>4, FS_Subset, FS_CardinalityType
            <4>6. accepted'[asked][taken] + Cardinality(after) <= submissions'[taken]
                BY <2>1, <2>6, <4>2, <4>3, <4>4, <4>5
            <4> QED BY <3>2, <4>5, <4>6 DEF Counted, after
        <3> QED BY <3>1, <3>2
    <2>8. ListsOnce'
        BY <2>5 DEF ListsOnce, GoesOn
    <2> QED BY <2>1, <2>6, <2>7, <2>8 DEF ReachInv
<1> QED BY <1>3, <1>4

LEMMA ReachInvNext ==
    RelayersInv /\ RelayersInv' /\ ReachInv /\ [RelayersNext]_relayerVars => ReachInv'
<1> SUFFICES ASSUME RelayersInv, RelayersInv', ReachInv, [RelayersNext]_relayerVars
             PROVE  ReachInv'
    OBVIOUS
<1>1. CASE \E c \in Callers : \/ Probe(c) \/ ProbesSettle(c)
                              \/ \E u \in Urls : ProbeAnswered(c, u)
    BY <1>1, ReachInvProbing
<1>2. CASE \E c \in Callers : RefreshSettles(c)
    BY <1>2, ReachInvRefreshSettles
<1>3. CASE \E c \in Callers, op \in Operations : Submit(c, op)
    BY <1>3, ReachInvSubmit
<1>4. CASE \E c \in Callers : RelayerTakes(c) \/ RelayerFails(c)
    BY <1>4, ReachInvAnswer
<1>5. CASE RemoveRelayer \/ FiveMinutesPass \/ UNCHANGED relayerVars
    <2>1. UNCHANGED <<clientCalls, accepted, submissions>>
        BY <1>5 DEF RemoveRelayer, FiveMinutesPass, relayerVars
    <2> QED BY <2>1, SameGoesOn, AllGoOn
<1> QED BY <1>1, <1>2, <1>3, <1>4, <1>5 DEF RelayersNext

ReachedOnce == \A op \in Operations, u \in Urls : accepted[u][op] <= submissions[op]

\* A submission reaches each relayer once at most, whatever the registry and other calls do
\* while it walks: no relayer has taken an operation more often than it was submitted.
THEOREM RelayersReachedOnce == RelayersSpec => []ReachedOnce
<1>1. ReachInv => ReachedOnce
    <2> SUFFICES ASSUME ReachInv, NEW op \in Operations, NEW u \in Urls
                 PROVE  accepted[u][op] <= submissions[op]
        BY DEF ReachedOnce
    <2>1. Counted(u, op) /\ accepted[u][op] \in Nat /\ submissions[op] \in Nat
        BY DEF ReachInv
    <2>2. Cardinality(StillToReach(u, op)) \in Nat
        BY <2>1, FS_CardinalityType DEF Counted
    <2> QED BY <2>1, <2>2 DEF Counted
<1> QED
    BY <1>1, RelayersInvInit, RelayersInvNext, ReachInvInit, ReachInvNext, PTL DEF RelayersSpec
-----------------------------------------------------------------------------
(***************************************************************************)
(* The SDK's tree.                                                         *)
(***************************************************************************)

\* halved is what LET names in ShiftedRight.
Halves(halved, index) ==
    halved = [by \in 0 .. TreeDepth |-> IF by = 0 THEN index ELSE halved[by - 1] \div 2]

\* A shift by one more is a half.
LEMMA ShiftedByOneMore ==
    ASSUME NEW index \in Nat
    PROVE  /\ ShiftedRight(index, 0) = index
           /\ \A level \in 0 .. TreeDepth : ShiftedRight(index, level) \in Nat
           /\ \A level \in Levels :
                  ShiftedRight(index, level + 1) = ShiftedRight(index, level) \div 2
<1> DEFINE step == [by \in 1 .. TreeDepth |-> [x \in Nat |-> x \div 2]]
           chosen == CHOOSE halved : Halves(halved, index)
<1>0. TreeDepth \in Nat /\ TreeDepth > 0
    BY TreeAssumption
<1>1. step \in [1 .. TreeDepth -> [Nat -> Nat]]
    OBVIOUS
<1>2. PICK f : Iterates(f, TreeDepth, index, step, Nat)
    <2> HIDE DEF step
    <2> QED BY <1>0, <1>1, IterationExists, Zenon
<1>3. f \in [0 .. TreeDepth -> Nat] /\ f[0] = index
      /\ \A by \in 1 .. TreeDepth : f[by] = f[by - 1] \div 2
    <2>1. f \in [0 .. TreeDepth -> Nat] /\ f[0] = index
          /\ \A by \in 1 .. TreeDepth : f[by] = step[by][f[by - 1]]
        BY <1>2 DEF Iterates
    <2>2. \A by \in 1 .. TreeDepth : by - 1 \in 0 .. TreeDepth
        BY <1>0
    <2> QED BY <2>1, <2>2
<1>4. Halves(f, index)
    BY <1>0, <1>3 DEF Halves
<1>5. Halves(chosen, index)
    BY <1>4
<1>6. \A level : ShiftedRight(index, level) = chosen[level]
    BY DEF ShiftedRight, Halves
<1> HIDE DEF chosen
<1>7. chosen = [by \in 0 .. TreeDepth |-> chosen[by]]
    BY <1>5 DEF Halves
<1>8. chosen[0] = index /\ \A by \in 1 .. TreeDepth : chosen[by] = chosen[by - 1] \div 2
    BY <1>0, <1>5 DEF Halves
<1> DEFINE T == {by \in 0 .. TreeDepth : chosen[by] \in Nat}
<1>9. 0 .. TreeDepth \subseteq T
    <2>1. 0 \in T
        BY <1>0, <1>8
    <2>2. ASSUME NEW by \in 1 .. TreeDepth, by - 1 \in T PROVE by \in T
        BY <1>8, <2>2
    <2> HIDE DEF T
    <2> QED BY <1>0, <2>1, <2>2, IntervalInduction
<1>10. \A level \in Levels : level + 1 \in 1 .. TreeDepth /\ (level + 1) - 1 = level
    BY <1>0 DEF Levels
<1> QED BY <1>0, <1>6, <1>8, <1>9, <1>10

\* The index after one of only 1 bits has a bit past the last of that one.
LEMMA NextOfOnlyOnes ==
    ASSUME NEW index \in Nat, \A level \in Levels : BitAtLevel(index, level) = 1
    PROVE  ShiftedRight(index + 1, TreeDepth) > 0
<1> DEFINE T == {level \in 0 .. TreeDepth :
                     ShiftedRight(index + 1, level) = ShiftedRight(index, level) + 1}
<1>0. TreeDepth \in Nat /\ TreeDepth > 0 /\ index + 1 \in Nat
    BY TreeAssumption
<1>1. 0 \in T
    BY <1>0, ShiftedByOneMore
<1>2. ASSUME NEW level \in 1 .. TreeDepth, level - 1 \in T PROVE level \in T
    <2>1. level - 1 \in Levels /\ (level - 1) + 1 = level /\ level - 1 \in 0 .. TreeDepth
          /\ level \in 0 .. TreeDepth
        BY <1>0 DEF Levels
    <2> DEFINE lower == ShiftedRight(index, level - 1)
    <2>2. lower \in Nat /\ lower % 2 = 1
        BY <2>1, ShiftedByOneMore DEF BitAtLevel
    <2>3. ShiftedRight(index, level) = lower \div 2
        BY <2>1, ShiftedByOneMore
    <2>4. ShiftedRight(index + 1, level) = ShiftedRight(index + 1, level - 1) \div 2
        BY <1>0, <2>1, ShiftedByOneMore
    <2>5. ShiftedRight(index + 1, level - 1) = lower + 1
        BY <1>2
    <2> HIDE DEF lower
    <2>6. (lower + 1) \div 2 = lower \div 2 + 1
        BY <2>2
    <2> QED BY <2>1, <2>3, <2>4, <2>5, <2>6
<1>3. TreeDepth \in T
    <2> HIDE DEF T
    <2>1. 0 .. TreeDepth \subseteq T
        BY <1>0, <1>1, <1>2, IntervalInduction
    <2> QED BY <1>0, <2>1
<1>4. ShiftedRight(index, TreeDepth) \in Nat
    BY <1>0, ShiftedByOneMore
<1> QED BY <1>3, <1>4

\* level is the lowest at which the index has a 0 bit, or TreeDepth.
IsStored(index, level) ==
    /\ level \in 0 .. TreeDepth
    /\ level < TreeDepth => BitAtLevel(index, level) = 0
    /\ \A lower \in 0 .. level - 1 : BitAtLevel(index, lower) = 1

\* The client's walk ends at the level at which the contract stores.
LEMMA WalkEndsStored ==
    ASSUME NEW index \in Nat
    PROVE  IsStored(index, StoredLevel(index)) /\ WalkEnds(index) = StoredLevel(index)
<1> DEFINE zeroBits == {level \in Levels : BitAtLevel(index, level) = 0}
<1>0. TreeDepth \in Nat /\ TreeDepth > 0
    BY TreeAssumption
<1>1. \A level \in Levels : BitAtLevel(index, level) \in {0, 1}
    <2> SUFFICES ASSUME NEW level \in Levels PROVE BitAtLevel(index, level) \in {0, 1}
        OBVIOUS
    <2>1. ShiftedRight(index, level) \in Nat
        BY <1>0, ShiftedByOneMore DEF Levels
    <2> QED BY <2>1 DEF BitAtLevel
<1>2. IsStored(index, WalkEnds(index))
    <2>1. CASE zeroBits = {}
        <3>1. WalkEnds(index) = TreeDepth
            BY <2>1 DEF WalkEnds
        <3>2. \A lower \in 0 .. TreeDepth - 1 : BitAtLevel(index, lower) = 1
            BY <1>1, <2>1 DEF Levels
        <3> QED BY <1>0, <3>1, <3>2 DEF IsStored
    <2>2. CASE zeroBits # {}
        <3>1. \E level \in zeroBits : \A other \in zeroBits : level <= other
            <4>1. zeroBits \subseteq Nat
                BY DEF Levels
            <4> HIDE DEF zeroBits
            <4> QED BY <2>2, <4>1, LeastExists
        <3>2. WalkEnds(index) =
                  CHOOSE level \in zeroBits : \A other \in zeroBits : level <= other
            BY <2>2 DEF WalkEnds
        <3>3. WalkEnds(index) \in zeroBits /\ \A other \in zeroBits : WalkEnds(index) <= other
            <4> HIDE DEF zeroBits
            <4> QED BY <3>1, <3>2
        <3>4. \A lower \in 0 .. WalkEnds(index) - 1 : BitAtLevel(index, lower) = 1
            <4> SUFFICES ASSUME NEW lower \in 0 .. WalkEnds(index) - 1
                         PROVE  BitAtLevel(index, lower) = 1
                OBVIOUS
            <4>1. lower \in Levels /\ ~(WalkEnds(index) <= lower)
                BY <1>0, <3>3 DEF Levels
            <4> QED BY <1>1, <3>3, <4>1
        <3> QED BY <1>0, <3>3, <3>4 DEF IsStored, Levels
    <2> QED BY <2>1, <2>2
<1>3. \A a, b : IsStored(index, a) /\ IsStored(index, b) => ~(a < b)
    BY <1>0 DEF IsStored
<1>4. StoredLevel(index) = CHOOSE level \in 0 .. TreeDepth : IsStored(index, level)
    BY DEF StoredLevel, IsStored
<1>5. IsStored(index, StoredLevel(index))
    <2>1. \E level \in 0 .. TreeDepth : IsStored(index, level)
        BY <1>2 DEF IsStored
    <2> QED BY <1>4, <2>1
<1>6. ~(WalkEnds(index) < StoredLevel(index)) /\ ~(StoredLevel(index) < WalkEnds(index))
    BY <1>2, <1>3, <1>5
<1>7. WalkEnds(index) \in 0 .. TreeDepth /\ StoredLevel(index) \in 0 .. TreeDepth
    BY <1>2, <1>5 DEF IsStored
<1> QED BY <1>0, <1>5, <1>6, <1>7

\* Only the last leaf the tree has room for stores no hash in the contract's frontier.
LEMMA LastLeafFills ==
    ASSUME NEW index \in 0 .. MaxLeaves - 1, StoredLevel(index) = TreeDepth
    PROVE  index + 1 = MaxLeaves
<1>0. TreeDepth \in Nat /\ TreeDepth > 0 /\ MaxLeaves \in Nat /\ index \in Nat
    BY TreeAssumption
<1>1. \A level \in Levels : BitAtLevel(index, level) = 1
    BY <1>0, WalkEndsStored DEF IsStored, Levels
<1>2. ShiftedRight(index + 1, TreeDepth) > 0
    BY <1>0, <1>1, NextOfOnlyOnes
<1>3. index + 1 \notin 0 .. MaxLeaves - 1
    <2>1. \A i \in 0 .. MaxLeaves - 1 : ShiftedRight(i, TreeDepth) = 0
        BY TreeAssumption
    <2> QED BY <1>2, <2>1
<1> QED BY <1>0, <1>3

\* The client's frontier, own, has the hashes of the contract's at each level.
Mirrors(own, f) ==
    /\ own = [level \in Levels |-> own[level]]
    /\ \A level \in Levels : own[level] = FrontierOrZero(f, level)

\* Then both walk to the same hash,
LEMMA SameHash ==
    ASSUME NEW index \in Nat, NEW leaf, NEW f, Mirrors(frontier, f)
    PROVE  WalkedHash(leaf, index) = HashAtStoredLevel(f, leaf, index)
<1> DEFINE Walks(h) ==
               h = [level \in 0 .. TreeDepth |->
                        IF level = 0 THEN leaf ELSE Hash(frontier[level - 1], h[level - 1])]
           Folds(h) ==
               h = [level \in 0 .. TreeDepth |->
                        IF level = 0
                        THEN leaf
                        ELSE Hash(FrontierOrZero(f, level - 1), h[level - 1])]
<1>1. ASSUME NEW h PROVE Walks(h) <=> Folds(h)
    <2>1. \A level \in 0 .. TreeDepth :
              level # 0 => frontier[level - 1] = FrontierOrZero(f, level - 1)
        BY TreeAssumption DEF Mirrors, Levels
    <2> QED BY <2>1
<1>2. (CHOOSE h : Walks(h)) = (CHOOSE h : Folds(h))
    <2> HIDE DEF Walks, Folds
    <2> QED BY <1>1
<1>3. WalkedHash(leaf, index) = (CHOOSE h : Walks(h))[WalkEnds(index)]
    BY DEF WalkedHash
<1>4. HashAtStoredLevel(f, leaf, index) = (CHOOSE h : Folds(h))[StoredLevel(index)]
    BY DEF HashAtStoredLevel
<1> QED BY <1>2, <1>3, <1>4, WalkEndsStored

\* and from any hash to the same root.
LEMMA SameRoot ==
    ASSUME NEW index \in Nat, NEW hash
    PROVE  RootFrom(hash, index) = RootAbove(hash, index)
<1> DEFINE stored == StoredLevel(index)
           From(from, h) ==
               h = [level \in from .. TreeDepth - 1 |->
                        IF level = from
                        THEN hash
                        ELSE WithZero(h[level - 1], ZeroHash[level], BitAtLevel(index, level))]
<1>0. TreeDepth \in Nat /\ TreeDepth > 0
    BY TreeAssumption
<1>1. RootFrom(hash, index) = (CHOOSE h : From(InsertLevel(index), h))[TreeDepth - 1]
    BY DEF RootFrom
<1>2. CASE stored = TreeDepth
    <2>1. InsertLevel(index) = TreeDepth - 1
        BY <1>2, WalkEndsStored DEF InsertLevel
    <2> DEFINE only == [level \in TreeDepth - 1 .. TreeDepth - 1 |-> hash]
    <2>2. From(TreeDepth - 1, only)
        BY <1>0
    <2>3. \A h : From(TreeDepth - 1, h) => h[TreeDepth - 1] = hash
        BY <1>0
    <2>4. RootFrom(hash, index) = hash
        <3> HIDE DEF From, only
        <3> QED BY <1>1, <2>1, <2>2, <2>3
    <2> QED BY <1>2, <2>4 DEF RootAbove
<1>3. CASE stored # TreeDepth
    <2>1. InsertLevel(index) = stored
        BY <1>3, WalkEndsStored DEF InsertLevel
    <2>2. RootAbove(hash, index) = (CHOOSE h : From(stored, h))[TreeDepth - 1]
        BY <1>3 DEF RootAbove, WithZero, HashWithZero
    <2> HIDE DEF From
    <2> QED BY <1>1, <2>1, <2>2
<1> QED BY <1>2, <1>3

\* What append-leaf makes of the frontier, and the root it announces.
Announced(before, event, index, after) ==
    LET hash == HashAtStoredLevel(before, event.leaf, index)
    IN  /\ event.newRoot = RootAbove(hash, index)
        /\ after = IF StoredLevel(index) = TreeDepth
                   THEN before
                   ELSE MapSet(before, StoredLevel(index), hash)

\* The contract's frontiers, from the empty one to the last, with the announced events.
History(frontiers, announced, last) ==
    /\ frontiers[0] = EmptyMap
    /\ frontiers[Len(announced)] = last
    /\ \A i \in 1 .. Len(announced) :
           Announced(frontiers[i - 1], announced[i], i - 1, frontiers[i])

\* The client has the contract's frontier after as many leaves, unless the tree is full.
Follows(own, n, frontiers) == n < MaxLeaves => Mirrors(own, frontiers[n])

TreeInv ==
    /\ \E S : events \in Seq(S)
    /\ nextLeafIndex = Len(events)
    /\ nextLeafIndex <= MaxLeaves
    /\ nextIndex \in 0 .. Len(events)
    /\ frontier = [level \in Levels |-> frontier[level]]
    /\ \E frontiers : /\ History(frontiers, events, treeFrontier)
                      /\ Follows(frontier, nextIndex, frontiers)
    /\ RootMirrored

\* A new tree follows the contract.
LEMMA NewTreeFollows ==
    ASSUME NEW frontiers, frontiers[0] = EmptyMap,
           NEW f, NEW l, NEW r, NEW n, NewTree(f, l, r, n)
    PROVE  Follows(f, n, frontiers) /\ f = [level \in Levels |-> f[level]]
<1>1. DOMAIN EmptyMap = {}
    BY DEF EmptyMap
<1>2. \A level \in Levels : FrontierOrZero(EmptyMap, level) = ZeroHash[level]
    BY <1>1 DEF FrontierOrZero
<1>3. f = [level \in Levels |-> f[level]] /\ \A level \in Levels : f[level] = ZeroHash[level]
    BY DEF NewTree
<1>4. Mirrors(f, frontiers[0])
    BY <1>2, <1>3 DEF Mirrors
<1> QED BY <1>3, <1>4 DEF NewTree, Follows

LEMMA TreeInvInit == TreeClientInit => TreeInv
<1> SUFFICES ASSUME TreeClientInit PROVE TreeInv
    OBVIOUS
<1> USE DEF TreeClientInit, MerkleTreeInit
<1>1. events = <<>> /\ Len(events) = 0 /\ events \in Seq({})
    OBVIOUS
<1> DEFINE first == [i \in {0} |-> EmptyMap]
<1>2. first[0] = EmptyMap
    OBVIOUS
<1>3. Follows(frontier, nextIndex, first) /\ frontier = [level \in Levels |-> frontier[level]]
    <2> HIDE DEF first
    <2> QED BY <1>2, NewTreeFollows
<1>4. History(first, events, treeFrontier)
    <2> HIDE DEF first
    <2> QED BY <1>1, <1>2 DEF History
<1> HIDE DEF first
<1>5. nextIndex = 0 /\ root = EmptyRoot
    BY DEF NewTree
<1>6. 0 <= MaxLeaves
    BY TreeAssumption
<1> QED BY <1>1, <1>3, <1>4, <1>5, <1>6 DEF TreeInv, RootMirrored

\* The contract appends a leaf and announces it.
LEMMA TreeInvAppended ==
    ASSUME TreeInv, NEW leaf \in Leaves, Appended(leaf) PROVE TreeInv'
<1> USE DEF TreeInv, Appended
<1>1. PICK S : events \in Seq(S)
    OBVIOUS
<1>2. PICK frontiers : /\ History(frontiers, events, treeFrontier)
                       /\ Follows(frontier, nextIndex, frontiers)
    OBVIOUS
<1>3. PICK event : /\ event = [leaf |-> leaf, newRoot |-> currentRoot']
                   /\ events' = Append(events, event)
    OBVIOUS
<1>4. PICK n \in Nat : n = Len(events)
    BY <1>1
<1>5. /\ events' \in Seq(S \cup {event}) /\ Len(events') = n + 1
      /\ \A i \in 1 .. n : events'[i] = events[i]
      /\ events'[n + 1] = event
    <2>1. events \in Seq(S \cup {event}) /\ event \in S \cup {event}
        BY <1>1
    <2> QED BY <1>3, <1>4, <2>1
<1>6. nextLeafIndex' = n + 1 /\ n + 1 <= MaxLeaves
    BY <1>4, TreeAssumption DEF AppendLeaf
<1>7. Announced(treeFrontier, event, n, treeFrontier')
    BY <1>3, <1>4 DEF AppendLeaf, Announced
<1>8. PICK longer :
        /\ longer[n + 1] = treeFrontier' /\ longer[0] = frontiers[0]
        /\ \A i \in 0 .. n : longer[i] = frontiers[i]
    <2> DEFINE l == [i \in 0 .. n + 1 |-> IF i = n + 1 THEN treeFrontier' ELSE frontiers[i]]
    <2>1. /\ l[n + 1] = treeFrontier' /\ l[0] = frontiers[0]
          /\ \A i \in 0 .. n : l[i] = frontiers[i]
        BY <1>4
    <2> HIDE DEF l
    <2> QED BY <2>1
<1>9. History(longer, events', treeFrontier')
    <2>1. longer[0] = EmptyMap /\ longer[Len(events')] = treeFrontier'
        BY <1>2, <1>5, <1>8 DEF History
    <2>2. ASSUME NEW i \in 1 .. n + 1
          PROVE  Announced(longer[i - 1], events'[i], i - 1, longer[i])
        <3>1. CASE i = n + 1
            <4>1. longer[i - 1] = treeFrontier
                BY <1>2, <1>4, <1>8, <3>1 DEF History
            <4>2. i - 1 = n /\ events'[i] = event /\ longer[i] = treeFrontier'
                BY <1>5, <1>8, <3>1
            <4> QED BY <1>7, <4>1, <4>2
        <3>2. CASE i # n + 1
            <4>1. i \in 1 .. n /\ i - 1 \in 0 .. n /\ i \in 0 .. n
                BY <3>2
            <4>2. Announced(frontiers[i - 1], events[i], i - 1, frontiers[i])
                BY <1>2, <1>4, <4>1 DEF History
            <4> QED BY <1>5, <1>8, <4>1, <4>2
        <3> QED BY <3>1, <3>2
    <2> QED BY <1>5, <2>1, <2>2 DEF History
<1>10. nextIndex' = nextIndex /\ nextIndex \in 0 .. n /\ frontier' = frontier /\ root' = root
    BY <1>4 DEF sdkVars
<1>11. Follows(frontier', nextIndex', longer)
    BY <1>2, <1>8, <1>10 DEF Follows
<1>12. RootMirrored'
    BY <1>5, <1>10 DEF RootMirrored
<1> QED BY <1>4, <1>5, <1>6, <1>9, <1>10, <1>11, <1>12

\* The client inserts the next leaf.
LEMMA TreeInvMirrored == ASSUME TreeInv, Mirrored PROVE TreeInv'
<1> USE DEF TreeInv
<1>1. PICK S : events \in Seq(S)
    OBVIOUS
<1>2. PICK frontiers : /\ History(frontiers, events, treeFrontier)
                       /\ Follows(frontier, nextIndex, frontiers)
    OBVIOUS
<1>3. PICK n \in Nat : n = nextIndex
    BY <1>1
<1>4. PICK event, before, after :
          event = events[n + 1] /\ before = frontiers[n] /\ after = frontiers[n + 1]
    OBVIOUS
<1>5. n < MaxLeaves /\ n + 1 \in 1 .. Len(events) /\ Insert(event.leaf)
    BY <1>1, <1>3, <1>4 DEF Mirrored, Insert
<1>6. Announced(before, event, n, after)
    <2>1. Announced(frontiers[n + 1 - 1], events[n + 1], n + 1 - 1, frontiers[n + 1])
        BY <1>2, <1>5 DEF History
    <2>2. n + 1 - 1 = n
        BY <1>3
    <2> QED BY <1>4, <2>1, <2>2
<1>7. Mirrors(frontier, before)
    BY <1>2, <1>3, <1>4, <1>5 DEF Follows
<1>8. PICK hash : hash = WalkedHash(event.leaf, n)
    OBVIOUS
<1>9. hash = HashAtStoredLevel(before, event.leaf, n)
    BY <1>3, <1>7, <1>8, SameHash
<1>10. root' = event.newRoot
    <2>1. root' = RootFrom(hash, n)
        BY <1>3, <1>5, <1>8 DEF Insert
    <2>2. event.newRoot = RootAbove(hash, n)
        BY <1>6, <1>9 DEF Announced
    <2> QED BY <1>3, <2>1, <2>2, SameRoot
<1>11. nextIndex' = n + 1 /\ events' = events /\ treeFrontier' = treeFrontier
       /\ nextLeafIndex' = nextLeafIndex
    BY <1>3, <1>5 DEF Mirrored, Insert, treeVars
<1>12. frontier' = [frontier EXCEPT ![InsertLevel(n)] = hash]
    BY <1>3, <1>5, <1>8 DEF Insert
<1>13. frontier' = [level \in Levels |-> frontier'[level]]
    BY <1>12
<1>14. ASSUME n + 1 < MaxLeaves PROVE Mirrors(frontier', after)
    <2> DEFINE stored == StoredLevel(n)
    <2>1. stored # TreeDepth
        <3>1. n \in 0 .. MaxLeaves - 1 /\ n + 1 # MaxLeaves
            BY <1>3, <1>5, <1>14, TreeAssumption
        <3> QED BY <3>1, LastLeafFills
    <2>2. InsertLevel(n) = stored /\ stored \in Levels
        <3>1. TreeDepth \in Nat /\ stored \in 0 .. TreeDepth /\ WalkEnds(n) = stored
            BY <1>3, WalkEndsStored, TreeAssumption DEF IsStored
        <3> QED BY <2>1, <3>1 DEF InsertLevel, Levels
    <2>3. after = MapSet(before, stored, hash)
        BY <1>6, <1>9, <2>1 DEF Announced
    <2> HIDE DEF stored
    <2>4. ASSUME NEW level \in Levels PROVE frontier'[level] = FrontierOrZero(after, level)
        <3>1. frontier[level] = FrontierOrZero(before, level)
            BY <1>7 DEF Mirrors
        <3>2. frontier'[level] = IF level = stored THEN hash ELSE frontier[level]
            BY <1>12, <2>2
        <3>3. /\ DOMAIN after = DOMAIN before \cup {stored}
              /\ \A l \in DOMAIN after : after[l] = IF l = stored THEN hash ELSE before[l]
            BY <2>3 DEF MapSet
        <3> QED BY <3>1, <3>2, <3>3 DEF FrontierOrZero
    <2> QED BY <1>13, <2>4 DEF Mirrors
<1>15. Follows(frontier', nextIndex', frontiers)
    BY <1>4, <1>11, <1>14 DEF Follows
<1>16. RootMirrored'
    BY <1>3, <1>4, <1>10, <1>11 DEF RootMirrored
<1>17. nextIndex' \in 0 .. Len(events')
    BY <1>1, <1>5, <1>11
<1> QED BY <1>2, <1>11, <1>13, <1>15, <1>16, <1>17

\* The client starts again.
LEMMA TreeInvRestarted == ASSUME TreeInv, Restarted PROVE TreeInv'
<1> USE DEF TreeInv
<1>1. PICK frontiers : History(frontiers, events, treeFrontier)
    OBVIOUS
<1>2. NewTree(frontier', leaves', root', nextIndex') /\ events' = events
      /\ treeFrontier' = treeFrontier /\ nextLeafIndex' = nextLeafIndex
    BY DEF Restarted, treeVars
<1>3. frontiers[0] = EmptyMap
    BY <1>1 DEF History
<1>4. Follows(frontier', nextIndex', frontiers)
      /\ frontier' = [level \in Levels |-> frontier'[level]]
    BY <1>2, <1>3, NewTreeFollows
<1>5. nextIndex' = 0 /\ root' = EmptyRoot
    BY <1>2 DEF NewTree
<1>6. 0 \in 0 .. Len(events)
    OBVIOUS
<1> QED BY <1>1, <1>2, <1>4, <1>5, <1>6 DEF RootMirrored

LEMMA TreeInvNext == TreeInv /\ [TreeClientNext]_treeClientVars => TreeInv'
<1> SUFFICES ASSUME TreeInv, [TreeClientNext]_treeClientVars PROVE TreeInv'
    OBVIOUS
<1>1. CASE \E leaf \in Leaves : Appended(leaf)
    BY <1>1, TreeInvAppended
<1>2. CASE Mirrored
    BY <1>2, TreeInvMirrored
<1>3. CASE Restarted
    BY <1>3, TreeInvRestarted
<1>4. CASE UNCHANGED treeClientVars
    BY <1>4 DEF TreeInv, RootMirrored, treeClientVars, treeVars, sdkVars
<1> QED BY <1>1, <1>2, <1>3, <1>4 DEF TreeClientNext

-----------------------------------------------------------------------------
(***************************************************************************)
(* The roots of the tree are all different.                                *)
(***************************************************************************)

\* On which sides of a pair a hash goes.
Paired(hash, other, side) ==
    IF side = "left" THEN Hash(hash, other)
    ELSE IF side = "right" THEN Hash(other, hash) ELSE Hash(hash, hash)

\* f hashes its way up from level from to level to.
Climbs(f, from, to, base, other, side) ==
    f = [level \in from .. to |->
             IF level = from THEN base ELSE Paired(f[level - 1], other[level], side[level])]

LEMMA ClimbExists ==
    ASSUME NEW from \in Nat, NEW to \in Nat, from <= to, NEW base, NEW other, NEW side
    PROVE  \E f : Climbs(f, from, to, base, other, side)
<1> DEFINE T == {m \in 0 .. to - from : \E f : Climbs(f, from, from + m, base, other, side)}
<1>1. 0 \in T
    <2> DEFINE f == [level \in from .. from + 0 |-> base]
    <2>1. Climbs(f, from, from + 0, base, other, side)
        BY DEF Climbs
    <2> HIDE DEF f
    <2> QED BY <2>1
<1>2. ASSUME NEW m \in 1 .. to - from, m - 1 \in T PROVE m \in T
    <2>1. PICK last \in Nat : last = from + (m - 1) /\ from + m = last + 1 /\ from <= last
        OBVIOUS
    <2>2. PICK f : Climbs(f, from, last, base, other, side)
        BY <1>2, <2>1
    <2>3. \A level \in from .. last :
              f[level] = IF level = from
                         THEN base
                         ELSE Paired(f[level - 1], other[level], side[level])
        BY <2>2 DEF Climbs
    <2> DEFINE g == [level \in from .. last + 1 |->
                         IF level = last + 1
                         THEN Paired(f[last], other[last + 1], side[last + 1])
                         ELSE f[level]]
    <2>4. \A level \in from .. last + 1 :
              g[level] = IF level = from
                         THEN base
                         ELSE Paired(g[level - 1], other[level], side[level])
        <3> TAKE level \in from .. last + 1
        <3>1. CASE level = last + 1
            <4>1. level - 1 \in from .. last + 1 /\ level - 1 = last /\ level # from
                BY <2>1, <3>1
            <4>2. g[level] = Paired(f[last], other[level], side[level])
                BY <3>1
            <4>3. g[level - 1] = f[last]
                BY <2>1, <4>1
            <4> HIDE DEF g
            <4> QED BY <4>1, <4>2, <4>3
        <3>2. CASE level # last + 1
            <4>1. level \in from .. last
                BY <2>1, <3>2
            <4>2. g[level] = f[level]
                BY <3>2
            <4>3. CASE level = from
                <5> HIDE DEF g
                <5> QED BY <2>3, <4>1, <4>2, <4>3
            <4>4. CASE level # from
                <5>1. level - 1 \in from .. last + 1 /\ level - 1 # last + 1
                    BY <2>1, <4>1, <4>4
                <5>2. g[level - 1] = f[level - 1]
                    BY <5>1
                <5> HIDE DEF g
                <5> QED BY <2>3, <4>1, <4>2, <4>4, <5>2
            <4> QED BY <4>3, <4>4
        <3> QED BY <3>1, <3>2
    <2>5. Climbs(g, from, last + 1, base, other, side)
        <3>1. g = [level \in from .. last + 1 |-> g[level]]
            OBVIOUS
        <3> HIDE DEF g
        <3> QED BY <2>4, <3>1 DEF Climbs
    <2> HIDE DEF g
    <2> QED BY <2>1, <2>5
<1>3. to - from \in T
    <2> HIDE DEF T
    <2>1. 0 .. to - from \subseteq T
        BY <1>1, <1>2, IntervalInduction
    <2> QED BY <2>1
<1> QED BY <1>3

\* ZeroHash at a level is the hash of two of the level below.
LEMMA ZeroHashes ==
    /\ ZeroHash[0] = ZeroHash0
    /\ \A level \in 1 .. TreeDepth - 1 :
           ZeroHash[level] = Hash(ZeroHash[level - 1], ZeroHash[level - 1])
<1> DEFINE Zeros(f) == f = [level \in Levels |->
                                IF level = 0 THEN ZeroHash0 ELSE Hash(f[level - 1], f[level - 1])]
<1>0. TreeDepth \in Nat /\ TreeDepth - 1 \in Nat /\ 0 <= TreeDepth - 1
    BY TreeAssumption
<1> DEFINE both == [level \in 0 .. TreeDepth - 1 |-> "both"]
<1>1. PICK g : Climbs(g, 0, TreeDepth - 1, ZeroHash0, both, both)
    <2> HIDE DEF both
    <2> QED BY <1>0, ClimbExists
<1>2. Zeros(g)
    BY <1>1 DEF Climbs, Paired, Levels
<1>3. Zeros(ZeroHash)
    <2>1. ZeroHash = CHOOSE h : Zeros(h)
        BY DEF ZeroHash
    <2> HIDE DEF Zeros
    <2> QED BY <1>2, <2>1
<1> QED BY <1>0, <1>3 DEF Levels

\* It is another at each level.
LEMMA ZerosApart == \A level \in 1 .. TreeDepth - 1 : ZeroHash[level - 1] # ZeroHash[level]
<1> DEFINE T == {level \in Nat : level > 0 => ZeroHash[level - 1] # ZeroHash[level]}
<1>0. TreeDepth \in Nat /\ TreeDepth - 1 \in Nat
    BY TreeAssumption
<1>1. 0 \in T
    OBVIOUS
<1>2. ASSUME NEW level \in 1 .. TreeDepth - 1, level - 1 \in T PROVE level \in T
    <2>1. ZeroHash[level] = Hash(ZeroHash[level - 1], ZeroHash[level - 1])
        BY ZeroHashes
    <2>2. CASE level = 1
        <3>1. ZeroHash[1] = Hash(ZeroHash0, ZeroHash0) /\ ZeroHash[0] = ZeroHash0
            BY <2>1, <2>2, ZeroHashes
        <3> QED BY <2>2, <3>1, LeavesAssumption
    <2>3. CASE level # 1
        <3>1. level - 1 \in 1 .. TreeDepth - 1
            BY <1>0, <2>3
        <3>2. ZeroHash[level - 1] = Hash(ZeroHash[level - 1 - 1], ZeroHash[level - 1 - 1])
            BY <3>1, ZeroHashes
        <3>3. ZeroHash[level - 1 - 1] # ZeroHash[level - 1]
            BY <1>2, <3>1
        <3> QED BY <2>1, <3>2, <3>3 DEF Hash
    <2> QED BY <2>2, <2>3
<1>3. 0 .. TreeDepth - 1 \subseteq T
    <2> HIDE DEF T
    <2> QED BY <1>0, <1>1, <1>2, IntervalInduction
<1> QED BY <1>0, <1>3

\* The fold of process-level, unfolded.
LEMMA CarriedUnfolds ==
    ASSUME NEW f, NEW leaf, NEW index
    PROVE  \E carried :
               /\ carried[0] = leaf
               /\ \A level \in 1 .. TreeDepth :
                      carried[level] = Hash(FrontierOrZero(f, level - 1), carried[level - 1])
               /\ carried[StoredLevel(index)] = HashAtStoredLevel(f, leaf, index)
<1> DEFINE Carried(h) ==
               h = [level \in 0 .. TreeDepth |->
                        IF level = 0
                        THEN leaf
                        ELSE Hash(FrontierOrZero(f, level - 1), h[level - 1])]
           siblings == [level \in 0 .. TreeDepth |-> FrontierOrZero(f, level - 1)]
           sides == [level \in 0 .. TreeDepth |-> "right"]
           carried == CHOOSE h : Carried(h)
<1>0. TreeDepth \in Nat /\ 0 <= TreeDepth
    BY TreeAssumption
<1>1. PICK h : Climbs(h, 0, TreeDepth, leaf, siblings, sides)
    <2> HIDE DEF siblings, sides
    <2> QED BY <1>0, ClimbExists
<1>2. Carried(h)
    BY <1>1 DEF Climbs, Paired
<1>3. Carried(carried)
    <2> HIDE DEF Carried
    <2> QED BY <1>2
<1>4. HashAtStoredLevel(f, leaf, index) = carried[StoredLevel(index)]
    BY DEF HashAtStoredLevel
<1> HIDE DEF carried
<1>5. /\ carried[0] = leaf
      /\ \A level \in 1 .. TreeDepth :
             carried[level] = Hash(FrontierOrZero(f, level - 1), carried[level - 1])
    BY <1>0, <1>3
<1> QED BY <1>4, <1>5

\* What the tree holds for an index: of the levels of a frontier, none has a zero hash of
\* its level or of one above.
FrontierSound(f) ==
    \A level \in DOMAIN f :
        /\ level \in Levels
        /\ \A above \in level .. TreeDepth - 1 : f[level] # ZeroHash[above]
        /\ level = 0 => f[0] \in Leaves

\* carried is what the fold of process-level hashes a leaf to, level by level.
CarriedUp(carried, f) ==
    /\ carried[0] \in Leaves
    /\ \A level \in 1 .. TreeDepth :
           carried[level] = Hash(FrontierOrZero(f, level - 1), carried[level - 1])
    /\ \A level \in 0 .. TreeDepth : \A above \in level .. TreeDepth - 1 :
           carried[level] # ZeroHash[above]

LEMMA CarriedExists ==
    ASSUME NEW f, NEW leaf \in Leaves, NEW index \in Nat
    PROVE  \E carried : /\ CarriedUp(carried, f)
                        /\ carried[0] = leaf
                        /\ carried[StoredLevel(index)] = HashAtStoredLevel(f, leaf, index)
<1>0. TreeDepth \in Nat /\ 0 <= TreeDepth
    BY TreeAssumption
<1>1. PICK carried :
          /\ carried[0] = leaf
          /\ \A level \in 1 .. TreeDepth :
                 carried[level] = Hash(FrontierOrZero(f, level - 1), carried[level - 1])
          /\ carried[StoredLevel(index)] = HashAtStoredLevel(f, leaf, index)
    BY CarriedUnfolds
<1> DEFINE T == {level \in Nat :
                     \A above \in level .. TreeDepth - 1 : carried[level] # ZeroHash[above]}
<1>2. 0 .. TreeDepth \subseteq T
    <2>1. 0 \in T
        BY <1>0, <1>1, LeavesAssumption DEF Levels
    <2>2. ASSUME NEW level \in 1 .. TreeDepth, level - 1 \in T PROVE level \in T
        <3> SUFFICES ASSUME NEW above \in level .. TreeDepth - 1
                     PROVE  carried[level] # ZeroHash[above]
            OBVIOUS
        <3>1. ZeroHash[above] = Hash(ZeroHash[above - 1], ZeroHash[above - 1])
            <4>1. above \in 1 .. TreeDepth - 1
                BY <1>0
            <4> QED BY <4>1, ZeroHashes
        <3>2. carried[level - 1] # ZeroHash[above - 1]
            <4>1. above - 1 \in level - 1 .. TreeDepth - 1
                BY <1>0
            <4> QED BY <2>2, <4>1
        <3> QED BY <1>1, <3>1, <3>2 DEF Hash
    <2> HIDE DEF T
    <2> QED BY <1>0, <2>1, <2>2, IntervalInduction
<1>3. CarriedUp(carried, f)
    BY <1>1, <1>2 DEF CarriedUp
<1> QED BY <1>1, <1>3

\* The fold of compute-root-level, unfolded.
LEMMA RaisedUnfolds ==
    ASSUME NEW index \in Nat, NEW hash, StoredLevel(index) < TreeDepth
    PROVE  \E up : /\ up[StoredLevel(index)] = hash
                   /\ \A level \in StoredLevel(index) + 1 .. TreeDepth - 1 :
                          up[level] = HashWithZero(up[level - 1], ZeroHash[level],
                                                   BitAtLevel(index, level))
                   /\ up[TreeDepth - 1] = RootAbove(hash, index)
<1> DEFINE stored == StoredLevel(index)
           Raised(h) ==
               h = [level \in stored .. TreeDepth - 1 |->
                        IF level = stored
                        THEN hash
                        ELSE HashWithZero(h[level - 1], ZeroHash[level], BitAtLevel(index, level))]
           zeros == [level \in stored .. TreeDepth - 1 |-> ZeroHash[level]]
           sides == [level \in stored .. TreeDepth - 1 |->
                         IF BitAtLevel(index, level) = 0 THEN "left" ELSE "right"]
           up == CHOOSE h : Raised(h)
<1>0. TreeDepth \in Nat /\ stored \in Nat /\ TreeDepth - 1 \in Nat /\ stored <= TreeDepth - 1
    BY WalkEndsStored, TreeAssumption DEF IsStored
<1>1. RootAbove(hash, index) = up[TreeDepth - 1]
    BY <1>0 DEF RootAbove
<1> HIDE DEF stored
<1>2. PICK h : Climbs(h, stored, TreeDepth - 1, hash, zeros, sides)
    <2> HIDE DEF zeros, sides
    <2> QED BY <1>0, ClimbExists
<1>3. Raised(h)
    BY <1>2 DEF Climbs, Paired, HashWithZero
<1>4. Raised(up)
    <2> HIDE DEF Raised
    <2> QED BY <1>3
<1> HIDE DEF up
<1>5. /\ up[stored] = hash
      /\ \A level \in stored + 1 .. TreeDepth - 1 :
             up[level] = HashWithZero(up[level - 1], ZeroHash[level], BitAtLevel(index, level))
    BY <1>0, <1>4
<1> QED BY <1>1, <1>5 DEF stored

\* up is what the fold of compute-root-level makes of a hash, from its level on.
RaisedUp(up, index) ==
    /\ \A level \in StoredLevel(index) + 1 .. TreeDepth - 1 :
           up[level] = HashWithZero(up[level - 1], ZeroHash[level], BitAtLevel(index, level))
    /\ \A level \in StoredLevel(index) .. TreeDepth - 1 : \A above \in level .. TreeDepth - 1 :
           up[level] # ZeroHash[above]

LEMMA RaisedExists ==
    ASSUME NEW index \in Nat, NEW hash, StoredLevel(index) < TreeDepth,
           \A above \in StoredLevel(index) .. TreeDepth - 1 : hash # ZeroHash[above]
    PROVE  \E up : /\ RaisedUp(up, index)
                   /\ up[StoredLevel(index)] = hash
                   /\ up[TreeDepth - 1] = RootAbove(hash, index)
<1> DEFINE stored == StoredLevel(index)
<1>0. TreeDepth \in Nat /\ stored \in Nat /\ TreeDepth - 1 \in Nat /\ stored <= TreeDepth - 1
    BY WalkEndsStored, TreeAssumption DEF IsStored
<1>1. PICK up :
          /\ up[stored] = hash
          /\ \A level \in stored + 1 .. TreeDepth - 1 :
                 up[level] = HashWithZero(up[level - 1], ZeroHash[level], BitAtLevel(index, level))
          /\ up[TreeDepth - 1] = RootAbove(hash, index)
    BY RaisedUnfolds
<1> HIDE DEF stored
<1> DEFINE T == {m \in Nat : \A above \in stored + m .. TreeDepth - 1 :
                                 up[stored + m] # ZeroHash[above]}
           last == TreeDepth - 1 - stored
<1>2. 0 .. last \subseteq T
    <2>1. 0 \in T
        BY <1>0, <1>1 DEF stored
    <2>2. ASSUME NEW m \in 1 .. last, m - 1 \in T PROVE m \in T
        <3> DEFINE level == stored + m
        <3>0. level \in stored + 1 .. TreeDepth - 1 /\ level - 1 = stored + (m - 1)
              /\ level \in Nat
            BY <1>0
        <3> SUFFICES ASSUME NEW above \in level .. TreeDepth - 1
                     PROVE  up[level] # ZeroHash[above]
            OBVIOUS
        <3> HIDE DEF level
        <3>1. ZeroHash[above] = Hash(ZeroHash[above - 1], ZeroHash[above - 1])
            <4>1. above \in 1 .. TreeDepth - 1
                BY <1>0, <3>0
            <4> QED BY <4>1, ZeroHashes
        <3>2. up[level - 1] # ZeroHash[above - 1]
            <4>1. above - 1 \in level - 1 .. TreeDepth - 1
                BY <1>0, <3>0
            <4> QED BY <2>2, <3>0, <4>1
        <3>3. up[level] = HashWithZero(up[level - 1], ZeroHash[level], BitAtLevel(index, level))
            BY <1>1, <3>0
        <3> QED BY <3>1, <3>2, <3>3 DEF Hash, HashWithZero
    <2> HIDE DEF T
    <2> QED BY <1>0, <2>1, <2>2, IntervalInduction
<1>3. RaisedUp(up, index)
    <2>1. ASSUME NEW level \in stored .. TreeDepth - 1, NEW above \in level .. TreeDepth - 1
          PROVE  up[level] # ZeroHash[above]
        <3>1. level - stored \in 0 .. last /\ stored + (level - stored) = level
            BY <1>0
        <3>2. level - stored \in T
            BY <1>2, <3>1
        <3> QED BY <3>1, <3>2
    <2> QED BY <1>1, <2>1 DEF RaisedUp, stored
<1> QED BY <1>1, <1>3 DEF stored

LEMMA BitIsZeroOrOne ==
    ASSUME NEW index \in Nat, NEW level \in Levels
    PROVE  ShiftedRight(index, level) \in Nat /\ BitAtLevel(index, level) \in {0, 1}
<1>1. level \in 0 .. TreeDepth
    BY TreeAssumption DEF Levels
<1>2. PICK shifted \in Nat : shifted = ShiftedRight(index, level)
    BY <1>1, ShiftedByOneMore
<1>3. shifted % 2 \in {0, 1}
    OBVIOUS
<1> QED BY <1>2, <1>3 DEF BitAtLevel

\* Two indices the tree has room for are equal when all their bits are.
LEMMA SameBits ==
    ASSUME NEW m \in 0 .. MaxLeaves - 1, NEW n \in 0 .. MaxLeaves - 1,
           \A level \in Levels : BitAtLevel(m, level) = BitAtLevel(n, level)
    PROVE  m = n
<1> DEFINE T == {k \in Nat : ShiftedRight(m, TreeDepth - k) = ShiftedRight(n, TreeDepth - k)}
<1>0. TreeDepth \in Nat /\ TreeDepth - 0 = TreeDepth /\ MaxLeaves \in Nat /\ m \in Nat /\ n \in Nat
    BY TreeAssumption
<1>1. 0 \in T
    BY <1>0, TreeAssumption
<1>2. ASSUME NEW k \in 1 .. TreeDepth, k - 1 \in T PROVE k \in T
    <2>1. PICK level \in Levels : level = TreeDepth - k /\ level + 1 = TreeDepth - (k - 1)
        BY <1>0 DEF Levels
    <2>2. ShiftedRight(m, level + 1) = ShiftedRight(n, level + 1)
        BY <1>2, <2>1
    <2>3. /\ ShiftedRight(m, level + 1) = ShiftedRight(m, level) \div 2
          /\ ShiftedRight(n, level + 1) = ShiftedRight(n, level) \div 2
        BY <1>0, ShiftedByOneMore
    <2>4. ShiftedRight(m, level) % 2 = ShiftedRight(n, level) % 2
        BY DEF BitAtLevel
    <2>5. ShiftedRight(m, level) \in Nat /\ ShiftedRight(n, level) \in Nat
        BY <1>0, BitIsZeroOrOne
    <2>6. \A a, b \in Nat : a \div 2 = b \div 2 /\ a % 2 = b % 2 => a = b
        OBVIOUS
    <2>7. ShiftedRight(m, level) = ShiftedRight(n, level)
        BY <2>2, <2>3, <2>4, <2>5, <2>6
    <2> QED BY <2>1, <2>7
<1>3. TreeDepth \in T
    <2> HIDE DEF T
    <2>1. 0 .. TreeDepth \subseteq T
        BY <1>0, <1>1, <1>2, IntervalInduction
    <2> QED BY <1>0, <2>1
<1>4. ShiftedRight(m, 0) = ShiftedRight(n, 0)
    BY <1>0, <1>3
<1> QED BY <1>0, <1>4, ShiftedByOneMore

\* They are equal when their lowest 0 bits, and the bits above, are in the same places.
LEMMA SameIndex ==
    ASSUME NEW m \in 0 .. MaxLeaves - 1, NEW n \in 0 .. MaxLeaves - 1,
           StoredLevel(m) = StoredLevel(n),
           \A level \in StoredLevel(n) + 1 .. TreeDepth - 1 :
               BitAtLevel(m, level) = BitAtLevel(n, level)
    PROVE  m = n
<1>1. IsStored(m, StoredLevel(n)) /\ IsStored(n, StoredLevel(n))
    <2>1. m \in Nat /\ n \in Nat
        BY TreeAssumption
    <2> QED BY <2>1, WalkEndsStored
<1>2. ASSUME NEW level \in Levels PROVE BitAtLevel(m, level) = BitAtLevel(n, level)
    <2>1. PICK stored \in Nat : stored = StoredLevel(n)
        BY <1>1, TreeAssumption DEF IsStored
    <2>2. CASE level < stored
        <3>1. level \in 0 .. stored - 1
            BY <2>1, <2>2 DEF Levels
        <3> QED BY <1>1, <2>1, <3>1 DEF IsStored
    <2>3. CASE level = stored
        <3>1. level < TreeDepth
            BY TreeAssumption DEF Levels
        <3> QED BY <1>1, <2>1, <2>3, <3>1 DEF IsStored
    <2>4. CASE level > stored
        <3>1. level \in stored + 1 .. TreeDepth - 1
            BY <2>1, <2>4, TreeAssumption DEF Levels
        <3> QED BY <2>1, <3>1
    <2> QED BY <2>1, <2>2, <2>3, <2>4 DEF Levels
<1> QED BY <1>2, SameBits

\* How append-leaf made a root for an index: out of a frontier, by both folds.
Built(r, index, f, carried, up) ==
    /\ FrontierSound(f)
    /\ CarriedUp(carried, f)
    /\ IF StoredLevel(index) = TreeDepth
       THEN r = carried[TreeDepth]
       ELSE /\ RaisedUp(up, index)
            /\ up[StoredLevel(index)] = carried[StoredLevel(index)]
            /\ r = up[TreeDepth - 1]

\* r is a root the contract announces for the leaf at an index.
Rooted(r, index) == \E f, carried, up : Built(r, index, f, carried, up)

LEMMA AnnouncedIsRooted ==
    ASSUME NEW f, FrontierSound(f), NEW leaf \in Leaves, NEW index \in Nat
    PROVE  Rooted(RootAbove(HashAtStoredLevel(f, leaf, index), index), index)
<1> DEFINE stored == StoredLevel(index)
           hash == HashAtStoredLevel(f, leaf, index)
<1>0. TreeDepth \in Nat /\ stored \in 0 .. TreeDepth
    BY WalkEndsStored, TreeAssumption DEF IsStored
<1>1. PICK carried : CarriedUp(carried, f) /\ carried[stored] = hash
    BY CarriedExists
<1>2. CASE stored = TreeDepth
    <2>1. RootAbove(hash, index) = carried[TreeDepth]
        BY <1>1, <1>2 DEF RootAbove
    <2>2. Built(RootAbove(hash, index), index, f, carried, carried)
        BY <1>1, <1>2, <2>1 DEF Built
    <2> QED BY <2>2 DEF Rooted
<1>3. CASE stored # TreeDepth
    <2>1. stored < TreeDepth
        BY <1>0, <1>3
    <2>2. \A above \in stored .. TreeDepth - 1 : hash # ZeroHash[above]
        BY <1>0, <1>1 DEF CarriedUp
    <2> HIDE DEF hash
    <2>3. PICK up : /\ RaisedUp(up, index)
                    /\ up[stored] = hash
                    /\ up[TreeDepth - 1] = RootAbove(hash, index)
        BY <2>1, <2>2, RaisedExists
    <2>4. Built(RootAbove(hash, index), index, f, carried, up)
        BY <1>1, <1>3, <2>3 DEF Built
    <2> QED BY <2>4 DEF Rooted, hash
<1> QED BY <1>2, <1>3

\* What append-leaf stores keeps the frontier sound.
LEMMA FrontierStaysSound ==
    ASSUME NEW f, FrontierSound(f), NEW leaf \in Leaves, NEW index \in Nat,
           StoredLevel(index) # TreeDepth
    PROVE  FrontierSound(MapSet(f, StoredLevel(index), HashAtStoredLevel(f, leaf, index)))
<1> DEFINE hash == HashAtStoredLevel(f, leaf, index)
<1>0. PICK stored \in Levels : stored = StoredLevel(index)
    BY WalkEndsStored, TreeAssumption DEF IsStored, Levels
<1>1. PICK carried : CarriedUp(carried, f) /\ carried[stored] = hash
    BY <1>0, CarriedExists
<1>2. /\ \A above \in stored .. TreeDepth - 1 : hash # ZeroHash[above]
      /\ stored = 0 => hash \in Leaves
    BY <1>0, <1>1, TreeAssumption DEF CarriedUp, Levels
<1> HIDE DEF hash
<1>3. /\ DOMAIN MapSet(f, stored, hash) = DOMAIN f \cup {stored}
      /\ \A level \in DOMAIN MapSet(f, stored, hash) :
             MapSet(f, stored, hash)[level] = IF level = stored THEN hash ELSE f[level]
    BY DEF MapSet
<1>4. FrontierSound(MapSet(f, stored, hash))
    BY <1>2, <1>3 DEF FrontierSound
<1> QED BY <1>0, <1>4 DEF hash

\* From which side a zero hash came, and what was hashed with it, can be told.
LEMMA SameWithZero ==
    ASSUME NEW a, NEW b, NEW zero, a # zero, b # zero, NEW i \in {0, 1}, NEW j \in {0, 1},
           HashWithZero(a, zero, i) = HashWithZero(b, zero, j)
    PROVE  i = j /\ a = b
<1>1. CASE i = 0 /\ j = 0
    BY <1>1 DEF HashWithZero, Hash
<1>2. CASE i = 1 /\ j = 1
    BY <1>2 DEF HashWithZero, Hash
<1>3. CASE i = 0 /\ j = 1
    BY <1>3 DEF HashWithZero, Hash
<1>4. CASE i = 1 /\ j = 0
    BY <1>4 DEF HashWithZero, Hash
<1> QED BY <1>1, <1>2, <1>3, <1>4

\* Two roots above hashes that were stored differ, from the top down to the higher of the
\* two levels: where one is made with a zero hash on the left, so is the other.
LEMMA ApartBelowTop ==
    ASSUME NEW r, NEW m \in 0 .. MaxLeaves - 1, NEW n \in 0 .. MaxLeaves - 1, m # n,
           NEW f, NEW c, NEW u, Built(r, m, f, c, u),
           NEW g, NEW d, NEW v, Built(r, n, g, d, v),
           StoredLevel(m) <= StoredLevel(n), StoredLevel(n) < TreeDepth
    PROVE  FALSE
<1>0. PICK s \in Nat, t \in Nat, top \in Nat :
          /\ s = StoredLevel(m) /\ t = StoredLevel(n) /\ top = TreeDepth - 1
          /\ s <= t /\ t <= top /\ m \in Nat /\ n \in Nat /\ TreeDepth = top + 1
    <2>1. m \in Nat /\ n \in Nat /\ TreeDepth \in Nat /\ TreeDepth - 1 \in Nat
        BY TreeAssumption
    <2>2. StoredLevel(m) \in Nat /\ StoredLevel(n) \in Nat
        BY <2>1, WalkEndsStored DEF IsStored
    <2> QED BY <2>1, <2>2
<1>1. /\ FrontierSound(f) /\ CarriedUp(c, f) /\ RaisedUp(u, m) /\ u[s] = c[s] /\ r = u[top]
      /\ FrontierSound(g) /\ CarriedUp(d, g) /\ RaisedUp(v, n) /\ v[t] = d[t] /\ r = v[top]
    BY <1>0 DEF Built
<1>2. ASSUME NEW level \in t + 1 .. top, u[level] = v[level]
      PROVE  BitAtLevel(m, level) = BitAtLevel(n, level) /\ u[level - 1] = v[level - 1]
    <2>1. /\ u[level] = HashWithZero(u[level - 1], ZeroHash[level], BitAtLevel(m, level))
          /\ v[level] = HashWithZero(v[level - 1], ZeroHash[level], BitAtLevel(n, level))
        BY <1>0, <1>1 DEF RaisedUp
    <2>2. u[level - 1] # ZeroHash[level] /\ v[level - 1] # ZeroHash[level]
        <3>1. /\ level - 1 \in s .. TreeDepth - 1 /\ level - 1 \in t .. TreeDepth - 1
              /\ level \in level - 1 .. TreeDepth - 1
            BY <1>0
        <3> QED BY <1>0, <1>1, <3>1 DEF RaisedUp
    <2>3. BitAtLevel(m, level) \in {0, 1} /\ BitAtLevel(n, level) \in {0, 1}
        <3>1. level \in Levels
            BY <1>0 DEF Levels
        <3> QED BY <1>0, <3>1, BitIsZeroOrOne
    <2>4. HashWithZero(u[level - 1], ZeroHash[level], BitAtLevel(m, level))
              = HashWithZero(v[level - 1], ZeroHash[level], BitAtLevel(n, level))
        BY <1>2, <2>1
    <2> QED BY <2>2, <2>3, <2>4, SameWithZero
<1> DEFINE T == {k \in Nat : u[top - k] = v[top - k]}
<1>3. 0 .. top - t \subseteq T
    <2>1. 0 \in T
        BY <1>0, <1>1
    <2>2. ASSUME NEW k \in 1 .. top - t, k - 1 \in T PROVE k \in T
        <3>1. top - (k - 1) \in t + 1 .. top /\ top - (k - 1) - 1 = top - k
            BY <1>0
        <3>2. u[top - (k - 1)] = v[top - (k - 1)]
            BY <2>2
        <3> QED BY <1>2, <3>1, <3>2
    <2> HIDE DEF T
    <2> QED BY <1>0, <2>1, <2>2, IntervalInduction
<1>4. \A level \in t .. top : u[level] = v[level]
    <2> TAKE level \in t .. top
    <2>1. top - level \in 0 .. top - t /\ top - (top - level) = level
        BY <1>0
    <2>2. top - level \in T
        BY <1>3, <2>1
    <2> QED BY <2>1, <2>2
<1>5. CASE s = t
    <2>1. \A level \in t + 1 .. top : BitAtLevel(m, level) = BitAtLevel(n, level)
        BY <1>0, <1>2, <1>4
    <2> QED BY <1>0, <1>5, <2>1, SameIndex
<1>6. CASE s < t
    <2>1. u[t] = d[t]
        BY <1>0, <1>1, <1>4
    <2>2. u[t] = HashWithZero(u[t - 1], ZeroHash[t], BitAtLevel(m, t))
        <3>1. t \in s + 1 .. TreeDepth - 1
            BY <1>0, <1>6
        <3> QED BY <1>0, <1>1, <3>1 DEF RaisedUp
    <2>3. d[t] = Hash(FrontierOrZero(g, t - 1), d[t - 1])
        <3>1. t \in 1 .. TreeDepth
            BY <1>0, <1>6
        <3> QED BY <1>1, <3>1 DEF CarriedUp
    <2>4. d[t - 1] # ZeroHash[t]
        <3>1. t - 1 \in 0 .. TreeDepth /\ t \in t - 1 .. TreeDepth - 1
            BY <1>0, <1>6
        <3> QED BY <1>1, <3>1 DEF CarriedUp
    <2>5. FrontierOrZero(g, t - 1) # ZeroHash[t]
        <3>1. t \in 1 .. TreeDepth - 1 /\ t \in t - 1 .. TreeDepth - 1
            BY <1>0, <1>6
        <3>2. CASE t - 1 \in DOMAIN g
            <4>1. g[t - 1] # ZeroHash[t]
                BY <1>1, <3>1, <3>2 DEF FrontierSound
            <4> QED BY <3>2, <4>1 DEF FrontierOrZero
        <3>3. CASE t - 1 \notin DOMAIN g
            BY <3>1, <3>3, ZerosApart DEF FrontierOrZero
        <3> QED BY <3>2, <3>3
    <2>6. CASE BitAtLevel(m, t) = 0
        <3>1. u[t] = <<u[t - 1], ZeroHash[t]>>
            BY <2>2, <2>6 DEF HashWithZero, Hash
        <3> QED BY <2>1, <2>3, <2>4, <3>1 DEF Hash
    <2>7. CASE BitAtLevel(m, t) # 0
        <3>1. u[t] = <<ZeroHash[t], u[t - 1]>>
            BY <2>2, <2>7 DEF HashWithZero, Hash
        <3> QED BY <2>1, <2>3, <2>5, <3>1 DEF Hash
    <2> QED BY <2>6, <2>7
<1> QED BY <1>0, <1>5, <1>6

\* The last leaf the tree has room for hashes once more than the others, down to a leaf
\* that would be a hash.
LEMMA ApartFromLast ==
    ASSUME NEW r, NEW m \in 0 .. MaxLeaves - 1, NEW n \in 0 .. MaxLeaves - 1, m # n,
           NEW f, NEW c, NEW u, Built(r, m, f, c, u),
           NEW g, NEW d, NEW v, Built(r, n, g, d, v),
           StoredLevel(n) = TreeDepth
    PROVE  FALSE
<1>0. PICK s \in Nat, top \in Nat :
          s = StoredLevel(m) /\ top = TreeDepth - 1 /\ s <= TreeDepth /\ TreeDepth = top + 1
    <2>1. m \in Nat /\ TreeDepth \in Nat /\ TreeDepth - 1 \in Nat
        BY TreeAssumption
    <2> QED BY <2>1, WalkEndsStored DEF IsStored
<1>1. s <= top
    <2>1. CASE s = TreeDepth
        <3>1. \A level \in StoredLevel(n) + 1 .. TreeDepth - 1 : FALSE
            BY <1>0
        <3> QED BY <1>0, <2>1, <3>1, SameIndex
    <2> QED BY <1>0, <2>1
<1>2. /\ CarriedUp(c, f) /\ RaisedUp(u, m) /\ u[s] = c[s] /\ r = u[top]
      /\ FrontierSound(g) /\ CarriedUp(d, g) /\ r = d[top + 1]
    BY <1>0, <1>1 DEF Built
<1>3. \A level \in 0 .. top : /\ d[level + 1] = Hash(FrontierOrZero(g, level), d[level])
                              /\ \A above \in level .. top : d[level] # ZeroHash[above]
    <2> TAKE level \in 0 .. top
    <2>1. level + 1 \in 1 .. TreeDepth /\ level + 1 - 1 = level /\ level \in 0 .. TreeDepth
        BY <1>0
    <2>2. d[level + 1] = Hash(FrontierOrZero(g, level), d[level])
        BY <1>2, <2>1 DEF CarriedUp
    <2> QED BY <1>0, <1>2, <2>1, <2>2 DEF CarriedUp
<1> DEFINE T == {k \in Nat : u[top - k] = d[top - k + 1]}
           U == {k \in Nat : c[s - k] = d[s - k + 1]}
<1>4. 0 .. top - s \subseteq T
    <2>1. 0 \in T
        BY <1>0, <1>2
    <2>2. ASSUME NEW k \in 1 .. top - s, k - 1 \in T PROVE k \in T
        <3>1. PICK level \in s + 1 .. top : level = top - (k - 1) /\ level - 1 = top - k
            BY <1>0
        <3>2. u[level] = HashWithZero(u[level - 1], ZeroHash[level], BitAtLevel(m, level))
            BY <1>0, <1>2 DEF RaisedUp
        <3>3. u[level] = Hash(FrontierOrZero(g, level), d[level])
            BY <1>0, <1>3, <2>2, <3>1
        <3>4. d[level] # ZeroHash[level]
            BY <1>0, <1>3
        <3>5. u[level - 1] = d[level]
            BY <3>2, <3>3, <3>4 DEF HashWithZero, Hash
        <3>6. top - k + 1 = level
            BY <1>0, <3>1
        <3> QED BY <3>1, <3>5, <3>6
    <2> HIDE DEF T
    <2> QED BY <1>0, <1>1, <2>1, <2>2, IntervalInduction
<1>5. 0 .. s \subseteq U
    <2>1. 0 \in U
        <3>1. top - s \in T
            BY <1>0, <1>1, <1>4
        <3>2. top - (top - s) = s /\ s - 0 = s
            BY <1>0
        <3> QED BY <1>2, <3>1, <3>2
    <2>2. ASSUME NEW k \in 1 .. s, k - 1 \in U PROVE k \in U
        <3>1. PICK level \in 1 .. s : level = s - (k - 1) /\ level - 1 = s - k
            BY <1>0
        <3>2. c[level] = Hash(FrontierOrZero(f, level - 1), c[level - 1])
            BY <1>0, <1>2 DEF CarriedUp
        <3>3. c[level] = Hash(FrontierOrZero(g, level), d[level])
            BY <1>0, <1>1, <1>3, <2>2, <3>1
        <3>4. c[level - 1] = d[level]
            BY <3>2, <3>3 DEF Hash
        <3>5. s - k + 1 = level
            BY <1>0, <3>1
        <3> QED BY <3>1, <3>4, <3>5
    <2> HIDE DEF U
    <2> QED BY <1>0, <2>1, <2>2, IntervalInduction
<1>6. c[0] = Hash(FrontierOrZero(g, 0), d[0])
    <2>1. s \in U /\ s - s = 0
        BY <1>0, <1>5
    <2>2. c[0] = d[0 + 1]
        BY <2>1
    <2> QED BY <1>0, <1>3, <2>2
<1>7. c[0] \in Leaves /\ d[0] \in Leaves /\ FrontierOrZero(g, 0) \in Leaves \cup {ZeroHash0}
    BY <1>2, ZeroHashes DEF CarriedUp, FrontierSound, FrontierOrZero
<1> QED BY <1>6, <1>7, LeavesAssumption

\* No root is that of another number of leaves,
LEMMA RootsApart ==
    ASSUME NEW r, NEW m \in 0 .. MaxLeaves - 1, NEW n \in 0 .. MaxLeaves - 1,
           Rooted(r, m), Rooted(r, n)
    PROVE  m = n
<1> SUFFICES ASSUME m # n PROVE FALSE
    OBVIOUS
<1>1. PICK f, c, u : Built(r, m, f, c, u)
    BY DEF Rooted
<1>2. PICK g, d, v : Built(r, n, g, d, v)
    BY DEF Rooted
<1>3. /\ StoredLevel(m) \in Nat /\ StoredLevel(n) \in Nat /\ TreeDepth \in Nat
      /\ StoredLevel(m) <= TreeDepth /\ StoredLevel(n) <= TreeDepth
    <2>1. m \in Nat /\ n \in Nat /\ TreeDepth \in Nat
        BY TreeAssumption
    <2> QED BY <2>1, WalkEndsStored DEF IsStored
<1>4. StoredLevel(n) # TreeDepth /\ StoredLevel(m) # TreeDepth
    BY <1>1, <1>2, ApartFromLast
<1>5. ~(StoredLevel(m) <= StoredLevel(n)) /\ ~(StoredLevel(n) <= StoredLevel(m))
    BY <1>1, <1>2, <1>3, <1>4, ApartBelowTop
<1> QED BY <1>3, <1>5

\* or of the empty tree.
LEMMA NotEmptyRoot ==
    ASSUME NEW r, NEW n \in 0 .. MaxLeaves - 1, Rooted(r, n)
    PROVE  r # EmptyRoot
<1> SUFFICES ASSUME r = EmptyRoot PROVE FALSE
    OBVIOUS
<1>0. PICK s \in Nat, top \in Nat :
          s = StoredLevel(n) /\ top = TreeDepth - 1 /\ s <= TreeDepth /\ TreeDepth = top + 1
    <2>1. n \in Nat /\ TreeDepth \in Nat /\ TreeDepth - 1 \in Nat
        BY TreeAssumption
    <2> QED BY <2>1, WalkEndsStored DEF IsStored
<1>1. PICK f, c, u : Built(r, n, f, c, u)
    BY DEF Rooted
<1>2. CarriedUp(c, f) /\ EmptyRoot = Hash(ZeroHash[top], ZeroHash[top])
    BY <1>0, <1>1 DEF Built, EmptyRoot
<1>3. ASSUME NEW level \in top .. TreeDepth, r = c[level] PROVE FALSE
    <2>1. CASE level = 0
        <3>1. top = 0 /\ c[0] \in Leaves /\ ZeroHash[top] = ZeroHash0
            BY <1>0, <1>2, <2>1, ZeroHashes DEF CarriedUp
        <3> QED BY <1>2, <1>3, <2>1, <3>1, LeavesAssumption
    <2>2. CASE level # 0
        <3>1. level \in 1 .. TreeDepth /\ level - 1 \in 0 .. TreeDepth /\ top \in level - 1 .. top
            BY <1>0, <2>2
        <3>2. c[level] = Hash(FrontierOrZero(f, level - 1), c[level - 1])
            BY <1>2, <3>1 DEF CarriedUp
        <3>3. c[level - 1] # ZeroHash[top]
            BY <1>0, <1>2, <3>1 DEF CarriedUp
        <3> QED BY <1>2, <1>3, <3>2, <3>3 DEF Hash
    <2> QED BY <2>1, <2>2
<1>4. CASE s = TreeDepth
    <2>1. r = c[TreeDepth]
        BY <1>0, <1>1, <1>4 DEF Built
    <2> QED BY <1>0, <1>3, <2>1
<1>5. CASE s = top
    <2>1. r = c[top]
        BY <1>0, <1>1, <1>5 DEF Built
    <2> QED BY <1>0, <1>3, <2>1
<1>6. CASE s < top
    <2>1. RaisedUp(u, n) /\ r = u[top]
        BY <1>0, <1>1, <1>6 DEF Built
    <2>2. u[top] = HashWithZero(u[top - 1], ZeroHash[top], BitAtLevel(n, top))
        <3>1. top \in s + 1 .. TreeDepth - 1
            BY <1>0, <1>6
        <3> QED BY <1>0, <2>1, <3>1 DEF RaisedUp
    <2>3. u[top - 1] # ZeroHash[top]
        <3>1. top - 1 \in s .. TreeDepth - 1 /\ top \in top - 1 .. TreeDepth - 1
            BY <1>0, <1>6
        <3> QED BY <1>0, <2>1, <3>1 DEF RaisedUp
    <2> QED BY <1>2, <2>1, <2>2, <2>3 DEF HashWithZero, Hash
<1> QED BY <1>0, <1>4, <1>5, <1>6

-----------------------------------------------------------------------------
\* Every announced root was made for its index out of a sound frontier, and the known
\* roots are these and the empty one.
ApartInv ==
    /\ FrontierSound(treeFrontier)
    /\ \A i \in 1 .. Len(events) : Rooted(events[i].newRoot, i - 1)
    /\ IsFiniteSet(knownRoots)
    /\ knownRoots = {EmptyRoot} \cup {events[i].newRoot : i \in 1 .. Len(events)}
    /\ Cardinality(knownRoots) = nextLeafIndex + 1

LEMMA ApartInvInit == TreeClientInit => ApartInv
<1> SUFFICES ASSUME TreeClientInit PROVE ApartInv
    OBVIOUS
<1>1. /\ events = <<>> /\ Len(events) = 0 /\ knownRoots = {EmptyRoot} /\ nextLeafIndex = 0
      /\ treeFrontier = EmptyMap
    BY DEF TreeClientInit, MerkleTreeInit
<1>2. FrontierSound(treeFrontier)
    BY <1>1 DEF FrontierSound, EmptyMap
<1>3. IsFiniteSet(knownRoots) /\ Cardinality(knownRoots) = 1
    BY <1>1, FS_Singleton
<1> QED BY <1>1, <1>2, <1>3 DEF ApartInv

\* A leaf appended makes a root that was not known.
LEMMA ApartInvAppended ==
    ASSUME TreeInv, ApartInv, NEW leaf \in Leaves, Appended(leaf) PROVE ApartInv'
<1>1. PICK S : events \in Seq(S)
    BY DEF TreeInv
<1>2. PICK n \in Nat : n = nextLeafIndex /\ n = Len(events) /\ n \in 0 .. MaxLeaves - 1
    BY <1>1, TreeAssumption DEF TreeInv, Appended, AppendLeaf
<1>3. PICK r : r = currentRoot'
    OBVIOUS
<1>4. /\ Len(events') = n + 1 /\ events'[n + 1].newRoot = r
      /\ \A i \in 1 .. n : events'[i] = events[i]
    <2>1. PICK event : event.newRoot = r /\ events' = Append(events, event)
        BY <1>3 DEF Appended
    <2>2. events \in Seq(S \cup {event})
        BY <1>1
    <2> QED BY <1>2, <2>1, <2>2
<1>5. Rooted(r, n)
    <2>1. r = RootAbove(HashAtStoredLevel(treeFrontier, leaf, n), n)
        BY <1>2, <1>3 DEF Appended, AppendLeaf
    <2> QED BY <1>2, <2>1, AnnouncedIsRooted DEF ApartInv
<1>6. FrontierSound(treeFrontier')
    <2>1. CASE StoredLevel(n) = TreeDepth
        <3>1. treeFrontier' = treeFrontier
            BY <1>2, <2>1 DEF Appended, AppendLeaf
        <3> QED BY <3>1 DEF ApartInv
    <2>2. CASE StoredLevel(n) # TreeDepth
        <3>1. treeFrontier' = MapSet(treeFrontier, StoredLevel(n),
                                     HashAtStoredLevel(treeFrontier, leaf, n))
            BY <1>2, <2>2 DEF Appended, AppendLeaf
        <3> QED BY <1>2, <2>2, <3>1, FrontierStaysSound DEF ApartInv
    <2> QED BY <2>1, <2>2
<1>7. ASSUME NEW i \in 1 .. n + 1 PROVE Rooted(events'[i].newRoot, i - 1)
    <2>1. CASE i = n + 1
        BY <1>2, <1>4, <1>5, <2>1
    <2>2. CASE i # n + 1
        <3>1. i \in 1 .. n
            BY <1>2, <2>2
        <3> QED BY <1>2, <1>4, <3>1 DEF ApartInv
    <2> QED BY <2>1, <2>2
<1>8. r \notin knownRoots
    <2>1. r # EmptyRoot
        BY <1>2, <1>5, NotEmptyRoot
    <2>2. ASSUME NEW i \in 1 .. n, r = events[i].newRoot PROVE FALSE
        <3>1. Rooted(r, i - 1)
            BY <1>2, <2>2 DEF ApartInv
        <3>2. i - 1 \in 0 .. MaxLeaves - 1 /\ i - 1 # n
            BY <1>2, TreeAssumption
        <3> QED BY <1>2, <1>5, <3>1, <3>2, RootsApart
    <2> QED BY <1>2, <2>1, <2>2 DEF ApartInv
<1>9. knownRoots' = knownRoots \cup {r} /\ nextLeafIndex' = n + 1
    BY <1>2, <1>3 DEF Appended, AppendLeaf
<1>10. knownRoots' = {EmptyRoot} \cup {events'[i].newRoot : i \in 1 .. Len(events')}
    <2>1. ASSUME NEW x PROVE x \in knownRoots' <=> \/ x = EmptyRoot
                                                   \/ \E i \in 1 .. n + 1 : x = events'[i].newRoot
        <3>1. x \in knownRoots <=> x = EmptyRoot \/ \E i \in 1 .. n : x = events[i].newRoot
            BY <1>2 DEF ApartInv
        <3>2. \A i \in 1 .. n + 1 : i \in 1 .. n \/ i = n + 1
            BY <1>2
        <3>3. n + 1 \in 1 .. n + 1 /\ \A i \in 1 .. n : i \in 1 .. n + 1
            BY <1>2
        <3> QED BY <1>4, <1>9, <3>1, <3>2, <3>3
    <2> QED BY <1>4, <2>1
<1>11. IsFiniteSet(knownRoots') /\ Cardinality(knownRoots') = n + 1 + 1
    BY <1>2, <1>8, <1>9, FS_AddElement DEF ApartInv
<1>12. EmptyRoot' = EmptyRoot
    BY DEF EmptyRoot
<1> QED BY <1>4, <1>6, <1>7, <1>9, <1>10, <1>11, <1>12 DEF ApartInv

LEMMA ApartInvNext ==
    TreeInv /\ ApartInv /\ [TreeClientNext]_treeClientVars => ApartInv'
<1> SUFFICES ASSUME TreeInv, ApartInv, [TreeClientNext]_treeClientVars PROVE ApartInv'
    OBVIOUS
<1>1. CASE \E leaf \in Leaves : Appended(leaf)
    BY <1>1, ApartInvAppended
<1>2. CASE Mirrored \/ Restarted \/ UNCHANGED treeClientVars
    <2>1. /\ treeFrontier' = treeFrontier /\ events' = events /\ knownRoots' = knownRoots
          /\ nextLeafIndex' = nextLeafIndex
        BY <1>2 DEF Mirrored, Restarted, treeClientVars, treeVars
    <2> QED BY <2>1 DEF ApartInv
<1> QED BY <1>1, <1>2 DEF TreeClientNext

\* After as many leaves the client's tree has the root the contract announced then and
\* at no other time, for a tree of any depth, any leaves, the same again among them, and
\* clients that start again at any time.
THEOREM ClientMirrorsContract == TreeClientSpec => []RootsAgree
<1>1. TreeInv /\ ApartInv => RootsAgree
    <2> SUFFICES ASSUME TreeInv, ApartInv PROVE RootsTellApart
        BY DEF RootsAgree, TreeInv
    <2>1. PICK S : events \in Seq(S)
        BY DEF TreeInv
    <2>2. DOMAIN events = 1 .. Len(events) /\ Len(events) \in Nat /\ Len(events) <= MaxLeaves
        BY <2>1 DEF TreeInv
    <2>3. ASSUME NEW i \in 1 .. Len(events), NEW j \in 1 .. Len(events),
                 events[i].newRoot = events[j].newRoot
          PROVE  i = j
        <3>1. i - 1 \in 0 .. MaxLeaves - 1 /\ j - 1 \in 0 .. MaxLeaves - 1
            BY <2>2, TreeAssumption
        <3>2. Rooted(events[i].newRoot, i - 1) /\ Rooted(events[i].newRoot, j - 1)
            BY <2>3 DEF ApartInv
        <3>3. i - 1 = j - 1
            BY <3>1, <3>2, RootsApart
        <3> QED BY <3>3
    <2> QED BY <2>2, <2>3 DEF ApartInv, RootsTellApart
<1> QED BY <1>1, TreeInvInit, TreeInvNext, ApartInvInit, ApartInvNext, PTL DEF TreeClientSpec

-----------------------------------------------------------------------------
(***************************************************************************)
(* What the proofs of leaves lead to.                                      *)
(***************************************************************************)

\* layers are those of the tree over leaves seq, as generateProof builds them.
NextLayer(layer, level) ==
    [parent \in {index \div 2 : index \in DOMAIN layer} |->
         Hash(NodeOrEmpty(layer, 2 * parent, level), NodeOrEmpty(layer, 2 * parent + 1, level))]

Layers(layers, seq) ==
    /\ layers[0] = [index \in 0 .. Len(seq) - 1 |-> seq[index + 1]]
    /\ \A level \in 1 .. TreeDepth - 1 : layers[level] = NextLayer(layers[level - 1], level - 1)

LEMMA LayersUnfold == Layers(Layer, leaves)
<1> DEFINE first == [index \in 0 .. Len(leaves) - 1 |-> leaves[index + 1]]
           Unfolds(f, m) ==
               f = [level \in 0 .. m |->
                        IF level = 0 THEN first ELSE NextLayer(f[level - 1], level - 1)]
           T == {m \in Nat : \E f : Unfolds(f, m)}
<1>0. TreeDepth \in Nat /\ TreeDepth - 1 \in Nat
    BY TreeAssumption
<1>1. 0 \in T
    <2> DEFINE only == [level \in 0 .. 0 |-> first]
    <2>1. Unfolds(only, 0)
        BY DEF NextLayer
    <2> HIDE DEF only, Unfolds
    <2> QED BY <2>1
<1>2. ASSUME NEW m \in 1 .. TreeDepth - 1, m - 1 \in T PROVE m \in T
    <2>1. PICK f : Unfolds(f, m - 1)
        BY <1>2
    <2> HIDE DEF first
    <2>2. \A level \in 0 .. m - 1 :
              f[level] = IF level = 0 THEN first ELSE NextLayer(f[level - 1], level - 1)
        BY <2>1
    <2> DEFINE g == [level \in 0 .. m |->
                         IF level = m THEN NextLayer(f[m - 1], m - 1) ELSE f[level]]
    <2>3. \A level \in 0 .. m :
              g[level] = IF level = 0 THEN first ELSE NextLayer(g[level - 1], level - 1)
        <3> TAKE level \in 0 .. m
        <3>1. CASE level = m
            <4>1. m - 1 \in 0 .. m /\ m - 1 # m /\ m # 0
                OBVIOUS
            <4>2. g[m - 1] = f[m - 1] /\ g[m] = NextLayer(f[m - 1], m - 1)
                BY <4>1
            <4> QED BY <3>1, <4>1, <4>2
        <3>2. CASE level # m
            <4>1. level \in 0 .. m - 1 /\ g[level] = f[level]
                BY <3>2
            <4>2. level # 0 => g[level - 1] = f[level - 1]
                BY <3>2
            <4> HIDE DEF g
            <4> QED BY <2>2, <4>1, <4>2
        <3> QED BY <3>1, <3>2
    <2>4. Unfolds(g, m)
        <3>1. g = [level \in 0 .. m |-> g[level]]
            OBVIOUS
        <3> HIDE DEF g
        <3> QED BY <2>3, <3>1
    <2> HIDE DEF g, Unfolds
    <2> QED BY <2>4
<1>3. PICK f : Unfolds(f, TreeDepth - 1)
    <2> HIDE DEF Unfolds
    <2>1. 0 .. TreeDepth - 1 \subseteq T
        <3> HIDE DEF T
        <3> QED BY <1>0, <1>1, <1>2, IntervalInduction
    <2> QED BY <1>0, <2>1
<1>4. Unfolds(Layer, TreeDepth - 1)
    <2>1. Layer = CHOOSE h : Unfolds(h, TreeDepth - 1)
        BY DEF Layer, Levels, NextLayer
    <2> HIDE DEF Unfolds
    <2> QED BY <1>3, <2>1
<1>5. Layer[0] = first /\ \A level \in 1 .. TreeDepth - 1 :
          Layer[level] = NextLayer(Layer[level - 1], level - 1)
    <2> HIDE DEF first
    <2> QED BY <1>0, <1>4
<1> QED BY <1>5 DEF Layers

\* A node that has all its leaves is there, and is the hash of two that have all theirs.
LEMMA CompleteNodes ==
    ASSUME NEW S, NEW seq \in Seq(S), NEW layers, Layers(layers, seq)
    PROVE  \A level \in Levels : \A node \in 0 .. ShiftedRight(Len(seq), level) - 1 :
               /\ node \in DOMAIN layers[level]
               /\ level > 0 =>
                      /\ 2 * node + 1 \in 0 .. ShiftedRight(Len(seq), level - 1) - 1
                      /\ 2 * node \in 0 .. ShiftedRight(Len(seq), level - 1) - 1
                      /\ layers[level][node] = Hash(layers[level - 1][2 * node],
                                                    layers[level - 1][2 * node + 1])
<1> DEFINE n == Len(seq)
           Complete(level) == 0 .. ShiftedRight(n, level) - 1
           Made(level, node) ==
               /\ 2 * node + 1 \in Complete(level - 1)
               /\ 2 * node \in Complete(level - 1)
               /\ layers[level][node] = Hash(layers[level - 1][2 * node],
                                             layers[level - 1][2 * node + 1])
           T == {level \in Nat : \A node \in Complete(level) :
                     node \in DOMAIN layers[level] /\ (level > 0 => Made(level, node))}
<1>0. TreeDepth \in Nat /\ TreeDepth - 1 \in Nat /\ n \in Nat
    BY TreeAssumption
<1> HIDE DEF n
<1>1. 0 \in T
    <2>1. DOMAIN layers[0] = 0 .. n - 1
        BY DEF Layers, n
    <2>2. ShiftedRight(n, 0) = n
        BY <1>0, ShiftedByOneMore
    <2>3. \A node \in Complete(0) : node \in DOMAIN layers[0]
        BY <2>1, <2>2
    <2> HIDE DEF Made, Complete
    <2> QED BY <2>3
<1>2. ASSUME NEW level \in 1 .. TreeDepth - 1, level - 1 \in T PROVE level \in T
    <2>1. layers[level] = NextLayer(layers[level - 1], level - 1)
        BY DEF Layers
    <2>2. PICK below \in Nat : below = ShiftedRight(n, level - 1)
        BY <1>0, BitIsZeroOrOne DEF Levels
    <2>3. ShiftedRight(n, level) = below \div 2
        <3>1. level - 1 \in Levels /\ level - 1 + 1 = level
            BY <1>0 DEF Levels
        <3> QED BY <1>0, <2>2, <3>1, ShiftedByOneMore
    <2>4. ASSUME NEW node \in Complete(level)
          PROVE  node \in DOMAIN layers[level] /\ Made(level, node)
        <3>1. /\ 2 * node + 1 \in Complete(level - 1) /\ 2 * node \in Complete(level - 1)
              /\ (2 * node) \div 2 = node
            BY <2>2, <2>3
        <3>2. 2 * node \in DOMAIN layers[level - 1] /\ 2 * node + 1 \in DOMAIN layers[level - 1]
            BY <1>2, <3>1
        <3>3. node \in {index \div 2 : index \in DOMAIN layers[level - 1]}
            BY <3>1, <3>2
        <3>4. /\ node \in DOMAIN layers[level]
              /\ layers[level][node] = Hash(NodeOrEmpty(layers[level - 1], 2 * node, level - 1),
                                            NodeOrEmpty(layers[level - 1], 2 * node + 1, level - 1))
            BY <2>1, <3>3 DEF NextLayer
        <3> QED BY <3>1, <3>2, <3>4 DEF NodeOrEmpty
    <2> QED BY <2>4
<1>3. 0 .. TreeDepth - 1 \subseteq T
    <2> HIDE DEF T
    <2> QED BY <1>0, <1>1, <1>2, IntervalInduction
<1> QED BY <1>0, <1>3 DEF Levels, n

\* It stays when more leaves come.
LEMMA CompleteNodesStay ==
    ASSUME NEW S, NEW seq \in Seq(S), NEW longer \in Seq(S), Len(seq) <= Len(longer),
           \A i \in 1 .. Len(seq) : longer[i] = seq[i],
           NEW a, Layers(a, seq), NEW b, Layers(b, longer)
    PROVE  \A level \in Levels : \A node \in 0 .. ShiftedRight(Len(seq), level) - 1 :
               a[level][node] = b[level][node]
<1> DEFINE n == Len(seq)
           m == Len(longer)
           T == {level \in Nat : /\ ShiftedRight(n, level) <= ShiftedRight(m, level)
                                 /\ \A node \in 0 .. ShiftedRight(n, level) - 1 :
                                        a[level][node] = b[level][node]}
<1>0. TreeDepth \in Nat /\ TreeDepth - 1 \in Nat /\ n \in Nat /\ m \in Nat
    BY TreeAssumption
<1>1. 0 \in T
    <2>1. ShiftedRight(n, 0) = n /\ ShiftedRight(m, 0) = m
        BY <1>0, ShiftedByOneMore
    <2>2. \A node \in 0 .. n - 1 : a[0][node] = seq[node + 1] /\ b[0][node] = longer[node + 1]
        BY <1>0 DEF Layers
    <2>3. \A node \in 0 .. n - 1 : node + 1 \in 1 .. Len(seq)
        BY <1>0
    <2> QED BY <2>1, <2>2, <2>3
<1>2. ASSUME NEW level \in 1 .. TreeDepth - 1, level - 1 \in T PROVE level \in T
    <2>1. level \in Levels /\ level - 1 \in Levels /\ level - 1 + 1 = level
        BY <1>0 DEF Levels
    <2>2. /\ ShiftedRight(n, level) = ShiftedRight(n, level - 1) \div 2
          /\ ShiftedRight(m, level) = ShiftedRight(m, level - 1) \div 2
        BY <1>0, <2>1, ShiftedByOneMore
    <2>3. PICK x \in Nat, y \in Nat :
              x = ShiftedRight(n, level - 1) /\ y = ShiftedRight(m, level - 1) /\ x <= y
        BY <1>0, <1>2, <2>1, BitIsZeroOrOne
    <2>4. x \div 2 <= y \div 2 /\ x \div 2 \in Nat /\ y \div 2 \in Nat
        BY <2>3
    <2>5. ASSUME NEW node \in 0 .. ShiftedRight(n, level) - 1
          PROVE  a[level][node] = b[level][node]
        <3>1. /\ 2 * node \in 0 .. x - 1 /\ 2 * node + 1 \in 0 .. x - 1
              /\ a[level][node] = Hash(a[level - 1][2 * node], a[level - 1][2 * node + 1])
            BY <2>1, <2>3, CompleteNodes
        <3>2. node \in 0 .. ShiftedRight(m, level) - 1
            BY <2>2, <2>3, <2>4
        <3>3. b[level][node] = Hash(b[level - 1][2 * node], b[level - 1][2 * node + 1])
            BY <2>1, <3>2, CompleteNodes
        <3> QED BY <1>2, <2>3, <3>1, <3>3
    <2> QED BY <2>2, <2>3, <2>4, <2>5
<1>3. 0 .. TreeDepth - 1 \subseteq T
    <2> HIDE DEF T
    <2> QED BY <1>0, <1>1, <1>2, IntervalInduction
<1> QED BY <1>0, <1>3 DEF Levels

\* The index after one differs from it up to that one's lowest 0 bit, by one more.
LEMMA ShiftOfNext ==
    ASSUME NEW index \in Nat
    PROVE  \A level \in 0 .. TreeDepth :
               ShiftedRight(index + 1, level) = IF level <= StoredLevel(index)
                                                THEN ShiftedRight(index, level) + 1
                                                ELSE ShiftedRight(index, level)
<1> DEFINE stored == StoredLevel(index)
           T == {level \in Nat :
                     ShiftedRight(index + 1, level) = IF level <= stored
                                                      THEN ShiftedRight(index, level) + 1
                                                      ELSE ShiftedRight(index, level)}
<1>0. TreeDepth \in Nat /\ index + 1 \in Nat /\ IsStored(index, stored) /\ stored \in Nat
    BY WalkEndsStored, TreeAssumption DEF IsStored
<1>1. 0 \in T
    BY <1>0, ShiftedByOneMore
<1>2. ASSUME NEW level \in 1 .. TreeDepth, level - 1 \in T PROVE level \in T
    <2>1. PICK lower \in Levels : lower = level - 1 /\ lower + 1 = level
        BY <1>0 DEF Levels
    <2>2. PICK x \in Nat, y \in Nat :
              x = ShiftedRight(index, lower) /\ y = ShiftedRight(index + 1, lower)
        BY <1>0, BitIsZeroOrOne
    <2>3. ShiftedRight(index, level) = x \div 2 /\ ShiftedRight(index + 1, level) = y \div 2
        BY <1>0, <2>1, <2>2, ShiftedByOneMore
    <2>4. CASE level <= stored
        <3>1. y = x + 1
            BY <1>0, <1>2, <2>1, <2>2, <2>4
        <3>2. lower \in 0 .. stored - 1
            BY <1>0, <2>1, <2>4 DEF Levels
        <3>3. x % 2 = 1
            BY <1>0, <2>2, <3>2 DEF IsStored, BitAtLevel
        <3>4. y \div 2 = x \div 2 + 1
            BY <3>1, <3>3
        <3> QED BY <2>3, <2>4, <3>4
    <2>5. CASE level = stored + 1
        <3>1. y = x + 1
            BY <1>0, <1>2, <2>1, <2>2, <2>5
        <3>2. lower = stored /\ stored < TreeDepth
            BY <1>0, <2>1, <2>5
        <3>3. x % 2 = 0
            BY <1>0, <2>2, <3>2 DEF IsStored, BitAtLevel
        <3>4. y \div 2 = x \div 2
            BY <3>1, <3>3
        <3> QED BY <1>0, <2>3, <2>5, <3>4
    <2>6. CASE level > stored + 1
        <3>1. y = x
            BY <1>0, <1>2, <2>1, <2>2, <2>6
        <3> QED BY <1>0, <2>3, <2>6, <3>1
    <2> HIDE DEF T
    <2> QED BY <1>0, <2>4, <2>5, <2>6
<1>3. 0 .. TreeDepth \subseteq T
    <2> HIDE DEF T
    <2> QED BY <1>0, <1>1, <1>2, IntervalInduction
<1> QED BY <1>3

\* Where the number of leaves has a 1 bit, a frontier has the hash of the last node that
\* has all its leaves.
Completes(own, layers, n) ==
    \A level \in Levels :
        BitAtLevel(n, level) = 1 => own[level] = layers[level][ShiftedRight(n, level) - 1]

\* The walk up from a new leaf hashes one such node after another,
LEMMA WalkCompletes ==
    ASSUME NEW S, NEW seq \in Seq(S), NEW leaf, NEW layers, Layers(layers, seq),
           NEW longer, Layers(longer, Append(seq, leaf)),
           frontier = [level \in Levels |-> frontier[level]],
           Completes(frontier, layers, Len(seq)), WalkEnds(Len(seq)) < TreeDepth
    PROVE  WalkedHash(leaf, Len(seq)) =
               longer[WalkEnds(Len(seq))][ShiftedRight(Len(seq), WalkEnds(Len(seq)))]
<1>0. PICK n \in Nat, stored \in Nat :
          /\ n = Len(seq) /\ stored = WalkEnds(n) /\ stored = StoredLevel(n)
          /\ IsStored(n, stored) /\ stored < TreeDepth /\ TreeDepth \in Nat
    BY WalkEndsStored, TreeAssumption DEF IsStored
<1>1. Mirrors(frontier, frontier)
    <2>1. DOMAIN frontier = Levels
        OBVIOUS
    <2>2. \A level \in Levels : FrontierOrZero(frontier, level) = frontier[level]
        BY <2>1 DEF FrontierOrZero
    <2> QED BY <2>2 DEF Mirrors
<1>2. PICK h : /\ h[0] = leaf
               /\ \A level \in 1 .. TreeDepth :
                      h[level] = Hash(FrontierOrZero(frontier, level - 1), h[level - 1])
               /\ h[stored] = WalkedHash(leaf, n)
    <2>1. WalkedHash(leaf, n) = HashAtStoredLevel(frontier, leaf, n)
        BY <1>0, <1>1, SameHash
    <2> QED BY <1>0, <2>1, CarriedUnfolds
<1>3. PICK T0 : T0 = S \cup {leaf}
    OBVIOUS
<1>4. /\ seq \in Seq(T0) /\ Append(seq, leaf) \in Seq(T0) /\ Len(Append(seq, leaf)) = n + 1
      /\ \A i \in 1 .. n : Append(seq, leaf)[i] = seq[i]
      /\ Append(seq, leaf)[n + 1] = leaf
    BY <1>0, <1>3
<1>5. \A level \in Levels : \A node \in 0 .. ShiftedRight(n, level) - 1 :
          layers[level][node] = longer[level][node]
    <2>1. PICK next : next = Append(seq, leaf)
        OBVIOUS
    <2>2. /\ seq \in Seq(T0) /\ next \in Seq(T0) /\ Len(seq) <= Len(next)
          /\ \A i \in 1 .. Len(seq) : next[i] = seq[i]
          /\ Layers(layers, seq) /\ Layers(longer, next)
        BY <1>0, <1>4, <2>1
    <2> QED BY <1>0, <2>2, CompleteNodesStay
<1> DEFINE T == {level \in Nat : h[level] = longer[level][ShiftedRight(n, level)]}
<1>6. 0 \in T
    <2>1. ShiftedRight(n, 0) = n /\ n \in 0 .. Len(Append(seq, leaf)) - 1
        BY <1>0, <1>4, ShiftedByOneMore
    <2>2. longer[0][n] = leaf
        BY <1>4, <2>1 DEF Layers
    <2> QED BY <1>2, <2>1, <2>2
<1>7. ASSUME NEW level \in 1 .. stored, level - 1 \in T PROVE level \in T
    <2>1. PICK lower \in Levels :
              lower = level - 1 /\ lower + 1 = level /\ lower \in 0 .. stored - 1
        BY <1>0 DEF Levels
    <2>2. level \in Levels /\ level \in 1 .. TreeDepth /\ level > 0 /\ level <= StoredLevel(n)
        BY <1>0 DEF Levels
    <2>3. PICK x \in Nat : x = ShiftedRight(n, lower) /\ x % 2 = 1
        BY <1>0, <2>1, BitIsZeroOrOne DEF IsStored, BitAtLevel
    <2>4. PICK node \in Nat : ShiftedRight(n, level) = node /\ x = 2 * node + 1
        <3>1. ShiftedRight(n, level) = x \div 2
            BY <2>1, <2>3, ShiftedByOneMore
        <3>2. x \div 2 \in Nat /\ x = 2 * (x \div 2) + 1
            BY <2>3
        <3> QED BY <3>1, <3>2
    <2>5. frontier[lower] = longer[lower][2 * node]
        <3>1. frontier[lower] = layers[lower][x - 1]
            BY <1>0, <2>1, <2>3 DEF Completes, BitAtLevel
        <3>2. x - 1 = 2 * node /\ x - 1 \in 0 .. ShiftedRight(n, lower) - 1
            BY <2>3, <2>4
        <3> QED BY <1>5, <3>1, <3>2
    <2>6. h[lower] = longer[lower][2 * node + 1]
        BY <1>7, <2>1, <2>3, <2>4
    <2>7. longer[level][node] = Hash(longer[lower][2 * node], longer[lower][2 * node + 1])
        <3>1. ShiftedRight(n + 1, level) = node + 1
            BY <1>0, <2>2, <2>4, ShiftOfNext
        <3>2. PICK next : next = Append(seq, leaf)
            OBVIOUS
        <3>3. next \in Seq(T0) /\ Layers(longer, next)
            BY <1>4, <3>2
        <3>4. node \in 0 .. ShiftedRight(Len(next), level) - 1
            BY <1>4, <3>1, <3>2
        <3>5. longer[level][node] =
                  Hash(longer[level - 1][2 * node], longer[level - 1][2 * node + 1])
            BY <2>2, <3>3, <3>4, CompleteNodes
        <3> QED BY <2>1, <3>5
    <2>8. h[level] = Hash(frontier[lower], h[lower])
        BY <1>1, <1>2, <2>1, <2>2 DEF Mirrors
    <2> QED BY <2>4, <2>5, <2>6, <2>7, <2>8
<1>8. 0 .. stored \subseteq T
    <2> HIDE DEF T
    <2> QED BY <1>0, <1>6, <1>7, IntervalInduction
<1>9. stored \in T
    BY <1>0, <1>8
<1> QED BY <1>0, <1>2, <1>9

\* and the frontier it leaves behind has the last of them.
LEMMA InsertCompletes ==
    ASSUME NEW S, NEW seq \in Seq(S), NEW leaf, NEW layers, Layers(layers, seq),
           NEW longer, Layers(longer, Append(seq, leaf)),
           frontier = [level \in Levels |-> frontier[level]],
           Completes(frontier, layers, Len(seq)),
           NEW after,
           after = [frontier EXCEPT ![InsertLevel(Len(seq))] = WalkedHash(leaf, Len(seq))]
    PROVE  Completes(after, longer, Len(seq) + 1)
<1>0. PICK n \in Nat, stored \in Nat :
          /\ n = Len(seq) /\ stored = WalkEnds(n) /\ stored = StoredLevel(n)
          /\ IsStored(n, stored) /\ stored <= TreeDepth /\ TreeDepth \in Nat /\ n + 1 \in Nat
    BY WalkEndsStored, TreeAssumption DEF IsStored
<1> SUFFICES ASSUME NEW level \in Levels, BitAtLevel(n + 1, level) = 1
             PROVE  after[level] = longer[level][ShiftedRight(n + 1, level) - 1]
    BY <1>0 DEF Completes
<1>1. PICK x \in Nat, y \in Nat :
          /\ x = ShiftedRight(n, level) /\ y = ShiftedRight(n + 1, level) /\ y % 2 = 1
          /\ y = IF level <= stored THEN x + 1 ELSE x
    <2>1. level \in 0 .. TreeDepth
        BY <1>0 DEF Levels
    <2> QED BY <1>0, <2>1, BitIsZeroOrOne, ShiftOfNext DEF BitAtLevel
<1>2. ~(level < stored)
    <2> SUFFICES ASSUME level < stored PROVE FALSE
        OBVIOUS
    <2>1. x % 2 = 1 /\ y = x + 1
        <3>1. level \in 0 .. stored - 1
            BY <1>0 DEF Levels
        <3> QED BY <1>0, <1>1, <3>1 DEF IsStored, BitAtLevel
    <2> QED BY <1>1, <2>1
<1>3. level < TreeDepth /\ level \in Nat
    BY <1>0 DEF Levels
<1>4. CASE level = stored
    <2>1. InsertLevel(n) = level /\ y = x + 1
        BY <1>0, <1>1, <1>3, <1>4 DEF InsertLevel
    <2>2. after[level] = WalkedHash(leaf, n)
        BY <1>0, <2>1
    <2>3. WalkedHash(leaf, n) = longer[level][x]
        BY <1>0, <1>1, <1>3, <1>4, WalkCompletes
    <2> QED BY <1>1, <2>1, <2>2, <2>3
<1>5. CASE level > stored
    <2>1. InsertLevel(n) = stored /\ stored # level /\ y = x
        BY <1>0, <1>1, <1>3, <1>5 DEF InsertLevel
    <2>2. after[level] = frontier[level]
        BY <1>0, <2>1
    <2>3. frontier[level] = layers[level][x - 1]
        BY <1>0, <1>1, <2>1 DEF Completes, BitAtLevel
    <2>4. layers[level][x - 1] = longer[level][x - 1]
        <3>1. PICK U : U = S \cup {leaf}
            OBVIOUS
        <3>2. PICK next : next = Append(seq, leaf)
            OBVIOUS
        <3>3. /\ seq \in Seq(U) /\ next \in Seq(U) /\ Len(seq) <= Len(next)
              /\ \A i \in 1 .. Len(seq) : next[i] = seq[i]
              /\ Layers(layers, seq) /\ Layers(longer, next)
            BY <1>0, <3>1, <3>2
        <3>4. x - 1 \in 0 .. ShiftedRight(Len(seq), level) - 1
            BY <1>0, <1>1, <2>1
        <3> QED BY <3>3, <3>4, CompleteNodesStay
    <2> QED BY <1>1, <2>1, <2>2, <2>3, <2>4
<1> QED BY <1>0, <1>2, <1>3, <1>4, <1>5

-----------------------------------------------------------------------------
\* The nodes of a level are those above the leaves.
LEMMA LayerDomains ==
    ASSUME NEW S, NEW seq \in Seq(S), NEW layers, Layers(layers, seq)
    PROVE  \A level \in Levels :
               DOMAIN layers[level] = {ShiftedRight(i, level) : i \in 0 .. Len(seq) - 1}
<1> DEFINE T == {level \in Nat :
                     DOMAIN layers[level] = {ShiftedRight(i, level) : i \in 0 .. Len(seq) - 1}}
<1>0. TreeDepth \in Nat /\ TreeDepth - 1 \in Nat /\ Len(seq) \in Nat
    BY TreeAssumption
<1>1. 0 \in T
    <2>1. \A i \in 0 .. Len(seq) - 1 : ShiftedRight(i, 0) = i
        BY <1>0, ShiftedByOneMore
    <2>2. DOMAIN layers[0] = 0 .. Len(seq) - 1
        BY DEF Layers
    <2> QED BY <2>1, <2>2
<1>2. ASSUME NEW level \in 1 .. TreeDepth - 1, level - 1 \in T PROVE level \in T
    <2>1. level - 1 \in Levels /\ level - 1 + 1 = level
        BY <1>0 DEF Levels
    <2>2. \A i \in 0 .. Len(seq) - 1 :
              ShiftedRight(i, level) = ShiftedRight(i, level - 1) \div 2
        BY <1>0, <2>1, ShiftedByOneMore
    <2>3. DOMAIN layers[level] = {index \div 2 : index \in DOMAIN layers[level - 1]}
        BY DEF Layers, NextLayer
    <2>4. DOMAIN layers[level] =
              {ShiftedRight(i, level - 1) \div 2 : i \in 0 .. Len(seq) - 1}
        BY <1>2, <2>3
    <2> QED BY <2>2, <2>4
<1>3. 0 .. TreeDepth - 1 \subseteq T
    <2> HIDE DEF T
    <2> QED BY <1>0, <1>1, <1>2, IntervalInduction
<1> QED BY <1>0, <1>3 DEF Levels

\* A proof leads from its leaf, and from no other, to the top node above the leaf.
LEMMA ProofLeads ==
    ASSUME NEW S, leaves \in Seq(S), NEW i \in 0 .. Len(leaves) - 1, NEW leaf, NEW expected,
           expected = Layer[TreeDepth - 1][ShiftedRight(i, TreeDepth - 1)]
    PROVE  VerifyProof(GenerateProof(i), leaf, expected) <=> leaf = leaves[i + 1]
<1> DEFINE proof == GenerateProof(i)
           Leads(f) ==
               f = [step \in 0 .. TreeDepth - 1 |->
                        IF step = 0
                        THEN leaf
                        ELSE IF proof[step].isRight = 1
                             THEN Hash(proof[step].element, f[step - 1])
                             ELSE Hash(f[step - 1], proof[step].element)]
           current == CHOOSE f : Leads(f)
           node(level) == Layer[level][ShiftedRight(i, level)]
           elements == [step \in 1 .. TreeDepth - 1 |-> proof[step].element]
           sides == [step \in 1 .. TreeDepth - 1 |->
                         IF proof[step].isRight = 1 THEN "right" ELSE "left"]
           T == {level \in Nat : (current[level] = node(level)) <=> (leaf = leaves[i + 1])}
<1>0. TreeDepth \in Nat /\ TreeDepth - 1 \in Nat /\ Len(leaves) \in Nat /\ i \in Nat
      /\ 0 <= TreeDepth - 1
    BY TreeAssumption
<1>1. VerifyProof(proof, leaf, expected) <=>
          Len(proof) = TreeDepth - 1 /\ current[TreeDepth - 1] = expected
    BY DEF VerifyProof
<1>2. \A step \in 1 .. TreeDepth - 1 :
          LET isRight == BitAtLevel(i, step - 1)
              at == ShiftedRight(i, step - 1)
          IN  /\ proof[step].isRight = isRight
              /\ proof[step].element = NodeOrEmpty(Layer[step - 1],
                                                   IF isRight = 1 THEN at - 1 ELSE at + 1, step - 1)
    BY DEF GenerateProof
<1>3. Len(proof) = TreeDepth - 1
    <2> DEFINE R == {proof[step] : step \in 1 .. TreeDepth - 1}
    <2>1. proof = [step \in 1 .. TreeDepth - 1 |-> proof[step]]
        BY DEF GenerateProof
    <2> HIDE DEF proof
    <2>2. proof \in [1 .. TreeDepth - 1 -> R] /\ DOMAIN proof = 1 .. TreeDepth - 1
        BY <2>1
    <2>3. proof \in Seq(R)
        BY <1>0, <2>2
    <2> HIDE DEF R
    <2> QED BY <1>0, <2>2, <2>3
<1> HIDE DEF proof
<1>4. PICK f : Climbs(f, 0, TreeDepth - 1, leaf, elements, sides)
    <2> HIDE DEF elements, sides
    <2> QED BY <1>0, ClimbExists
<1>5. Leads(f)
    <2>1. \A step \in 0 .. TreeDepth - 1 : step # 0 =>
              Paired(f[step - 1], elements[step], sides[step]) =
                  IF proof[step].isRight = 1
                  THEN Hash(proof[step].element, f[step - 1])
                  ELSE Hash(f[step - 1], proof[step].element)
        BY <1>0 DEF Paired
    <2> HIDE DEF elements, sides
    <2> QED BY <1>4, <2>1 DEF Climbs
<1>6. Leads(current)
    <2> HIDE DEF Leads
    <2> QED BY <1>5
<1> HIDE DEF current
<1>7. /\ current[0] = leaf
      /\ \A step \in 1 .. TreeDepth - 1 :
             current[step] = IF proof[step].isRight = 1
                             THEN Hash(proof[step].element, current[step - 1])
                             ELSE Hash(current[step - 1], proof[step].element)
    BY <1>0, <1>6
<1> HIDE DEF Leads
<1>8. Layers(Layer, leaves)
    BY LayersUnfold
<1>9. \A level \in Levels : ShiftedRight(i, level) \in DOMAIN Layer[level]
    BY <1>8, LayerDomains
<1>10. 0 \in T
    <2>1. ShiftedRight(i, 0) = i
        BY <1>0, ShiftedByOneMore
    <2>2. node(0) = leaves[i + 1]
        BY <1>8, <2>1 DEF Layers
    <2> QED BY <1>7, <2>2
<1>11. ASSUME NEW level \in 1 .. TreeDepth - 1, level - 1 \in T PROVE level \in T
    <2>1. PICK lower \in Levels : lower = level - 1 /\ lower + 1 = level /\ level \in Levels
        BY <1>0 DEF Levels
    <2>2. PICK at \in Nat : at = ShiftedRight(i, lower) /\ BitAtLevel(i, lower) = at % 2
        BY <1>0, <2>1, BitIsZeroOrOne DEF BitAtLevel
    <2>3. ShiftedRight(i, level) = at \div 2
        BY <1>0, <2>1, <2>2, ShiftedByOneMore
    <2> DEFINE up == at \div 2
    <2>4. node(level) = Hash(NodeOrEmpty(Layer[lower], 2 * up, lower),
                             NodeOrEmpty(Layer[lower], 2 * up + 1, lower))
        <3>1. Layer[level] = NextLayer(Layer[lower], lower)
            BY <1>8, <2>1 DEF Layers
        <3>2. up \in DOMAIN Layer[level]
            BY <1>9, <2>1, <2>3
        <3>3. up \in {index \div 2 : index \in DOMAIN Layer[lower]}
            BY <3>1, <3>2 DEF NextLayer
        <3> QED BY <2>3, <3>1, <3>3 DEF NextLayer
    <2>5. NodeOrEmpty(Layer[lower], at, lower) = node(lower)
        BY <1>9, <2>2 DEF NodeOrEmpty
    <2>6. (current[lower] = node(lower)) <=> (leaf = leaves[i + 1])
        BY <1>11, <2>1
    <2>7. CASE at % 2 = 1
        <3>1. 2 * up = at - 1 /\ 2 * up + 1 = at
            BY <2>7
        <3>2. current[level] = Hash(NodeOrEmpty(Layer[lower], at - 1, lower), current[lower])
            BY <1>2, <1>7, <2>1, <2>2, <2>7
        <3>3. node(level) = Hash(NodeOrEmpty(Layer[lower], at - 1, lower), node(lower))
            BY <2>4, <2>5, <3>1
        <3> HIDE DEF node
        <3> QED BY <2>6, <3>2, <3>3 DEF Hash
    <2>8. CASE at % 2 # 1
        <3>1. 2 * up = at /\ 2 * up + 1 = at + 1
            BY <2>8
        <3>2. current[level] = Hash(current[lower], NodeOrEmpty(Layer[lower], at + 1, lower))
            BY <1>2, <1>7, <2>1, <2>2, <2>8
        <3>3. node(level) = Hash(node(lower), NodeOrEmpty(Layer[lower], at + 1, lower))
            BY <2>4, <2>5, <3>1
        <3> HIDE DEF node
        <3> QED BY <2>6, <3>2, <3>3 DEF Hash
    <2> QED BY <2>7, <2>8
<1>12. TreeDepth - 1 \in T
    <2> HIDE DEF T
    <2>1. 0 .. TreeDepth - 1 \subseteq T
        BY <1>0, <1>10, <1>11, IntervalInduction
    <2> QED BY <1>0, <2>1
<1> QED BY <1>1, <1>3, <1>12 DEF proof

-----------------------------------------------------------------------------
\* A greater index is not shifted to a lesser one.
LEMMA ShiftsGrow ==
    ASSUME NEW i \in Nat, NEW j \in Nat, i <= j
    PROVE  \A level \in Levels : ShiftedRight(i, level) <= ShiftedRight(j, level)
<1> DEFINE T == {level \in Nat : ShiftedRight(i, level) <= ShiftedRight(j, level)}
<1>0. TreeDepth \in Nat /\ TreeDepth - 1 \in Nat
    BY TreeAssumption
<1>1. 0 \in T
    BY ShiftedByOneMore
<1>2. ASSUME NEW level \in 1 .. TreeDepth - 1, level - 1 \in T PROVE level \in T
    <2>1. level - 1 \in Levels /\ level - 1 + 1 = level
        BY <1>0 DEF Levels
    <2>2. PICK x \in Nat, y \in Nat :
              x = ShiftedRight(i, level - 1) /\ y = ShiftedRight(j, level - 1) /\ x <= y
        BY <1>2, <2>1, BitIsZeroOrOne
    <2>3. ShiftedRight(i, level) = x \div 2 /\ ShiftedRight(j, level) = y \div 2
        BY <2>1, <2>2, ShiftedByOneMore
    <2>4. x \div 2 <= y \div 2
        BY <2>2
    <2> QED BY <2>3, <2>4
<1>3. 0 .. TreeDepth - 1 \subseteq T
    <2> HIDE DEF T
    <2> QED BY <1>0, <1>1, <1>2, IntervalInduction
<1> QED BY <1>0, <1>3 DEF Levels

\* No shift of 0 is more than 0.
LEMMA ShiftsOfZero == \A level \in Levels : ShiftedRight(0, level) = 0
<1> DEFINE T == {level \in Nat : ShiftedRight(0, level) = 0}
<1>0. TreeDepth \in Nat /\ TreeDepth - 1 \in Nat
    BY TreeAssumption
<1>1. 0 \in T
    BY ShiftedByOneMore
<1>2. ASSUME NEW level \in 1 .. TreeDepth - 1, level - 1 \in T PROVE level \in T
    <2>1. level - 1 \in Levels /\ level - 1 + 1 = level
        BY <1>0 DEF Levels
    <2>2. ShiftedRight(0, level) = ShiftedRight(0, level - 1) \div 2
        BY <2>1, ShiftedByOneMore
    <2> QED BY <1>2, <2>2
<1>3. 0 .. TreeDepth - 1 \subseteq T
    <2> HIDE DEF T
    <2> QED BY <1>0, <1>1, <1>2, IntervalInduction
<1> QED BY <1>0, <1>3 DEF Levels

\* The recursion of PowerOfTwo, unfolded.
LEMMA PowersUnfold ==
    /\ \A k \in Levels : PowerOfTwo[k] \in Nat \ {0}
    /\ PowerOfTwo[0] = 1
    /\ \A k \in 1 .. TreeDepth - 1 : PowerOfTwo[k] = 2 * PowerOfTwo[k - 1]
<1> DEFINE Powers(f) == f = [k \in Levels |-> IF k = 0 THEN 1 ELSE 2 * f[k - 1]]
           step == [k \in 1 .. TreeDepth - 1 |-> [x \in Nat \ {0} |-> 2 * x]]
<1>0. TreeDepth \in Nat /\ TreeDepth - 1 \in Nat
    BY TreeAssumption
<1>1. PICK f : Iterates(f, TreeDepth - 1, 1, step, Nat \ {0})
    <2>1. 1 \in Nat \ {0} /\ step \in [1 .. TreeDepth - 1 -> [Nat \ {0} -> Nat \ {0}]]
        OBVIOUS
    <2> HIDE DEF step
    <2> QED BY <1>0, <2>1, IterationExists
<1>2. Powers(f)
    <2>1. /\ f = [k \in Levels |-> f[k]] /\ f[0] = 1
          /\ \A k \in 0 .. TreeDepth - 1 : f[k] \in Nat \ {0}
          /\ \A k \in 1 .. TreeDepth - 1 : f[k] = step[k][f[k - 1]]
        BY <1>0, <1>1 DEF Iterates, Levels
    <2>2. \A k \in 1 .. TreeDepth - 1 : f[k] = 2 * f[k - 1]
        <3> TAKE k \in 1 .. TreeDepth - 1
        <3>1. k - 1 \in 0 .. TreeDepth - 1
            BY <1>0
        <3>2. f[k - 1] \in Nat \ {0} /\ f[k] = step[k][f[k - 1]]
            BY <2>1, <3>1
        <3> QED BY <3>2
    <2> HIDE DEF step
    <2>3. \A k \in Levels : f[k] = IF k = 0 THEN 1 ELSE 2 * f[k - 1]
        <3> TAKE k \in Levels
        <3>1. k = 0 \/ k \in 1 .. TreeDepth - 1
            BY <1>0 DEF Levels
        <3> QED BY <2>1, <2>2, <3>1
    <2> QED BY <2>1, <2>3
<1>3. Powers(PowerOfTwo)
    <2>1. PowerOfTwo = CHOOSE g : Powers(g)
        BY DEF PowerOfTwo
    <2> HIDE DEF Powers
    <2> QED BY <1>2, <2>1
<1>4. PowerOfTwo[0] = 1 /\ \A k \in 1 .. TreeDepth - 1 : PowerOfTwo[k] = 2 * PowerOfTwo[k - 1]
    BY <1>0, <1>3 DEF Levels
<1> DEFINE T == {k \in Nat : PowerOfTwo[k] \in Nat \ {0}}
<1>5. 0 .. TreeDepth - 1 \subseteq T
    <2>1. 0 \in T
        BY <1>4
    <2>2. ASSUME NEW k \in 1 .. TreeDepth - 1, k - 1 \in T PROVE k \in T
        BY <1>4, <2>2
    <2> HIDE DEF T
    <2> QED BY <1>0, <2>1, <2>2, IntervalInduction
<1> QED BY <1>4, <1>5 DEF Levels

\* A power of two has one 1 bit, and the index before it all the bits below that one.
LEMMA BitsOfPower ==
    ASSUME NEW k \in Levels
    PROVE  /\ BitAtLevel(PowerOfTwo[k], k) = 1
           /\ ShiftedRight(PowerOfTwo[k], k) = 1
           /\ StoredLevel(PowerOfTwo[k] - 1) = k
           /\ \A level \in k .. TreeDepth - 1 : ShiftedRight(PowerOfTwo[k] - 1, level) = 0
<1> DEFINE n == PowerOfTwo[k]
           T == {level \in Nat : level <= k =>
                     /\ ShiftedRight(n, level) = PowerOfTwo[k - level]
                     /\ ShiftedRight(n - 1, level) = PowerOfTwo[k - level] - 1}
           R == {above \in Nat : k + above < TreeDepth => ShiftedRight(n - 1, k + above) = 0}
<1>0. TreeDepth \in Nat /\ k \in Nat /\ k < TreeDepth /\ n \in Nat \ {0} /\ n - 1 \in Nat
    BY PowersUnfold, TreeAssumption DEF Levels
<1>1. 0 \in T
    BY <1>0, ShiftedByOneMore
<1>2. ASSUME NEW level \in 1 .. k, level - 1 \in T PROVE level \in T
    <2>1. level - 1 \in Levels /\ level - 1 + 1 = level /\ k - level \in Levels
          /\ k - (level - 1) \in 1 .. TreeDepth - 1 /\ k - (level - 1) - 1 = k - level
        BY <1>0 DEF Levels
    <2>2. PICK x \in Nat \ {0} :
              x = PowerOfTwo[k - level] /\ PowerOfTwo[k - (level - 1)] = 2 * x
        BY <2>1, PowersUnfold
    <2>3. /\ ShiftedRight(n, level) = ShiftedRight(n, level - 1) \div 2
          /\ ShiftedRight(n - 1, level) = ShiftedRight(n - 1, level - 1) \div 2
        BY <1>0, <2>1, ShiftedByOneMore
    <2>4. ShiftedRight(n, level - 1) = 2 * x /\ ShiftedRight(n - 1, level - 1) = 2 * x - 1
        BY <1>0, <1>2, <2>2
    <2>5. (2 * x) \div 2 = x /\ (2 * x - 1) \div 2 = x - 1
        OBVIOUS
    <2> QED BY <2>2, <2>3, <2>4, <2>5
<1>3. 0 .. k \subseteq T
    <2> HIDE DEF T
    <2> QED BY <1>0, <1>1, <1>2, IntervalInduction
<1>4. /\ \A level \in 0 .. k : ShiftedRight(n - 1, level) = PowerOfTwo[k - level] - 1
      /\ ShiftedRight(n, k) = 1 /\ ShiftedRight(n - 1, k) = 0
    BY <1>0, <1>3, PowersUnfold
<1>5. \A level \in 0 .. k - 1 : BitAtLevel(n - 1, level) = 1
    <2> TAKE level \in 0 .. k - 1
    <2>1. k - level \in 1 .. TreeDepth - 1 /\ k - level - 1 \in Levels /\ level \in 0 .. k
        BY <1>0 DEF Levels
    <2>2. PICK x \in Nat \ {0} : PowerOfTwo[k - level] = 2 * x
        BY <2>1, PowersUnfold
    <2>3. ShiftedRight(n - 1, level) = 2 * x - 1
        BY <1>4, <2>1, <2>2
    <2>4. (2 * x - 1) % 2 = 1
        OBVIOUS
    <2> QED BY <2>3, <2>4 DEF BitAtLevel
<1>6. 0 .. TreeDepth - 1 - k \subseteq R
    <2>1. 0 \in R
        BY <1>0, <1>4
    <2>2. ASSUME NEW above \in 1 .. TreeDepth - 1 - k, above - 1 \in R PROVE above \in R
        <3>1. k + (above - 1) \in Levels /\ k + (above - 1) + 1 = k + above
              /\ k + (above - 1) < TreeDepth
            BY <1>0 DEF Levels
        <3>2. ShiftedRight(n - 1, k + above) = ShiftedRight(n - 1, k + (above - 1)) \div 2
            BY <1>0, <3>1, ShiftedByOneMore
        <3> QED BY <2>2, <3>1, <3>2
    <2> HIDE DEF R
    <2> QED BY <1>0, <2>1, <2>2, IntervalInduction
<1>7. \A level \in k .. TreeDepth - 1 : ShiftedRight(n - 1, level) = 0
    <2> TAKE level \in k .. TreeDepth - 1
    <2>1. level - k \in 0 .. TreeDepth - 1 - k /\ k + (level - k) = level /\ level < TreeDepth
        BY <1>0
    <2> QED BY <1>6, <2>1
<1>8. StoredLevel(n - 1) = k
    <2>1. PICK stored \in Nat : stored = StoredLevel(n - 1) /\ IsStored(n - 1, stored)
        BY <1>0, WalkEndsStored DEF IsStored
    <2>2. BitAtLevel(n - 1, k) = 0
        BY <1>4 DEF BitAtLevel
    <2>3. ~(stored < k)
        BY <1>0, <1>5, <2>1 DEF IsStored
    <2>4. ~(k < stored)
        BY <1>0, <2>1, <2>2 DEF IsStored
    <2> QED BY <1>0, <2>1, <2>3, <2>4
<1>9. BitAtLevel(n, k) = 1
    BY <1>4 DEF BitAtLevel
<1> QED BY <1>4, <1>7, <1>8, <1>9

-----------------------------------------------------------------------------
\* The tree keeps the last complete node of each level it needs, and its root is that of
\* the node it made last.
ProofInv ==
    /\ \E S : leaves \in Seq(S)
    /\ nextIndex = Len(leaves)
    /\ frontier = [level \in Levels |-> frontier[level]]
    /\ Completes(frontier, Layer, nextIndex)
    /\ nextIndex > 0 => root = RootFrom(frontier[InsertLevel(nextIndex - 1)], nextIndex - 1)

\* A tree without leaves has no complete node to keep.
LEMMA NothingCompletes == ASSUME NEW own, NEW layers PROVE Completes(own, layers, 0)
<1>1. \A level \in Levels : BitAtLevel(0, level) # 1
    BY ShiftsOfZero DEF BitAtLevel
<1> QED BY <1>1 DEF Completes

LEMMA ProofInvInit == TreeClientInit => ProofInv
<1> SUFFICES ASSUME TreeClientInit PROVE ProofInv
    OBVIOUS
<1>1. leaves = <<>> /\ nextIndex = 0 /\ frontier = [level \in Levels |-> ZeroHash[level]]
    BY DEF TreeClientInit, NewTree
<1>2. leaves \in Seq({}) /\ Len(leaves) = 0
    BY <1>1
<1> QED BY <1>1, <1>2, NothingCompletes DEF ProofInv

\* A leaf more completes the node it is hashed up to.
LEMMA ProofInvMirrored == ASSUME ProofInv, Mirrored PROVE ProofInv'
<1>1. PICK leaf :
          /\ leaves' = Append(leaves, leaf)
          /\ frontier' = [frontier EXCEPT ![InsertLevel(nextIndex)] = WalkedHash(leaf, nextIndex)]
          /\ root' = RootFrom(WalkedHash(leaf, nextIndex), nextIndex)
          /\ nextIndex' = nextIndex + 1
    BY DEF Mirrored, Insert
<1>2. PICK S : leaves \in Seq(S)
    BY DEF ProofInv
<1>3. nextIndex = Len(leaves) /\ nextIndex \in Nat
      /\ frontier = [level \in Levels |-> frontier[level]]
      /\ Completes(frontier, Layer, Len(leaves))
    BY <1>2 DEF ProofInv
<1>4. leaves' \in Seq(S \cup {leaf}) /\ Len(leaves') = nextIndex + 1
    BY <1>1, <1>2, <1>3
<1>5. InsertLevel(nextIndex) \in Levels
    BY <1>3, WalkEndsStored, TreeAssumption DEF InsertLevel, IsStored, Levels
<1>6. frontier' = [level \in Levels |-> frontier'[level]]
      /\ frontier'[InsertLevel(nextIndex)] = WalkedHash(leaf, nextIndex)
    BY <1>1, <1>3, <1>5
<1>7. Completes(frontier, Layer, nextIndex)'
    <2>1. Layers(Layer, leaves)
        BY LayersUnfold
    <2>2. Layers(Layer, leaves)'
        BY LayersUnfold, PTL
    <2>3. PICK longer : longer = Layer'
        OBVIOUS
    <2>4. Layers(longer, Append(leaves, leaf))
        BY <1>1, <2>2, <2>3 DEF Layers
    <2>5. frontier' = [frontier EXCEPT ![InsertLevel(Len(leaves))] = WalkedHash(leaf, Len(leaves))]
        BY <1>1, <1>3
    <2>6. Completes(frontier', longer, Len(leaves) + 1)
        BY <1>2, <1>3, <2>1, <2>4, <2>5, InsertCompletes
    <2> QED BY <1>1, <1>3, <2>3, <2>6 DEF Completes
<1>8. (nextIndex > 0 => root = RootFrom(frontier[InsertLevel(nextIndex - 1)], nextIndex - 1))'
    <2>1. nextIndex' - 1 = nextIndex
        BY <1>1, <1>3
    <2> QED BY <1>1, <1>6, <2>1
<1> QED BY <1>1, <1>4, <1>6, <1>7, <1>8 DEF ProofInv

LEMMA ProofInvNext == ProofInv /\ [TreeClientNext]_treeClientVars => ProofInv'
<1> SUFFICES ASSUME ProofInv, [TreeClientNext]_treeClientVars PROVE ProofInv'
    OBVIOUS
<1>1. ASSUME UNCHANGED sdkVars PROVE ProofInv'
    <2>1. UNCHANGED <<frontier, leaves, root, nextIndex>>
        BY <1>1 DEF sdkVars
    <2>2. Layer' = Layer
        BY <2>1 DEF Layer
    <2> QED BY <2>1, <2>2 DEF ProofInv, Completes
<1>2. CASE \E leaf \in Leaves : Appended(leaf)
    BY <1>1, <1>2 DEF Appended
<1>3. CASE Mirrored
    BY <1>3, ProofInvMirrored
<1>4. CASE Restarted
    <2>1. leaves' = <<>> /\ nextIndex' = 0
          /\ frontier' = [level \in Levels |-> ZeroHash[level]]
        BY <1>4 DEF Restarted, NewTree
    <2>2. leaves' \in Seq({}) /\ Len(leaves') = 0
        BY <2>1
    <2>3. Completes(frontier', Layer', 0)
        BY NothingCompletes
    <2>4. Completes(frontier, Layer, nextIndex)'
        BY <2>1, <2>3 DEF Completes
    <2> QED BY <2>1, <2>2, <2>4 DEF ProofInv
<1>5. CASE UNCHANGED treeClientVars
    BY <1>1, <1>5 DEF treeClientVars
<1> QED BY <1>2, <1>3, <1>4, <1>5 DEF TreeClientNext

\* With a power of two of leaves the root is the top node.
LEMMA PowerRoot ==
    ASSUME ProofInv, NEW k \in Levels, nextIndex = PowerOfTwo[k]
    PROVE  root = Layer[TreeDepth - 1][0]
<1> DEFINE n == PowerOfTwo[k]
<1>0. TreeDepth \in Nat /\ TreeDepth - 1 \in Nat /\ k \in Nat /\ k < TreeDepth
      /\ n \in Nat \ {0} /\ n - 1 \in Nat /\ Len(leaves) = n
    BY PowersUnfold, TreeAssumption DEF Levels, ProofInv
<1>1. /\ StoredLevel(n - 1) = k /\ BitAtLevel(n, k) = 1 /\ ShiftedRight(n, k) = 1
      /\ \A level \in k .. TreeDepth - 1 : ShiftedRight(n - 1, level) = 0
    BY BitsOfPower
<1>2. InsertLevel(n - 1) = k
    BY <1>0, <1>1, WalkEndsStored DEF InsertLevel
<1>3. frontier[k] = Layer[k][0]
    BY <1>1 DEF ProofInv, Completes
<1>4. root = RootAbove(Layer[k][0], n - 1)
    <2>1. root = RootFrom(frontier[k], n - 1)
        BY <1>0, <1>2 DEF ProofInv
    <2> HIDE DEF n
    <2> QED BY <1>0, <1>3, <2>1, SameRoot
<1>5. PICK up : /\ up[k] = Layer[k][0]
                /\ \A level \in k + 1 .. TreeDepth - 1 :
                       up[level] = HashWithZero(up[level - 1], ZeroHash[level],
                                                BitAtLevel(n - 1, level))
                /\ up[TreeDepth - 1] = root
    <2>1. PICK hash : hash = Layer[k][0]
        OBVIOUS
    <2> PICK index \in Nat : index = n - 1
        BY <1>0
    <2>2. StoredLevel(index) = k /\ StoredLevel(index) < TreeDepth /\ root = RootAbove(hash, index)
        BY <1>0, <1>1, <1>4, <2>1
    <2> QED BY <2>1, <2>2, RaisedUnfolds
<1>6. PICK S : leaves \in Seq(S)
    BY DEF ProofInv
<1>7. \A level \in k .. TreeDepth - 1 : DOMAIN Layer[level] = {0}
    <2> TAKE level \in k .. TreeDepth - 1
    <2>1. level \in Levels
        BY <1>0 DEF Levels
    <2>2. DOMAIN Layer[level] = {ShiftedRight(i, level) : i \in 0 .. n - 1}
        BY <1>0, <1>6, <2>1, LayersUnfold, LayerDomains
    <2>3. \A i \in 0 .. n - 1 : ShiftedRight(i, level) = 0
        <3> TAKE i \in 0 .. n - 1
        <3>0. i \in Nat /\ i <= n - 1 /\ n - 1 \in Nat
            BY <1>0
        <3> HIDE DEF n
        <3>1. ShiftedRight(i, level) <= ShiftedRight(n - 1, level) /\ ShiftedRight(i, level) \in Nat
            BY <2>1, <3>0, ShiftsGrow, BitIsZeroOrOne
        <3> QED BY <1>1, <3>1
    <2> QED BY <1>0, <2>2, <2>3
<1> DEFINE T == {above \in Nat : k + above < TreeDepth => up[k + above] = Layer[k + above][0]}
<1>8. 0 \in T
    BY <1>0, <1>5
<1>9. ASSUME NEW above \in 1 .. TreeDepth - 1 - k, above - 1 \in T PROVE above \in T
    <2>1. PICK level \in k + 1 .. TreeDepth - 1 :
              level = k + above /\ level - 1 = k + (above - 1) /\ level - 1 \in k .. TreeDepth - 1
        BY <1>0
    <2>2. ShiftedRight(n - 1, level) = 0 /\ level \in Levels /\ level - 1 + 1 = level
          /\ level \in 1 .. TreeDepth - 1 /\ level - 1 < TreeDepth
        BY <1>0, <1>1 DEF Levels
    <2>3. up[level] = Hash(up[level - 1], ZeroHash[level])
        BY <1>5, <2>2 DEF HashWithZero, BitAtLevel
    <2>4. Layer[level] = NextLayer(Layer[level - 1], level - 1)
        BY <2>2, LayersUnfold DEF Layers
    <2>5. DOMAIN Layer[level - 1] = {0} /\ 0 \div 2 = 0
        BY <1>7, <2>1
    <2>6. 0 \in {index \div 2 : index \in DOMAIN Layer[level - 1]}
        BY <2>5
    <2>7. Layer[level][0] = Hash(NodeOrEmpty(Layer[level - 1], 2 * 0, level - 1),
                                 NodeOrEmpty(Layer[level - 1], 2 * 0 + 1, level - 1))
        BY <2>4, <2>6 DEF NextLayer
    <2>8. Layer[level][0] = Hash(Layer[level - 1][0], ZeroHash[level])
        BY <2>2, <2>5, <2>7 DEF NodeOrEmpty, EmptyNode
    <2>9. up[level - 1] = Layer[level - 1][0]
        BY <1>9, <2>1, <2>2
    <2> QED BY <2>1, <2>3, <2>8, <2>9
<1>10. 0 .. TreeDepth - 1 - k \subseteq T
    <2> HIDE DEF T
    <2>1. TreeDepth - 1 - k \in Nat
        BY <1>0
    <2> QED BY <1>8, <1>9, <2>1, IntervalInduction
<1>11. TreeDepth - 1 - k \in T /\ k + (TreeDepth - 1 - k) = TreeDepth - 1
    BY <1>0, <1>10
<1> QED BY <1>0, <1>5, <1>11

LEMMA ProofInvProves == ProofInv => PowersOfTwoProve
<1> SUFFICES ASSUME ProofInv, NEW k \in Levels, nextIndex = PowerOfTwo[k],
                    NEW i \in 0 .. nextIndex - 1, NEW leaf \in Leaves
             PROVE  VerifyProof(GenerateProof(i), leaf, root) <=> leaf = leaves[i + 1]
    BY DEF PowersOfTwoProve
<1>1. PICK S : leaves \in Seq(S)
    BY DEF ProofInv
<1>2. nextIndex = Len(leaves) /\ PowerOfTwo[k] \in Nat \ {0} /\ i \in Nat
      /\ TreeDepth - 1 \in Levels /\ TreeDepth - 1 \in k .. TreeDepth - 1
    BY PowersUnfold, TreeAssumption DEF ProofInv, Levels
<1>3. ShiftedRight(i, TreeDepth - 1) = 0
    <2>1. ShiftedRight(nextIndex - 1, TreeDepth - 1) = 0
        BY <1>2, BitsOfPower
    <2>2. nextIndex - 1 \in Nat /\ i <= nextIndex - 1
        BY <1>2
    <2>3. ShiftedRight(i, TreeDepth - 1) <= ShiftedRight(nextIndex - 1, TreeDepth - 1)
          /\ ShiftedRight(i, TreeDepth - 1) \in Nat
        BY <1>2, <2>2, ShiftsGrow, BitIsZeroOrOne
    <2> QED BY <2>1, <2>3
<1>4. root = Layer[TreeDepth - 1][ShiftedRight(i, TreeDepth - 1)]
    BY <1>3, PowerRoot
<1>5. i \in 0 .. Len(leaves) - 1
    BY <1>2
<1> QED BY <1>1, <1>4, <1>5, ProofLeads

\* merkle.ts: with a power of two of leaves, up to half the tree's capacity, the proof of
\* every leaf leads to the client's root, and no other leaf does by that proof.
THEOREM PowersOfTwoAreProved == TreeClientSpec => []PowersOfTwoProve
<1>1. TreeClientInit => ProofInv
    BY ProofInvInit
<1>2. ProofInv /\ [TreeClientNext]_treeClientVars => ProofInv'
    BY ProofInvNext
<1>3. ProofInv => PowersOfTwoProve
    BY ProofInvProves
<1> QED BY <1>1, <1>2, <1>3, PTL DEF TreeClientSpec

-----------------------------------------------------------------------------
(***************************************************************************)
(* Advice.                                                                 *)
(***************************************************************************)
LEMMA MaxOfTwo ==
    ASSUME NEW a \in Int, NEW b \in Int PROVE Max({a, b}) = IF a >= b THEN a ELSE b
<1>1. \E x \in {a, b} : \A y \in {a, b} : x >= y
    OBVIOUS
<1>2. Max({a, b}) \in {a, b} /\ \A y \in {a, b} : Max({a, b}) >= y
    BY <1>1 DEF Max
<1> QED BY <1>2

LEMMA MinOfTwo ==
    ASSUME NEW a \in Int, NEW b \in Int PROVE Min({a, b}) = IF a <= b THEN a ELSE b
<1>1. \E x \in {a, b} : \A y \in {a, b} : x <= y
    OBVIOUS
<1>2. Min({a, b}) \in {a, b} /\ \A y \in {a, b} : Min({a, b}) <= y
    BY <1>1 DEF Min
<1> QED BY <1>2

LEMMA QuotientGrows ==
    ASSUME NEW d \in Nat \ {0}, NEW a \in Nat, NEW b \in Nat, a <= b
    PROVE  a \div d <= b \div d /\ a \div d \in Nat /\ b \div d \in Nat
<1>1. PICK p \in Nat, q \in Nat : p = a \div d /\ q = b \div d
    OBVIOUS
<1>2. d * p <= a /\ b < d * (q + 1)
    BY <1>1
<1>3. ASSUME q < p PROVE FALSE
    <2>1. q + 1 <= p
        BY <1>3
    <2>2. d * (q + 1) <= d * p
        BY <2>1
    <2> QED BY <1>2, <2>2
<1> QED BY <1>1, <1>3

PoolCounts == [deposits : Nat, withdrawals : Nat]

\* What was read lies between what the pool was and what it is.
ReadsLieBetween ==
    /\ fetch = [reads |-> fetch.reads, began |-> fetch.began, count |-> fetch.count]
    /\ fetch.began \in PoolCounts /\ fetch.count \in PoolCounts
    /\ fetch.began.withdrawals <= fetch.began.deposits
    /\ \A name \in Reads : /\ fetch.began[name] <= fetch.count[name]
                           /\ fetch.count[name] <= pool[name]

AdviceInv ==
    /\ sinceFunding \in Nat /\ transfers \in Nat /\ setSize \subseteq Nat
    /\ pool \in PoolCounts /\ pool.withdrawals <= pool.deposits
    /\ fetch = NoFetch \/ ReadsLieBetween

LEMMA AdviceInvInit == AdviceInit => AdviceInv
BY DEF AdviceInit, AdviceInv, PoolCounts

\* What FetchEnds makes of a call.
LEMMA FetchedSizeLies ==
    ASSUME AdviceInv, FetchEnds
    PROVE  \E size \in Nat : /\ setSize' = {size}
                             /\ size \in Max({0, fetch.began.deposits - pool.withdrawals})
                                             .. (pool.deposits - fetch.began.withdrawals)
<1>1. ReadsLieBetween
    BY DEF AdviceInv, FetchEnds
<1>2. PICK size : /\ size = AnonymitySetSize(fetch.count.deposits, fetch.count.withdrawals)
                  /\ setSize' = {size}
    BY DEF FetchEnds
<1>3. /\ pool.deposits \in Nat /\ pool.withdrawals \in Nat
      /\ fetch.began.deposits \in Nat /\ fetch.began.withdrawals \in Nat
      /\ fetch.count.deposits \in Nat /\ fetch.count.withdrawals \in Nat
    BY <1>1 DEF AdviceInv, ReadsLieBetween, PoolCounts
<1>4. /\ fetch.began.deposits <= fetch.count.deposits
      /\ fetch.count.deposits <= pool.deposits
      /\ fetch.began.withdrawals <= fetch.count.withdrawals
      /\ fetch.count.withdrawals <= pool.withdrawals
      /\ fetch.began.withdrawals <= fetch.began.deposits
    BY <1>1 DEF ReadsLieBetween, Reads
<1>5. size = IF 0 >= fetch.count.deposits - fetch.count.withdrawals
             THEN 0 ELSE fetch.count.deposits - fetch.count.withdrawals
    BY <1>2, <1>3, MaxOfTwo DEF AnonymitySetSize
<1>6. Max({0, fetch.began.deposits - pool.withdrawals})
          = IF 0 >= fetch.began.deposits - pool.withdrawals
            THEN 0 ELSE fetch.began.deposits - pool.withdrawals
    BY <1>3, MaxOfTwo
<1> QED BY <1>2, <1>3, <1>4, <1>5, <1>6

\* Blocks, transfers and counts only grow.
LEMMA AdviceInvNext ==
    ASSUME AdviceInv, [AdviceNext]_adviceVars
    PROVE  AdviceInv' /\ sinceFunding <= sinceFunding' /\ transfers <= transfers'
<1> USE DEF AdviceInv
<1>1. CASE BlocksPass
    BY <1>1, PrivacyAdviceAssumption DEF BlocksPass, ReadsLieBetween
<1>2. CASE TransfersHappen
    BY <1>2, PrivacyAdviceAssumption DEF TransfersHappen, ReadsLieBetween
<1>3. CASE PoolMoves
    <2>1. PICK deposits, withdrawals \in Counts :
              /\ deposits >= pool.deposits /\ withdrawals \in pool.withdrawals .. deposits
              /\ pool' = [deposits |-> deposits, withdrawals |-> withdrawals]
        BY <1>3 DEF PoolMoves
    <2>2. deposits \in Nat /\ withdrawals \in Nat
        BY PrivacyAdviceAssumption
    <2>3. pool.deposits \in Nat /\ pool.withdrawals \in Nat
        BY DEF PoolCounts
    <2>4. pool' \in PoolCounts /\ pool'.withdrawals <= pool'.deposits
          /\ \A name \in Reads : pool[name] <= pool'[name]
        BY <2>1, <2>2, <2>3 DEF PoolCounts, Reads
    <2>5. fetch # NoFetch => ReadsLieBetween'
        <3> SUFFICES ASSUME fetch # NoFetch PROVE ReadsLieBetween'
            OBVIOUS
        <3>1. \A name \in Reads : fetch.count[name] \in Nat /\ pool[name] \in Nat
                                  /\ pool'[name] \in Nat
            BY <2>4 DEF ReadsLieBetween, PoolCounts, Reads
        <3>2. \A name \in Reads : fetch.count[name] <= pool'[name]
            BY <2>4, <3>1 DEF ReadsLieBetween
        <3>3. fetch' = fetch
            BY <1>3 DEF PoolMoves
        <3> QED BY <3>2, <3>3 DEF ReadsLieBetween
    <2> QED BY <1>3, <2>4, <2>5 DEF PoolMoves
<1>4. CASE FetchPoolStats
    <2>1. fetch' = [reads |-> Reads, began |-> pool, count |-> pool] /\ pool' = pool
        BY <1>4 DEF FetchPoolStats
    <2>2. ReadsLieBetween'
        BY <2>1 DEF ReadsLieBetween, PoolCounts, Reads
    <2> QED BY <1>4, <2>2 DEF FetchPoolStats
<1>5. CASE FetchEnds
    BY <1>5, FetchedSizeLies DEF FetchEnds
<1>6. CASE FetchFails
    BY <1>6 DEF FetchFails
<1>7. CASE AskWhen
    BY <1>7 DEF AskWhen, ReadsLieBetween
<1>8. ASSUME NEW name \in Reads, ReadAnswered(name) PROVE AdviceInv'
    <2>1. ReadsLieBetween
        BY <1>8 DEF ReadAnswered, NoFetch
    <2>2. /\ fetch'.began = fetch.began
          /\ fetch'.count = [fetch.count EXCEPT ![name] = pool[name]]
          /\ fetch' = [reads |-> fetch'.reads, began |-> fetch'.began, count |-> fetch'.count]
        BY <1>8, <2>1 DEF ReadAnswered, ReadsLieBetween
    <2>3. pool' = pool
        BY <1>8 DEF ReadAnswered
    <2>4. ReadsLieBetween'
        BY <2>1, <2>2, <2>3 DEF ReadsLieBetween, PoolCounts, Reads
    <2> QED BY <1>8, <2>4 DEF ReadAnswered
<1>9. CASE UNCHANGED adviceVars
    BY <1>9 DEF adviceVars, ReadsLieBetween
<1>10. ASSUME NEW name \in Reads, ReadAnswered(name)
       PROVE  sinceFunding <= sinceFunding' /\ transfers <= transfers'
    BY <1>10 DEF ReadAnswered
<1> QED BY <1>1, <1>2, <1>3, <1>4, <1>5, <1>6, <1>7, <1>8, <1>9, <1>10 DEF AdviceNext

\* The set a caller is told of is explained by the pool when it began and when it ended.
THEOREM FetchedSetExplained == AdviceSpec => SetSizeExplained
<1>1. AdviceInv /\ AdviceNext => SetExplained
    <2> SUFFICES ASSUME AdviceInv, AdviceNext, setSize' # setSize, NEW size \in setSize'
                 PROVE  size \in Max({0, fetch.began.deposits - pool.withdrawals})
                                     .. (pool.deposits - fetch.began.withdrawals)
        BY DEF SetExplained
    <2>1. FetchEnds
        BY DEF AdviceNext, BlocksPass, TransfersHappen, PoolMoves, FetchPoolStats,
               FetchFails, AskWhen, ReadAnswered
    <2> QED BY <2>1, FetchedSizeLies
<1>2. AdviceInv /\ [AdviceNext]_adviceVars => AdviceInv'
    BY AdviceInvNext
<1> QED BY <1>1, <1>2, AdviceInvInit, PTL DEF AdviceSpec, SetSizeExplained

\* The base score, bracket by bracket.
LEMMA BracketScores ==
    ASSUME NEW size \in Nat
    PROVE  /\ BaseScore(size) =
                  IF size < 10 THEN (20 * size) \div 10
                  ELSE IF size < 50 THEN 20 + (20 * (size - 10)) \div 40
                  ELSE IF size < 200 THEN 40 + (20 * (size - 50)) \div 150
                  ELSE IF size < 1000 THEN 60 + (20 * (size - 200)) \div 800
                  ELSE 80
           /\ Rating(size) = "strong" <=> size >= 1000
<1> DEFINE b1 == [from |-> 0, to |-> 10, least |-> 0, rating |-> "critical"]
           b2 == [from |-> 10, to |-> 50, least |-> 20, rating |-> "low"]
           b3 == [from |-> 50, to |-> 200, least |-> 40, rating |-> "moderate"]
           b4 == [from |-> 200, to |-> 1000, least |-> 60, rating |-> "good"]
<1>1. Brackets = {b1, b2, b3, b4}
    BY DEF Brackets
<1>2. /\ InBracket(size, b1) <=> size < 10
      /\ InBracket(size, b2) <=> 10 <= size /\ size < 50
      /\ InBracket(size, b3) <=> 50 <= size /\ size < 200
      /\ InBracket(size, b4) <=> 200 <= size /\ size < 1000
    BY DEF InBracket
<1>3. ASSUME NEW bracket \in Brackets, InBracket(size, bracket)
      PROVE  /\ BracketOf(size) \in Brackets /\ InBracket(size, BracketOf(size))
             /\ \E b \in Brackets : InBracket(size, b)
    BY <1>3 DEF BracketOf
<1>4. CASE size < 10
    <2>1. BracketOf(size) = b1 /\ \E b \in Brackets : InBracket(size, b)
        <3> HIDE DEF b1, b2, b3, b4
        <3>1. b1 \in Brackets /\ InBracket(size, b1)
            BY <1>1, <1>2, <1>4
        <3>2. BracketOf(size) \in Brackets /\ InBracket(size, BracketOf(size))
            BY <1>3, <3>1
        <3> QED BY <1>1, <1>2, <1>3, <1>4, <3>1, <3>2
    <2> QED BY <1>4, <2>1 DEF BaseScore, Rating
<1>5. CASE 10 <= size /\ size < 50
    <2>1. BracketOf(size) = b2 /\ \E b \in Brackets : InBracket(size, b)
        <3> HIDE DEF b1, b2, b3, b4
        <3>1. b2 \in Brackets /\ InBracket(size, b2)
            BY <1>1, <1>2, <1>5
        <3>2. BracketOf(size) \in Brackets /\ InBracket(size, BracketOf(size))
            BY <1>3, <3>1
        <3> QED BY <1>1, <1>2, <1>3, <1>5, <3>1, <3>2
    <2> QED BY <1>5, <2>1 DEF BaseScore, Rating
<1>6. CASE 50 <= size /\ size < 200
    <2>1. BracketOf(size) = b3 /\ \E b \in Brackets : InBracket(size, b)
        <3> HIDE DEF b1, b2, b3, b4
        <3>1. b3 \in Brackets /\ InBracket(size, b3)
            BY <1>1, <1>2, <1>6
        <3>2. BracketOf(size) \in Brackets /\ InBracket(size, BracketOf(size))
            BY <1>3, <3>1
        <3> QED BY <1>1, <1>2, <1>3, <1>6, <3>1, <3>2
    <2> QED BY <1>6, <2>1 DEF BaseScore, Rating
<1>7. CASE 200 <= size /\ size < 1000
    <2>1. BracketOf(size) = b4 /\ \E b \in Brackets : InBracket(size, b)
        <3> HIDE DEF b1, b2, b3, b4
        <3>1. b4 \in Brackets /\ InBracket(size, b4)
            BY <1>1, <1>2, <1>7
        <3>2. BracketOf(size) \in Brackets /\ InBracket(size, BracketOf(size))
            BY <1>3, <3>1
        <3> QED BY <1>1, <1>2, <1>3, <1>7, <3>1, <3>2
    <2> QED BY <1>7, <2>1 DEF BaseScore, Rating
<1>8. CASE size >= 1000
    <2>1. ~\E b \in Brackets : InBracket(size, b)
        <3> HIDE DEF b1, b2, b3, b4
        <3> QED BY <1>1, <1>2, <1>8
    <2> QED BY <1>8, <2>1 DEF BaseScore, Rating
<1> QED BY <1>4, <1>5, <1>6, <1>7, <1>8

LEMMA BaseScoreGrows ==
    ASSUME NEW size \in Nat, NEW later \in Nat, size <= later
    PROVE  BaseScore(size) <= BaseScore(later) /\ BaseScore(size) \in 0 .. 80
           /\ BaseScore(later) \in 0 .. 80
<1> DEFINE Least(s) == IF s < 10 THEN 0 ELSE IF s < 50 THEN 20
                       ELSE IF s < 200 THEN 40 ELSE IF s < 1000 THEN 60 ELSE 80
<1>1. ASSUME NEW s \in Nat
      PROVE  /\ BaseScore(s) \in Int /\ Least(s) <= BaseScore(s)
             /\ BaseScore(s) <= Least(s) + 20 /\ BaseScore(s) <= 80
    <2>1. CASE s < 10
        BY <2>1, BracketScores
    <2>2. CASE 10 <= s /\ s < 50
        BY <2>2, BracketScores
    <2>3. CASE 50 <= s /\ s < 200
        BY <2>3, BracketScores
    <2>4. CASE 200 <= s /\ s < 1000
        BY <2>4, BracketScores
    <2>5. CASE 1000 <= s
        BY <2>5, BracketScores
    <2> QED BY <2>1, <2>2, <2>3, <2>4, <2>5
<1>2. PICK x \in Int, y \in Int, lx \in Int, ly \in Int :
          x = BaseScore(size) /\ y = BaseScore(later) /\ lx = Least(size) /\ ly = Least(later)
    BY <1>1
<1>3. lx <= x /\ x <= lx + 20 /\ x <= 80 /\ 0 <= lx /\ ly <= y /\ y <= 80 /\ 0 <= ly
    BY <1>1, <1>2
<1>4. CASE lx + 20 <= ly
    <2> HIDE DEF Least
    <2> QED BY <1>2, <1>3, <1>4
<1>5. CASE lx = ly
    <2>1. CASE later < 10
        <3>1. BaseScore(size) = (20 * size) \div 10 /\ BaseScore(later) = (20 * later) \div 10
            BY <2>1, BracketScores
        <3> HIDE DEF Least
        <3> QED BY <2>1, <3>1
    <2>2. CASE 10 <= later /\ later < 50
        <3>1. 10 <= size /\ size < 50
            BY <1>2, <1>5, <2>2
        <3>2. /\ BaseScore(size) = 20 + (20 * (size - 10)) \div 40
              /\ BaseScore(later) = 20 + (20 * (later - 10)) \div 40
            BY <2>2, <3>1, BracketScores
        <3> HIDE DEF Least
        <3> QED BY <2>2, <3>1, <3>2
    <2>3. CASE 50 <= later /\ later < 200
        <3>1. 50 <= size /\ size < 200
            BY <1>2, <1>5, <2>3
        <3>2. /\ BaseScore(size) = 40 + (20 * (size - 50)) \div 150
              /\ BaseScore(later) = 40 + (20 * (later - 50)) \div 150
            BY <2>3, <3>1, BracketScores
        <3> HIDE DEF Least
        <3> QED BY <2>3, <3>1, <3>2
    <2>4. CASE 200 <= later /\ later < 1000
        <3>1. 200 <= size /\ size < 1000
            BY <1>2, <1>5, <2>4
        <3>2. /\ BaseScore(size) = 60 + (20 * (size - 200)) \div 800
              /\ BaseScore(later) = 60 + (20 * (later - 200)) \div 800
            BY <2>4, <3>1, BracketScores
        <3> HIDE DEF Least
        <3> QED BY <2>4, <3>1, <3>2
    <2>5. CASE 1000 <= later
        BY <1>2, <1>5, <2>5, BracketScores
    <2>6. BaseScore(size) <= BaseScore(later)
        BY <2>1, <2>2, <2>3, <2>4, <2>5
    <2> HIDE DEF Least
    <2> QED BY <1>2, <1>3, <2>6
<1>6. lx + 20 <= ly \/ lx = ly
    BY <1>2
<1> QED BY <1>4, <1>5, <1>6

\* Every part of the score grows, and so does what the caps leave of their sum.
LEMMA ScoreGrows ==
    ASSUME NEW size \in Nat, NEW later \in Nat, size <= later,
           NEW blocks \in Nat, NEW more \in Nat, blocks <= more,
           NEW seen \in Nat, NEW further \in Nat, seen <= further
    PROVE  OverallScore(later, more, further) >= OverallScore(size, blocks, seen)
<1> DEFINE days(b) == Min({5 * (b \div BlocksPerDay), 20})
           moves(s) == Min({s \div 10, 10})
           few(s) == IF SparselyUsed(s) THEN 10 ELSE 0
           total(s, b, n) == BaseScore(s) + days(b) + moves(n) - few(s)
<1>1. Capacity \in Nat \ {0} /\ BlocksPerDay \in Nat \ {0}
    BY PrivacyAdviceAssumption
<1>2. days(blocks) <= days(more) /\ days(blocks) \in Int /\ days(more) \in Int
    <2>1. PICK p \in Nat, q \in Nat :
              p = blocks \div BlocksPerDay /\ q = more \div BlocksPerDay /\ p <= q
        BY <1>1, QuotientGrows
    <2>2. /\ Min({5 * p, 20}) = IF 5 * p <= 20 THEN 5 * p ELSE 20
          /\ Min({5 * q, 20}) = IF 5 * q <= 20 THEN 5 * q ELSE 20
        BY MinOfTwo
    <2> QED BY <2>1, <2>2
<1>3. moves(seen) <= moves(further) /\ moves(seen) \in Int /\ moves(further) \in Int
    <2>1. PICK p \in Nat, q \in Nat : p = seen \div 10 /\ q = further \div 10 /\ p <= q
        OBVIOUS
    <2>2. /\ Min({p, 10}) = IF p <= 10 THEN p ELSE 10
          /\ Min({q, 10}) = IF q <= 10 THEN q ELSE 10
        BY MinOfTwo
    <2> QED BY <2>1, <2>2
<1>4. few(later) <= few(size) /\ few(later) \in Int /\ few(size) \in Int
    BY <1>1 DEF SparselyUsed
<1>5. BaseScore(size) <= BaseScore(later) /\ BaseScore(size) \in Int /\ BaseScore(later) \in Int
    BY BaseScoreGrows
<1>6. PICK t \in Int, u \in Int :
          t = total(size, blocks, seen) /\ u = total(later, more, further) /\ t <= u
    <2> HIDE DEF days, moves, few
    <2> QED BY <1>2, <1>3, <1>4, <1>5
<1>7. OverallScore(size, blocks, seen) = Max({0, Min({100, t})})
      /\ OverallScore(later, more, further) = Max({0, Min({100, u})})
    BY <1>6 DEF OverallScore
<1>8. ASSUME NEW x \in Int
      PROVE  Max({0, Min({100, x})}) = IF x >= 100 THEN 100 ELSE IF x <= 0 THEN 0 ELSE x
    <2>1. Min({100, x}) = IF 100 <= x THEN 100 ELSE x
        BY MinOfTwo
    <2>2. PICK m \in Int : m = Min({100, x})
        BY <2>1
    <2>3. Max({0, m}) = IF 0 >= m THEN 0 ELSE m
        BY MaxOfTwo
    <2> QED BY <2>1, <2>2, <2>3
<1>9. /\ OverallScore(size, blocks, seen)
             = IF t >= 100 THEN 100 ELSE IF t <= 0 THEN 0 ELSE t
      /\ OverallScore(later, more, further)
             = IF u >= 100 THEN 100 ELSE IF u <= 0 THEN 0 ELSE u
    BY <1>7, <1>8
<1> HIDE DEF total
<1> QED BY <1>6, <1>9

\* Waiting, and a set that grows, never lowers the score or takes a favourable word back,
\* for any constants of timing, any capacity and any numbers.
THEOREM WaitingAlwaysHelps == AdviceSpec => WaitingHelps
<1>1. AdviceInv /\ [AdviceNext]_adviceVars => AdviceImproves
    <2> SUFFICES ASSUME AdviceInv, [AdviceNext]_adviceVars,
                        NEW size \in setSize, NEW later \in setSize', later >= size
                 PROVE  /\ OverallScore(later, sinceFunding', transfers')
                               >= OverallScore(size, sinceFunding, transfers)
                        /\ Warnings(later, sinceFunding') \subseteq Warnings(size, sinceFunding)
                        /\ "favorable" \in Recommendations(size, sinceFunding, transfers)
                               => "favorable" \in
                                      Recommendations(later, sinceFunding', transfers')
                        /\ Rating(size) = "strong" => Rating(later) = "strong"
        BY DEF AdviceImproves
    <2>1. PICK blocks \in Nat, more \in Nat, seen \in Nat, further \in Nat :
              /\ blocks = sinceFunding /\ more = sinceFunding' /\ blocks <= more
              /\ seen = transfers /\ further = transfers' /\ seen <= further
        BY AdviceInvNext DEF AdviceInv
    <2>2. size \in Nat /\ later \in Nat /\ size <= later
        BY AdviceInvNext DEF AdviceInv
    <2>3. Capacity \in Nat /\ BlocksPerDay \in Nat
        BY PrivacyAdviceAssumption
    <2>4. OverallScore(later, more, further) >= OverallScore(size, blocks, seen)
        BY <2>1, <2>2, ScoreGrows
    <2>5. Warnings(later, more) \subseteq Warnings(size, blocks)
        <3>1. /\ later < 50 => size < 50
              /\ more = 0 => blocks = 0
              /\ later = 0 => size = 0
              /\ 20 * later < Capacity => 20 * size < Capacity
            BY <2>1, <2>2, <2>3
        <3> QED BY <3>1 DEF Warnings, SparselyUsed
    <2>6. "favorable" \in Recommendations(size, blocks, seen)
              => "favorable" \in Recommendations(later, more, further)
        BY <2>1, <2>2, <2>3 DEF Recommendations
    <2>7. Rating(size) = "strong" => Rating(later) = "strong"
        BY <2>2, BracketScores
    <2> QED BY <2>1, <2>4, <2>5, <2>6, <2>7, Zenon
<1>2. AdviceInv /\ [AdviceNext]_adviceVars => AdviceInv'
    BY AdviceInvNext
<1> QED BY <1>1, <1>2, AdviceInvInit, PTL DEF AdviceSpec, WaitingHelps

\* Rounded up, the blocks take at least the time they were made of.
LEMMA BlocksLast ==
    ASSUME NEW a \in Nat, NEW d \in Nat \ {0}
    PROVE  CeilDiv(a, d) \in Nat /\ CeilDiv(a, d) * d >= a
<1>1. PICK b \in Nat : b = a + d - 1
    OBVIOUS
<1>2. PICK q \in Nat : q = b \div d
    OBVIOUS
<1>3. b < d * (q + 1)
    BY <1>2
<1>4. CeilDiv(a, d) = q
    BY <1>1, <1>2 DEF CeilDiv
<1>5. PICK m \in Int : m = q * d
    OBVIOUS
<1>6. d * (q + 1) = m + d
    BY <1>5
<1> QED BY <1>1, <1>3, <1>4, <1>5, <1>6

\* A wait that was told lasts at least the minimum delay, or the maximum.
ToldLongEnough ==
    /\ toldToWait \in Nat
    /\ toldToWait > 0 =>
           Elapsed(toldToWait) >= MinDelayMs \/ Elapsed(toldToWait) >= MaxDelayMs

LEMMA ToldLongEnoughNext ==
    ASSUME AdviceInv, ToldLongEnough, [AdviceNext]_adviceVars PROVE ToldLongEnough'
<1>0. /\ MinDelayMs \in Nat /\ MaxDelayMs \in Nat /\ JitterMs \in Nat
      /\ AvgBlockTimeMs \in Nat \ {0} /\ MinInterveningTransfers \in Nat
    BY PrivacyAdviceAssumption
<1>1. CASE UNCHANGED toldToWait
    BY <1>1 DEF ToldLongEnough
<1>2. CASE AskWhen
    <2>1. CASE toldToWait' \in {CeilDiv(delay, AvgBlockTimeMs) : delay \in DepositDelays}
        <3>1. PICK jitter \in {0, Max({0, JitterMs - 1})} :
                  toldToWait' = CeilDiv(Min({MinDelayMs + jitter, MaxDelayMs}), AvgBlockTimeMs)
            BY <2>1 DEF DepositDelays
        <3>2. jitter \in Nat
            <4>1. Max({0, JitterMs - 1}) = IF 0 >= JitterMs - 1 THEN 0 ELSE JitterMs - 1
                BY <1>0, MaxOfTwo
            <4> QED BY <1>0, <4>1
        <3>3. PICK delay \in Nat : /\ delay = Min({MinDelayMs + jitter, MaxDelayMs})
                                   /\ delay >= MinDelayMs \/ delay >= MaxDelayMs
            <4>1. Min({MinDelayMs + jitter, MaxDelayMs})
                      = IF MinDelayMs + jitter <= MaxDelayMs
                        THEN MinDelayMs + jitter ELSE MaxDelayMs
                BY <1>0, <3>2, MinOfTwo
            <4> QED BY <1>0, <3>2, <4>1
        <3>4. PICK told \in Nat, ms \in Int :
                  told = toldToWait' /\ ms = told * AvgBlockTimeMs /\ ms >= delay
            <4>1. toldToWait' = CeilDiv(delay, AvgBlockTimeMs)
                BY <3>1, <3>3
            <4>2. /\ CeilDiv(delay, AvgBlockTimeMs) \in Nat
                  /\ CeilDiv(delay, AvgBlockTimeMs) * AvgBlockTimeMs >= delay
                BY <1>0, <3>3, BlocksLast
            <4>3. CeilDiv(delay, AvgBlockTimeMs) * AvgBlockTimeMs \in Int
                BY <1>0, <4>2
            <4>4. PICK told, ms : told = toldToWait' /\ ms = told * AvgBlockTimeMs
                OBVIOUS
            <4>5. told \in Nat /\ ms \in Int /\ ms >= delay
                BY <4>1, <4>2, <4>3, <4>4
            <4> QED BY <4>4, <4>5
        <3>5. ms >= MinDelayMs \/ ms >= MaxDelayMs
            <4>1. delay >= MinDelayMs \/ delay >= MaxDelayMs
                BY <3>3, Zenon
            <4>2. ms >= delay
                BY <3>4, Zenon
            <4> QED BY <1>0, <4>1, <4>2
        <3> QED BY <3>4, <3>5 DEF ToldLongEnough, Elapsed
    <2>2. CASE /\ transfers >= MinInterveningTransfers
               /\ toldToWait' = sinceFunding + BlocksRemaining(sinceFunding)
        <3>1. PICK since \in Nat, passed \in Nat :
                  since = sinceFunding /\ passed = since * AvgBlockTimeMs
            BY <1>0 DEF AdviceInv
        <3>2. ~(passed >= MinDelayMs)
            BY <1>2, <2>2, <3>1 DEF AskWhen, ShouldDeposit, Elapsed
        <3>3. PICK missing \in Nat : missing = MinDelayMs - passed
            BY <1>0, <3>1, <3>2
        <3>4. PICK blocks \in Nat, ms \in Int :
                  /\ blocks = BlocksRemaining(sinceFunding)
                  /\ ms = blocks * AvgBlockTimeMs /\ ms >= missing
            BY <1>0, <3>1, <3>3, BlocksLast DEF BlocksRemaining, Elapsed
        <3>5. (since + blocks) * AvgBlockTimeMs = passed + ms
            BY <1>0, <3>1, <3>4
        <3>6. toldToWait' = since + blocks /\ passed + ms >= MinDelayMs
            BY <1>0, <2>2, <3>1, <3>3, <3>4
        <3> QED BY <3>1, <3>4, <3>5, <3>6 DEF ToldLongEnough, Elapsed
    <2> QED BY <1>2, <2>1, <2>2 DEF AskWhen
<1> QED BY <1>1, <1>2 DEF AdviceNext, adviceVars, BlocksPass, TransfersHappen, PoolMoves,
                          FetchPoolStats, FetchEnds, FetchFails, ReadAnswered

\* The safety half of WaitsEnd.
WaitSuffices ==
    toldToWait > 0 /\ sinceFunding >= toldToWait /\ transfers >= MinInterveningTransfers
        => ShouldDeposit(sinceFunding, transfers)

\* Who waits as long as told, and sees the transfers wanted, is then told to deposit, for
\* any delays, jitter and block time.
THEOREM WaitAlwaysSuffices == AdviceSpec => []WaitSuffices
<1>1. AdviceInit => ToldLongEnough
    BY DEF AdviceInit, ToldLongEnough
<1>2. AdviceInv /\ ToldLongEnough /\ [AdviceNext]_adviceVars => AdviceInv' /\ ToldLongEnough'
    BY AdviceInvNext, ToldLongEnoughNext
<1>3. AdviceInv /\ ToldLongEnough => WaitSuffices
    <2> SUFFICES ASSUME AdviceInv, ToldLongEnough, toldToWait > 0, sinceFunding >= toldToWait,
                        transfers >= MinInterveningTransfers
                 PROVE  ShouldDeposit(sinceFunding, transfers)
        BY DEF WaitSuffices
    <2>0. /\ MinDelayMs \in Nat /\ MaxDelayMs \in Nat /\ AvgBlockTimeMs \in Nat
          /\ sinceFunding \in Nat /\ toldToWait \in Nat
        BY PrivacyAdviceAssumption DEF AdviceInv, ToldLongEnough
    <2>1. PICK more \in Nat : sinceFunding = toldToWait + more
        BY <2>0
    <2>2. PICK told \in Nat, ms \in Nat, after \in Nat :
              /\ told = toldToWait /\ ms = told * AvgBlockTimeMs /\ after = more * AvgBlockTimeMs
        BY <2>0
    <2>3. Elapsed(sinceFunding) = ms + after
        BY <2>0, <2>1, <2>2 DEF Elapsed
    <2>4. ms >= MinDelayMs \/ ms >= MaxDelayMs
        BY <2>2 DEF ToldLongEnough, Elapsed
    <2> QED BY <2>0, <2>2, <2>3, <2>4 DEF ShouldDeposit
<1> QED BY <1>1, <1>2, <1>3, AdviceInvInit, PTL DEF AdviceSpec

-----------------------------------------------------------------------------
(***************************************************************************)
(* The order of an account's transactions.                                 *)
(***************************************************************************)

\* Of nonces from the account's on, one is free that is not past as many as wait.
LEMMA FreeNonceExists ==
    ASSUME accountNonce \in Nat, IsFiniteSet(DOMAIN mempool), DOMAIN mempool \subseteq Nat
    PROVE  FreeNonce \in Nat /\ FreeNonce >= accountNonce
<1> DEFINE waiting == DOMAIN mempool
           size == Cardinality(waiting)
           last == accountNonce + size
           free == {n \in accountNonce .. last : n \notin waiting}
<1>1. size \in Nat /\ last \in Nat
    BY FS_CardinalityType
<1>2. free # {}
    <2> SUFFICES ASSUME free = {} PROVE FALSE
        OBVIOUS
    <2>1. accountNonce .. last \subseteq waiting
        OBVIOUS
    <2>2. Cardinality(accountNonce .. last) <= size
        BY <2>1, FS_Subset
    <2>3. Cardinality(accountNonce .. last) = last - accountNonce + 1
        BY <1>1, FS_Interval
    <2> QED BY <1>1, <2>2, <2>3
<1>3. PICK least \in free : \A n \in free : least <= n
    <2>1. free \subseteq Nat
        BY <1>1
    <2> HIDE DEF free
    <2> QED BY <1>2, <2>1, LeastExists
<1>4. accountNonce .. least - 1 \subseteq waiting
    <2> SUFFICES ASSUME NEW n \in accountNonce .. least - 1, n \notin waiting PROVE FALSE
        OBVIOUS
    <2>1. n \in free /\ ~(least <= n)
        BY <1>1
    <2> QED BY <1>3, <2>1
<1>5. FreeNonce \in accountNonce .. last
    BY <1>1, <1>3, <1>4 DEF FreeNonce
<1> QED BY <1>1, <1>5

\* The approval of submission i, with nonce g, waits, was mined, or lost its place.
ApprovalPlaced(i, g) ==
    \/ g \in DOMAIN mempool /\ mempool[g].by = i /\ mempool[g].kind = "approve"
    \/ i \in approvals
    \/ \E other \in displaced : other.by = i /\ other.kind = "approve"

\* What a call is about to send has the nonce that follows from the one it was given, and
\* a deposit its approval before it.
CallOrdered(i) ==
    LET call == submitted[i]
    IN  call # NotSubmitted =>
            /\ call = [name \in {"phase", "commitment", "given", "nonce"} |-> call[name]]
            /\ call.given \subseteq Nat /\ AtMostOne(call.given)
            /\ call.phase \in {"approve", "withdraw"} => call.nonce = call.given
            /\ call.phase = "deposit" =>
                   /\ call.nonce = NonceAfter(call.given)
                   /\ \A g \in call.given : ApprovalPlaced(i, g)

\* So has a deposit that waits.
DepositOrdered(n) ==
    LET tx   == mempool[n]
        call == submitted[tx.by]
    IN  tx.kind = "deposit" =>
            /\ tx.by \in Submissions /\ call # NotSubmitted
            /\ call.phase \in {"returned", "threw"}
            /\ \A g \in call.given : n = g + 1 /\ ApprovalPlaced(tx.by, g)

NoncesTyped ==
    /\ accountNonce \in Nat /\ IsFiniteSet(DOMAIN mempool)
    /\ DOMAIN mempool \subseteq Nat /\ \A n \in DOMAIN mempool : n >= accountNonce

OrderInv ==
    /\ submitted = [i \in Submissions |-> submitted[i]]
    /\ NoncesTyped
    /\ \A i \in Submissions : CallOrdered(i)
    /\ \A n \in DOMAIN mempool : DepositOrdered(n)

LEMMA OrderInvInit == AccountInit => OrderInv
<1> SUFFICES ASSUME AccountInit PROVE OrderInv
    OBVIOUS
<1>1. DOMAIN mempool = {}
    BY DEF AccountInit
<1>2. NoncesTyped
    BY <1>1, FS_EmptySet DEF AccountInit, NoncesTyped
<1>3. submitted = [i \in Submissions |-> submitted[i]]
      /\ \A i \in Submissions : submitted[i] = NotSubmitted
    BY DEF AccountInit
<1> QED BY <1>1, <1>2, <1>3 DEF OrderInv, CallOrdered

\* A call begins: of the others nothing changes.
LEMMA OrderedBegin ==
    ASSUME OrderInv, NEW i \in Submissions, submitted[i] = NotSubmitted,
           NEW kind \in {"approve", "withdraw"}, NEW commitments,
           NEW given \in {NoneGiven, {FreeNonce}},
           submitted' = [submitted EXCEPT ![i] = Begun(kind, commitments, given)],
           UNCHANGED <<mempool, accountNonce, approvals, displaced>>
    PROVE  OrderInv'
<1> USE DEF OrderInv
<1>1. given \subseteq Nat /\ AtMostOne(given)
    BY FreeNonceExists DEF NoncesTyped, NoneGiven, AtMostOne
<1>2. PICK call : call = Begun(kind, commitments, given)
    OBVIOUS
<1>3. /\ call = [name \in {"phase", "commitment", "given", "nonce"} |-> call[name]]
      /\ call.phase = kind /\ call.given = given /\ call.nonce = given
    BY <1>2 DEF Begun
<1>4. submitted' = [submitted EXCEPT ![i] = call]
    BY <1>2
<1>5. NoncesTyped'
    BY DEF NoncesTyped
<1>6. \A j, g : ApprovalPlaced(j, g) => ApprovalPlaced(j, g)'
    BY DEF ApprovalPlaced
<1>7. submitted'[i] = call /\ \A j \in Submissions : j # i => submitted'[j] = submitted[j]
    BY <1>4
<1>8. ASSUME NEW j \in Submissions PROVE CallOrdered(j)'
    <2>1. CASE j = i
        BY <1>1, <1>3, <1>7, <2>1 DEF CallOrdered
    <2>2. CASE j # i
        BY <1>6, <1>7, <2>2 DEF CallOrdered
    <2> QED BY <2>1, <2>2
<1>9. ASSUME NEW n \in DOMAIN mempool PROVE DepositOrdered(n)'
    <2>1. DepositOrdered(n) /\ mempool' = mempool
        OBVIOUS
    <2> QED BY <1>6, <1>7, <2>1 DEF DepositOrdered
<1> QED BY <1>4, <1>5, <1>8, <1>9

\* A transaction that is taken leaves the approvals of others placed, and those of its own
\* submission with another nonce.
LEMMA TakenKeepsPlaces ==
    ASSUME NEW i, NEW nonce, Taken(i, nonce), approvals' = approvals,
           NEW j, NEW g, j # i \/ g # nonce, ApprovalPlaced(j, g)
    PROVE  ApprovalPlaced(j, g)'
<1>1. /\ DOMAIN mempool' = DOMAIN mempool \cup {nonce}
      /\ \A n \in DOMAIN mempool : n # nonce => mempool'[n] = mempool[n]
      /\ displaced' = displaced \cup
             {tx \in {mempool[n] : n \in DOMAIN mempool \cap {nonce}} : tx.by # i}
    BY DEF Taken
<1>2. displaced \subseteq displaced'
    BY <1>1
<1>3. CASE g \in DOMAIN mempool /\ mempool[g].by = j /\ mempool[g].kind = "approve"
    <2>1. CASE g # nonce
        BY <1>1, <1>3, <2>1 DEF ApprovalPlaced
    <2>2. CASE g = nonce
        <3>1. mempool[g] \in displaced'
            BY <1>1, <1>3, <2>2
        <3> QED BY <1>3, <3>1 DEF ApprovalPlaced
    <2> QED BY <2>1, <2>2
<1> QED BY <1>2, <1>3 DEF ApprovalPlaced

\* What a call may send next has the nonce that follows from the one it was given.
LEMMA NoncesFollow ==
    ASSUME OrderInv, NEW i \in Submissions,
           submitted[i].phase \in {"approve", "deposit", "withdraw"},
           NEW nonce \in NoncesFor(submitted[i].nonce)
    PROVE  /\ nonce \in Nat /\ submitted[i] # NotSubmitted
           /\ \A g \in submitted[i].given :
                  nonce = IF submitted[i].phase = "deposit" THEN g + 1 ELSE g
<1> DEFINE call == submitted[i]
<1>1. call # NotSubmitted
    BY DEF NotSubmitted
<1>2. /\ call.given \subseteq Nat /\ AtMostOne(call.given)
      /\ call.nonce = IF call.phase = "deposit" THEN NonceAfter(call.given) ELSE call.given
    BY <1>1 DEF OrderInv, CallOrdered
<1>3. CASE call.nonce = NoneGiven
    <2>1. call.given = {}
        BY <1>2, <1>3 DEF NoneGiven, NonceAfter
    <2>2. nonce \in accountNonce .. FreeNonce
        BY <1>3 DEF NoncesFor
    <2> QED BY <1>1, <2>1, <2>2, FreeNonceExists DEF OrderInv, NoncesTyped
<1>4. CASE call.nonce # NoneGiven
    <2>1. nonce \in call.nonce
        BY <1>4 DEF NoncesFor
    <2>2. CASE call.phase = "deposit"
        <3>1. PICK g \in call.given : nonce = g + 1
            BY <1>2, <2>1, <2>2 DEF NonceAfter
        <3>2. \A h \in call.given : h = g
            BY <1>2 DEF AtMostOne
        <3> QED BY <1>1, <1>2, <2>2, <3>1, <3>2
    <2>3. CASE call.phase # "deposit"
        BY <1>1, <1>2, <2>1, <2>3 DEF AtMostOne
    <2> QED BY <2>2, <2>3
<1> QED BY <1>3, <1>4

\* A call sends its transaction, and the node takes it.
LEMMA OrderedTaken ==
    ASSUME OrderInv, NEW i \in Submissions,
           submitted[i].phase \in {"approve", "deposit", "withdraw"},
           NEW nonce \in NoncesFor(submitted[i].nonce), Taken(i, nonce),
           UNCHANGED <<accountNonce, approvals>>,
           NEW after, submitted' = [submitted EXCEPT ![i] = after],
           after = [name \in {"phase", "commitment", "given", "nonce"} |-> after[name]],
           after.given = submitted[i].given,
           \/ after.phase \in {"returned", "threw"}
           \/ /\ submitted[i].phase = "approve" /\ after.phase = "deposit"
              /\ after.nonce = NonceAfter(submitted[i].nonce)
    PROVE  OrderInv'
<1> USE DEF OrderInv
<1>1. PICK call : call = submitted[i]
    OBVIOUS
<1>2. /\ nonce \in Nat /\ nonce >= accountNonce /\ call # NotSubmitted
      /\ \A g \in call.given : nonce = IF call.phase = "deposit" THEN g + 1 ELSE g
    BY <1>1, NoncesFollow DEF Taken
<1>3. /\ call.given \subseteq Nat /\ AtMostOne(call.given)
      /\ call.phase \in {"approve", "withdraw"} => call.nonce = call.given
      /\ call.phase = "deposit" => \A g \in call.given : ApprovalPlaced(i, g)
    BY <1>1, <1>2 DEF CallOrdered
<1>4. /\ DOMAIN mempool' = DOMAIN mempool \cup {nonce}
      /\ mempool'[nonce].by = i /\ mempool'[nonce].kind = call.phase
      /\ \A n \in DOMAIN mempool : n # nonce => mempool'[n] = mempool[n]
    BY <1>1 DEF Taken
<1>5. /\ submitted'[i] = after /\ \A j \in Submissions : j # i => submitted'[j] = submitted[j]
      /\ submitted' = [j \in Submissions |-> submitted'[j]]
    OBVIOUS
<1>6. NoncesTyped'
    <2>1. IsFiniteSet(DOMAIN mempool')
        BY <1>4, FS_AddElement DEF NoncesTyped
    <2> QED BY <1>2, <1>4, <2>1 DEF NoncesTyped
<1>7. \A j, g : (j # i \/ g # nonce) /\ ApprovalPlaced(j, g) => ApprovalPlaced(j, g)'
    BY TakenKeepsPlaces
<1>8. after # NotSubmitted
    <2>1. DOMAIN after = {"phase", "commitment", "given", "nonce"}
        BY Zenon
    <2>2. DOMAIN NotSubmitted = {"phase"}
        BY DEF NotSubmitted
    <2> QED BY <2>1, <2>2
<1>9. ASSUME NEW j \in Submissions PROVE CallOrdered(j)'
    <2>1. CASE j # i
        <3>1. CallOrdered(j) /\ submitted'[j] = submitted[j]
            BY <1>5, <2>1
        <3> QED BY <1>7, <2>1, <3>1 DEF CallOrdered
    <2>2. CASE j = i /\ after.phase \in {"returned", "threw"}
        BY <1>1, <1>3, <1>5, <2>2 DEF CallOrdered
    <2>3. CASE j = i /\ call.phase = "approve" /\ after.phase = "deposit"
               /\ after.nonce = NonceAfter(call.nonce)
        <3>1. \A g \in call.given : ApprovalPlaced(i, g)'
            BY <1>2, <1>4, <2>3 DEF ApprovalPlaced
        <3> QED BY <1>1, <1>3, <1>5, <2>3, <3>1 DEF CallOrdered
    <2> QED BY <1>1, <2>1, <2>2, <2>3
<1>10. ASSUME NEW n \in DOMAIN mempool' PROVE DepositOrdered(n)'
    <2>1. CASE n # nonce
        <3>1. n \in DOMAIN mempool /\ mempool'[n] = mempool[n] /\ DepositOrdered(n)
            BY <1>4, <2>1
        <3> SUFFICES ASSUME mempool[n].kind = "deposit" PROVE DepositOrdered(n)'
            BY <3>1 DEF DepositOrdered
        <3>2. PICK j \in Submissions : j = mempool[n].by
            BY <3>1 DEF DepositOrdered
        <3>3. /\ submitted[j] # NotSubmitted /\ submitted[j].phase \in {"returned", "threw"}
              /\ \A g \in submitted[j].given : n = g + 1 /\ ApprovalPlaced(j, g)
            BY <3>1, <3>2 DEF DepositOrdered
        <3>4. j # i
            BY <3>3
        <3>5. \A g \in submitted[j].given : ApprovalPlaced(j, g)'
            BY <1>7, <3>3, <3>4
        <3> QED BY <1>5, <3>1, <3>2, <3>3, <3>4, <3>5 DEF DepositOrdered
    <2>2. CASE n = nonce
        <3> SUFFICES ASSUME call.phase = "deposit" PROVE DepositOrdered(n)'
            BY <1>4, <2>2 DEF DepositOrdered
        <3>1. \A g \in call.given : n = g + 1 /\ ApprovalPlaced(i, g)'
            <4> SUFFICES ASSUME NEW g \in call.given PROVE n = g + 1 /\ ApprovalPlaced(i, g)'
                OBVIOUS
            <4>1. n = g + 1 /\ g # nonce
                BY <1>2, <1>3, <2>2
            <4> QED BY <1>3, <1>7, <4>1
        <3>2. after.phase \in {"returned", "threw"}
            BY <1>1
        <3> QED BY <1>1, <1>4, <1>5, <1>8, <2>2, <3>1, <3>2 DEF DepositOrdered
    <2> QED BY <2>1, <2>2
<1> QED BY <1>5, <1>6, <1>9, <1>10

\* A call throws, and the node has not taken its transaction.
LEMMA OrderedThrow ==
    ASSUME OrderInv, NEW i \in Submissions,
           submitted[i].phase \in {"approve", "deposit", "withdraw"},
           submitted' = [submitted EXCEPT ![i].phase = "threw"],
           UNCHANGED <<mempool, displaced, accountNonce, approvals>>
    PROVE  OrderInv'
<1> USE DEF OrderInv
<1>1. PICK call, after : call = submitted[i] /\ after = [call EXCEPT !.phase = "threw"]
    OBVIOUS
<1>2. /\ call # NotSubmitted
      /\ call = [name \in {"phase", "commitment", "given", "nonce"} |-> call[name]]
      /\ call.given \subseteq Nat /\ AtMostOne(call.given)
    BY <1>1 DEF CallOrdered, NotSubmitted
<1>3. /\ after = [name \in {"phase", "commitment", "given", "nonce"} |-> after[name]]
      /\ after.given = call.given /\ after.phase = "threw"
    BY <1>1, <1>2
<1>4. submitted'[i] = after /\ \A j \in Submissions : j # i => submitted'[j] = submitted[j]
    BY <1>1
<1>5. submitted' = [j \in Submissions |-> submitted'[j]]
    OBVIOUS
<1>6. NoncesTyped' /\ \A j, g : ApprovalPlaced(j, g) => ApprovalPlaced(j, g)'
    BY DEF NoncesTyped, ApprovalPlaced
<1>7. ASSUME NEW j \in Submissions PROVE CallOrdered(j)'
    <2>1. CASE j = i
        BY <1>2, <1>3, <1>4, <2>1 DEF CallOrdered
    <2>2. CASE j # i
        BY <1>4, <1>6, <2>2 DEF CallOrdered
    <2> QED BY <2>1, <2>2
<1>8. ASSUME NEW n \in DOMAIN mempool PROVE DepositOrdered(n)'
    <2>1. DepositOrdered(n) /\ mempool' = mempool
        OBVIOUS
    <2>2. mempool[n].kind = "deposit" => mempool[n].by # i
        BY <2>1 DEF DepositOrdered
    <2> QED BY <1>4, <1>6, <2>1, <2>2 DEF DepositOrdered
<1> QED BY <1>5, <1>6, <1>7, <1>8

LEMMA OrderedBroadcast ==
    ASSUME OrderInv, NEW i \in Submissions,
           BroadcastApproval(i) \/ BroadcastDeposit(i) \/ BroadcastWithdrawal(i)
    PROVE  OrderInv'
<1>1. PICK call : call = submitted[i]
    OBVIOUS
<1>2. call.phase \in {"approve", "deposit", "withdraw"}
    BY <1>1 DEF BroadcastApproval, BroadcastDeposit, BroadcastWithdrawal, Broadcast
<1>3. call = [name \in {"phase", "commitment", "given", "nonce"} |-> call[name]]
    BY <1>1, <1>2 DEF OrderInv, CallOrdered, NotSubmitted
<1>4. PICK approved, returned, threw :
          /\ approved = [call EXCEPT !.phase = "deposit", !.nonce = NonceAfter(call.nonce)]
          /\ returned = [call EXCEPT !.phase = "returned"]
          /\ threw = [call EXCEPT !.phase = "threw"]
    OBVIOUS
<1>5. /\ approved = [name \in {"phase", "commitment", "given", "nonce"} |-> approved[name]]
      /\ approved.given = call.given /\ approved.phase = "deposit"
      /\ approved.nonce = NonceAfter(call.nonce)
      /\ returned = [name \in {"phase", "commitment", "given", "nonce"} |-> returned[name]]
      /\ returned.given = call.given /\ returned.phase = "returned"
      /\ threw = [name \in {"phase", "commitment", "given", "nonce"} |-> threw[name]]
      /\ threw.given = call.given /\ threw.phase = "threw"
    BY <1>3, <1>4
<1>6. PICK next : /\ Broadcast(i, call.phase, next)
                  /\ (next = approved /\ call.phase = "approve") \/ next = returned
    BY <1>1, <1>4 DEF BroadcastApproval, BroadcastDeposit, BroadcastWithdrawal, Broadcast
<1>7. UNCHANGED <<accountNonce, approvals>>
    BY <1>6 DEF Broadcast
<1>8. PICK nonce \in NoncesFor(call.nonce) :
          \/ Taken(i, nonce) /\ submitted' = [submitted EXCEPT ![i] = next]
          \/ /\ Taken(i, nonce) \/ UNCHANGED <<mempool, displaced>>
             /\ submitted' = [submitted EXCEPT ![i].phase = "threw"]
    BY <1>1, <1>6 DEF Broadcast
<1>9. submitted' = [submitted EXCEPT ![i].phase = "threw"]
          => submitted' = [submitted EXCEPT ![i] = threw]
    BY <1>1, <1>4
<1>10. CASE Taken(i, nonce) /\ submitted' = [submitted EXCEPT ![i] = next]
    <2>1. CASE next = approved /\ call.phase = "approve"
        BY <1>1, <1>2, <1>5, <1>7, <1>8, <1>10, <2>1, OrderedTaken
    <2>2. CASE next = returned
        BY <1>1, <1>2, <1>5, <1>7, <1>8, <1>10, <2>2, OrderedTaken
    <2> QED BY <1>6, <2>1, <2>2
<1>11. CASE Taken(i, nonce) /\ submitted' = [submitted EXCEPT ![i].phase = "threw"]
    BY <1>1, <1>2, <1>5, <1>7, <1>8, <1>9, <1>11, OrderedTaken
<1>12. CASE /\ UNCHANGED <<mempool, displaced>>
            /\ submitted' = [submitted EXCEPT ![i].phase = "threw"]
    BY <1>1, <1>2, <1>7, <1>12, OrderedThrow
<1> QED BY <1>8, <1>10, <1>11, <1>12

\* A transaction leaves: mined, or dropped.
LEMMA OrderedLeave ==
    ASSUME OrderInv, NEW nonce \in DOMAIN mempool,
           mempool' = [n \in DOMAIN mempool \ {nonce} |-> mempool[n]],
           submitted' = submitted,
           accountNonce' \in Nat, \A n \in DOMAIN mempool \ {nonce} : n >= accountNonce',
           approvals \subseteq approvals', displaced \subseteq displaced',
           mempool[nonce].kind = "approve" =>
               mempool[nonce].by \in approvals' \/ mempool[nonce] \in displaced'
    PROVE  OrderInv'
<1> USE DEF OrderInv
<1>1. /\ DOMAIN mempool' = DOMAIN mempool \ {nonce}
      /\ \A n \in DOMAIN mempool' : mempool'[n] = mempool[n]
    OBVIOUS
<1>2. NoncesTyped'
    <2>1. IsFiniteSet(DOMAIN mempool')
        BY <1>1, FS_RemoveElement DEF NoncesTyped
    <2> QED BY <1>1, <2>1 DEF NoncesTyped
<1>3. ASSUME NEW j, NEW g, ApprovalPlaced(j, g) PROVE ApprovalPlaced(j, g)'
    BY <1>1, <1>3 DEF ApprovalPlaced
<1>4. ASSUME NEW j \in Submissions PROVE CallOrdered(j)'
    BY <1>3 DEF CallOrdered
<1>5. ASSUME NEW n \in DOMAIN mempool' PROVE DepositOrdered(n)'
    <2>1. DepositOrdered(n) /\ mempool'[n] = mempool[n]
        BY <1>1
    <2> QED BY <1>3, <2>1 DEF DepositOrdered
<1> QED BY <1>2, <1>4, <1>5

LEMMA OrderInvNext == OrderInv /\ [AccountNext]_accountVars => OrderInv'
<1> SUFFICES ASSUME OrderInv, [AccountNext]_accountVars PROVE OrderInv'
    OBVIOUS
<1>1. ASSUME NEW i \in Submissions, SubmitDeposit(i) PROVE OrderInv'
    BY <1>1, OrderedBegin DEF SubmitDeposit
<1>2. ASSUME NEW i \in Submissions, SubmitWithdrawal(i) PROVE OrderInv'
    BY <1>2, OrderedBegin DEF SubmitWithdrawal
<1>3. CASE Mined
    <2>1. /\ accountNonce \in DOMAIN mempool
          /\ mempool' = [n \in DOMAIN mempool \ {accountNonce} |-> mempool[n]]
          /\ submitted' = submitted /\ accountNonce' = accountNonce + 1
          /\ approvals \subseteq approvals' /\ displaced' = displaced
          /\ mempool[accountNonce].kind = "approve" =>
                 mempool[accountNonce].by \in approvals'
        BY <1>3 DEF Mined
    <2>2. /\ accountNonce' \in Nat
          /\ \A n \in DOMAIN mempool \ {accountNonce} : n >= accountNonce'
        BY <2>1 DEF OrderInv, NoncesTyped
    <2>3. PICK nonce : nonce = accountNonce
        OBVIOUS
    <2> QED BY <2>1, <2>2, <2>3, OrderedLeave
<1>4. CASE Dropped
    <2>1. PICK nonce \in DOMAIN mempool :
              /\ mempool' = [n \in DOMAIN mempool \ {nonce} |-> mempool[n]]
              /\ displaced' = displaced \cup {mempool[nonce]}
        BY <1>4 DEF Dropped
    <2>2. submitted' = submitted /\ accountNonce' = accountNonce /\ approvals' = approvals
        BY <1>4 DEF Dropped
    <2> QED BY <2>1, <2>2, OrderedLeave DEF OrderInv, NoncesTyped
<1>5. CASE UNCHANGED accountVars
    BY <1>5 DEF accountVars, OrderInv, NoncesTyped, CallOrdered, DepositOrdered, ApprovalPlaced
<1> QED BY <1>1, <1>2, <1>3, <1>4, <1>5, OrderedBroadcast DEF AccountNext

\* When the deposit of a call that was given a nonce is the next to be mined, its approval
\* was mined, or lost its place to another call or the node, however many calls send
\* transactions at once and whichever requests fail.
THEOREM ApprovalsComeFirst == AccountSpec => []ApprovedFirst
<1>1. ASSUME OrderInv, accountNonce \in DOMAIN mempool, mempool[accountNonce].kind = "deposit",
             submitted[mempool[accountNonce].by].given # NoneGiven
      PROVE  \/ mempool[accountNonce].by \in approvals
             \/ \E other \in displaced : /\ other.by = mempool[accountNonce].by
                                         /\ other.kind = "approve"
    <2>1. PICK n, i : n = accountNonce /\ i = mempool[n].by
        OBVIOUS
    <2>2. PICK g \in submitted[i].given : TRUE
        BY <1>1, <2>1 DEF NoneGiven
    <2>3. i \in Submissions /\ n = g + 1 /\ ApprovalPlaced(i, g) /\ submitted[i] # NotSubmitted
        BY <1>1, <2>1, <2>2 DEF OrderInv, DepositOrdered
    <2>4. g \in Nat
        BY <1>1, <2>2, <2>3 DEF OrderInv, CallOrdered
    <2>5. g \notin DOMAIN mempool
        BY <1>1, <2>1, <2>3, <2>4 DEF OrderInv, NoncesTyped
    <2> QED BY <2>1, <2>3, <2>5 DEF ApprovalPlaced
<1>2. OrderInv => ApprovedFirst
    BY <1>1 DEF ApprovedFirst
<1> QED BY <1>2, OrderInvInit, OrderInvNext, PTL DEF AccountSpec
=============================================================================
