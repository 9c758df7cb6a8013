--------------------------- MODULE RaftCountProofs ---------------------------
(***************************************************************************)
(* The counting of votes: an election never counts more votes than there   *)
(* are servers whose disks back it, and it hears exactly once from every   *)
(* server, for every number of servers.                                    *)
(***************************************************************************)
EXTENDS RaftVoteProofs, FiniteSetTheorems

\* The same RequestVote, wherever it has got to.
SameRequest(m, n) ==
  /\ m.kind = n.kind /\ m.src = n.src /\ m.dst = n.dst
  /\ m.by = n.by /\ m.term = n.term

\* The servers from which the election of s in term t has yet to hear.
Awaited(s, t) ==
  {v \in Server : \E m \in rpcs : /\ m.kind = "RV" /\ m.caller
                                  /\ m.src = s /\ m.by = t /\ m.dst = v}

RequestOK(m) == m.term = m.by /\ m.by <= saved[m.src].currentTerm

RequestsOK == \A m \in rpcs : m.kind = "RV" => RequestOK(m)

\* callElection asks every server once, in a term it never uses again.
RequestsUnique ==
  \A m, n \in rpcs : m.kind = "RV" /\ SameRequest(m, n) => m = n

\* Every vote counted is that of a server no longer awaited.
TallyOK(c) ==
  /\ c.term <= saved[c.server].currentTerm
  /\ c.votes <= Cardinality(Backers(c) \ Awaited(c.server, c.term))
  /\ c.at = "collect" => c.heard + Cardinality(Awaited(c.server, c.term)) = N

CountInv ==
  /\ VoteInv
  /\ RequestsOK
  /\ RequestsUnique
  /\ \A c \in campaigns : TallyOK(c)

\* Every set of servers has a size, and grows or shrinks by one at a time.
LEMMA Sizes ==
  ASSUME NEW S, S \subseteq Server
  PROVE  /\ IsFiniteSet(S) /\ Cardinality(S) \in Nat
         /\ \A T : T \subseteq S => Cardinality(T) <= Cardinality(S)
         /\ \A v \in S : Cardinality(S \ {v}) = Cardinality(S) - 1
<1>1. IsFiniteSet(S)
  BY ServerAssumption, FS_Subset
<1>2. Cardinality(S) \in Nat
  BY <1>1, FS_CardinalityType
<1>3. \A T : T \subseteq S => Cardinality(T) <= Cardinality(S)
  BY <1>1, FS_Subset
<1>4. \A v \in S : Cardinality(S \ {v}) = Cardinality(S) - 1
  BY <1>1, FS_RemoveElement
<1> QED
  BY <1>1, <1>2, <1>3, <1>4

\* What the invariant is for: each call still awaited is to a server of its own.
LEMMA CountInvImplies == CountInv => VotesAreBacked /\ VotesAccounted
<1> SUFFICES ASSUME CountInv PROVE VotesAreBacked /\ VotesAccounted
  OBVIOUS
<1>1. VotesAreBacked
  <2> SUFFICES ASSUME NEW c \in campaigns PROVE c.votes <= Cardinality(Backers(c))
    BY DEF VotesAreBacked
  <2> DEFINE W == Awaited(c.server, c.term)
             K == Backers(c)
  <2>1. c.votes \in Nat /\ c.votes <= Cardinality(K \ W)
    BY DEF CountInv, TallyOK, VoteInv, IndexInv, CampaignsOK, CampaignOK, Campaign
  <2>2. K \subseteq Server /\ K \ W \subseteq Server
    BY DEF Backers
  <2> HIDE DEF W, K
  <2>3. Cardinality(K \ W) <= Cardinality(K) /\ Cardinality(K) \in Nat /\ Cardinality(K \ W) \in Nat
    BY <2>2, Sizes
  <2>4. c.votes <= Cardinality(K)
    BY <2>1, <2>3
  <2> QED
    BY <2>4 DEF K
<1>2. VotesAccounted
  <2> SUFFICES ASSUME NEW c \in campaigns, c.at = "collect"
               PROVE  c.heard + Cardinality({m \in rpcs : m.kind = "RV" /\ m.src = c.server
                                                          /\ m.by = c.term /\ m.caller}) = N
    BY DEF VotesAccounted
  <2> DEFINE P == {m \in rpcs : m.kind = "RV" /\ m.src = c.server /\ m.by = c.term /\ m.caller}
             W == Awaited(c.server, c.term)
             f == [m \in P |-> m.dst]
  <2>1. \A m \in rpcs : m.dst \in Server
    BY RpcKind DEF CountInv, VoteInv, IndexInv, RpcsOK, RpcOK
  <2>2. \A m, n \in P : m.dst = n.dst => m = n
    BY DEF CountInv, RequestsOK, RequestOK, RequestsUnique, SameRequest
  <2>3. W \subseteq Server /\ (\A m \in P : m.dst \in W) /\ \A v \in W : \E m \in P : m.dst = v
    BY <2>1 DEF Awaited
  <2>4. c.heard + Cardinality(W) = N
    BY Zenon DEF CountInv, TallyOK
  <2> HIDE DEF P, W
  <2>5. f \in Injection(P, W) /\ f \in Surjection(P, W)
    BY <2>2, <2>3 DEF Injection, Surjection, IsInjective
  <2>6. IsFiniteSet(W)
    BY <2>3, Sizes
  <2> HIDE DEF f
  <2>7. Cardinality(P) = Cardinality(W)
    BY <2>5, <2>6, FS_Injection
  <2>8. c.heard + Cardinality(P) = N
    BY <2>4, <2>7
  <2> QED
    BY <2>8 DEF P
<1> QED
  BY <1>1, <1>2

\* No elections, nothing to count.
LEMMA CountInit == Init => CountInv
<1> SUFFICES ASSUME Init PROVE CountInv
  OBVIOUS
<1>1. rpcs = {} /\ campaigns = {}
  BY DEF Init
<1> QED
  BY <1>1, VoteInit DEF CountInv, RequestsOK, RequestsUnique
-----------------------------------------------------------------------------
(* What a step may do to the requests and to the elections that count them. *)

\* Every request of the new state was there before, and every caller but those
\* of the calls in L still waits.
Carried(L) ==
  /\ \A n \in rpcs' : n.kind = "RV" =>
       \E m \in rpcs : SameRequest(m, n) /\ (n.caller => m.caller /\ m \notin L)
  /\ \A m \in rpcs \ L : m.kind = "RV" /\ m.caller =>
       \E n \in rpcs' : SameRequest(m, n) /\ n.caller

\* A request whose answer the election of s in term t waits for.
Pending(m, s, t) == m.kind = "RV" /\ m.caller /\ m.src = s /\ m.by = t

\* Election c goes on as d without an answer.
Unheard(c, d, L) ==
  /\ \A m \in L : ~ Pending(m, c.server, c.term)
  /\ d.votes <= c.votes
  /\ d.at = "collect" => c.at = "collect" /\ d.heard = c.heard

\* Election c goes on as d with the answer, or the failure, of the one call in L.
Heard(c, d, L) ==
  \E m \in rpcs :
    /\ L = {m} /\ Pending(m, c.server, c.term)
    /\ d.votes <= c.votes \/ (m.granted /\ d.votes <= c.votes + 1)
    /\ d.at = "collect" => c.at = "collect" /\ d.heard = c.heard + 1

GoesOn(L) ==
  \A d \in campaigns' : \E c \in campaigns :
    /\ d.server = c.server /\ d.term = c.term
    /\ Unheard(c, d, L) \/ Heard(c, d, L)

\* The disks do not go back: no term on them falls, and a server that backs
\* an election backs it for good.
LEMMA BackersGrow ==
  ASSUME VoteInv, VoteInv', DiskStep
  PROVE  /\ \A s \in Server : /\ saved[s].currentTerm \in Nat
                              /\ saved'[s].currentTerm \in Nat
                              /\ saved[s].currentTerm <= saved'[s].currentTerm
         /\ \A c \in Campaign : Backers(c) \subseteq Backers(c)'
<1>1. \A s \in Server : saved[s].currentTerm \in Nat /\ saved'[s].currentTerm \in Nat
  BY DEF VoteInv, IndexInv, PersistentOK, Disk
<1>2. \A s \in Server : SameVote(s) \/ Enters(s) \/ Casts(s)
  BY DEF DiskStep
<1>3. \A s \in Server : saved[s].currentTerm <= saved'[s].currentTerm
  BY <1>1, <1>2 DEF SameVote, Enters, Casts
<1>4. ASSUME NEW c \in Campaign, NEW v \in Backers(c) PROVE v \in Backers(c)'
  <2>1. v \in Server /\ c.term \in Nat /\ c.server \in Server /\ c.server # None
    BY ServerAssumption DEF Backers, Campaign
  <2>2. \/ saved[v].currentTerm > c.term
        \/ saved[v].currentTerm = c.term /\ saved[v].votedFor = c.server
    BY DEF Backers
  <2>3. \/ saved'[v].currentTerm > c.term
        \/ saved'[v].currentTerm = c.term /\ saved'[v].votedFor = c.server
    BY <1>1, <1>2, <2>1, <2>2 DEF SameVote, Enters, Casts
  <2> QED
    BY <2>1, <2>3 DEF Backers
<1> QED
  BY <1>1, <1>3, <1>4

\* Such a step keeps the books of every election.
LEMMA Tally ==
  ASSUME CountInv, VoteInv', DiskStep, RequestsUnique',
         NEW L, L \subseteq rpcs, Carried(L), GoesOn(L)
  PROVE  CountInv'
<1>1. /\ \A s \in Server : /\ saved[s].currentTerm \in Nat
                           /\ saved'[s].currentTerm \in Nat
                           /\ saved[s].currentTerm <= saved'[s].currentTerm
      /\ \A c \in Campaign : Backers(c) \subseteq Backers(c)'
  BY BackersGrow DEF CountInv
<1>2. \A m \in rpcs : m.src \in Server /\ m.dst \in Server /\ m.by \in Nat /\ m.term \in Nat
  BY RpcKind DEF CountInv, VoteInv, IndexInv, RpcsOK, RpcOK
<1>3. RequestsOK'
  <2> SUFFICES ASSUME NEW n \in rpcs', n.kind = "RV" PROVE RequestOK(n)'
    BY DEF RequestsOK
  <2>1. PICK m \in rpcs : SameRequest(m, n)
    BY DEF Carried
  <2>2. RequestOK(m)
    BY <2>1 DEF CountInv, RequestsOK, SameRequest
  <2> QED
    BY <1>1, <1>2, <2>1, <2>2 DEF RequestOK, SameRequest
<1>4. ASSUME NEW d \in campaigns' PROVE TallyOK(d)'
  <2>1. PICK c \in campaigns : /\ d.server = c.server /\ d.term = c.term
                               /\ Unheard(c, d, L) \/ Heard(c, d, L)
    BY DEF GoesOn
  <2>2. /\ c \in Campaign /\ c.server \in Server /\ c.term \in Nat
        /\ c.votes \in Nat /\ c.heard \in Nat /\ TallyOK(c)
    BY DEF CountInv, VoteInv, IndexInv, CampaignsOK, CampaignOK, Campaign
  <2>3. d.votes \in Nat
    BY DEF VoteInv, IndexInv, CampaignsOK, CampaignOK, Campaign
  <2>4. PICK W : W = Awaited(c.server, c.term)
    BY Zenon
  <2>5. PICK W1 : W1 = Awaited(c.server, c.term)'
    BY Zenon
  <2>6. PICK K : K = Backers(c)
    BY Zenon
  <2>7. PICK K1 : K1 = Backers(c)'
    BY Zenon
  <2>8. /\ W \subseteq Server /\ W1 \subseteq Server /\ K \subseteq Server /\ K1 \subseteq Server
        /\ K \subseteq K1
    BY <1>1, <2>2, <2>4, <2>5, <2>6, <2>7 DEF Awaited, Backers
  <2>9. /\ \A v \in W : \E m \in rpcs : Pending(m, c.server, c.term) /\ m.dst = v
        /\ \A m \in rpcs : Pending(m, c.server, c.term) => m.dst \in W
    BY <1>2, <2>4 DEF Awaited, Pending
  <2>10. \A v \in Server : v \in W1 <=>
           \E n \in rpcs' : Pending(n, c.server, c.term) /\ n.dst = v
    BY <2>5 DEF Awaited, Pending
  <2>11. c.votes <= Cardinality(K \ W) /\ (c.at = "collect" => c.heard + Cardinality(W) = N)
    BY <2>2, <2>4, <2>6 DEF TallyOK
  <2>12. d.term <= saved'[d.server].currentTerm
    BY <1>1, <2>1, <2>2 DEF TallyOK
  <2>13. Backers(d)' = K1 /\ Awaited(d.server, d.term)' = W1
    BY <2>1, <2>5, <2>7 DEF Backers
  <2>14. SUFFICES /\ d.votes <= Cardinality(K1 \ W1)
                  /\ d.at = "collect" => d.heard + Cardinality(W1) = N
    BY <2>12, <2>13 DEF TallyOK
  <2>15. CASE Unheard(c, d, L)
    <3>1. W1 = W
      <4>1. ASSUME NEW v \in W1 PROVE v \in W
        <5>1. PICK n \in rpcs' : Pending(n, c.server, c.term) /\ n.dst = v
          BY <2>8, <2>10
        <5>2. PICK m \in rpcs : SameRequest(m, n) /\ m.caller
          BY <5>1 DEF Carried, Pending
        <5> QED
          BY <2>9, <5>1, <5>2 DEF SameRequest, Pending
      <4>2. ASSUME NEW v \in W PROVE v \in W1
        <5>1. PICK m \in rpcs : Pending(m, c.server, c.term) /\ m.dst = v
          BY <2>9
        <5>2. m \notin L
          BY <2>15, <5>1 DEF Unheard
        <5>3. PICK n \in rpcs' : SameRequest(m, n) /\ n.caller
          BY <5>1, <5>2 DEF Carried, Pending
        <5> QED
          BY <2>8, <2>10, <5>1, <5>3 DEF SameRequest, Pending
      <4> QED
        BY <4>1, <4>2, Zenon
    <3>2. Cardinality(K \ W) <= Cardinality(K1 \ W1)
      BY <2>8, <3>1, Sizes
    <3>3. Cardinality(K \ W) \in Nat /\ Cardinality(K1 \ W1) \in Nat
      BY <2>8, Sizes
    <3> QED
      BY <2>2, <2>3, <2>11, <2>15, <3>1, <3>2, <3>3 DEF Unheard
  <2>16. CASE Heard(c, d, L)
    <3>1. PICK m \in rpcs :
            /\ L = {m} /\ Pending(m, c.server, c.term)
            /\ d.votes <= c.votes \/ (m.granted /\ d.votes <= c.votes + 1)
            /\ d.at = "collect" => c.at = "collect" /\ d.heard = c.heard + 1
      BY <2>16 DEF Heard
    <3>2. m.dst \in W
      BY <2>9, <3>1
    <3>3. W1 = W \ {m.dst}
      <4>1. ASSUME NEW v \in W1 PROVE v \in W \ {m.dst}
        <5>1. PICK n \in rpcs' : Pending(n, c.server, c.term) /\ n.dst = v
          BY <2>8, <2>10
        <5>2. PICK r \in rpcs : SameRequest(r, n) /\ r.caller /\ r # m
          BY <3>1, <5>1 DEF Carried, Pending
        <5>3. Pending(r, c.server, c.term) /\ r.dst = v
          BY <5>1, <5>2 DEF SameRequest, Pending
        <5>4. r.dst # m.dst
          BY <3>1, <5>2, <5>3
             DEF CountInv, RequestsOK, RequestOK, RequestsUnique, SameRequest, Pending
        <5> QED
          BY <2>9, <5>3, <5>4
      <4>2. ASSUME NEW v \in W \ {m.dst} PROVE v \in W1
        <5>1. PICK r \in rpcs : Pending(r, c.server, c.term) /\ r.dst = v
          BY <2>9
        <5>2. r \notin L
          BY <3>1, <5>1
        <5>3. PICK n \in rpcs' : SameRequest(r, n) /\ n.caller
          BY <5>1, <5>2 DEF Carried, Pending
        <5> QED
          BY <2>8, <2>10, <5>1, <5>3 DEF SameRequest, Pending
      <4> QED
        BY <4>1, <4>2
    <3>4. /\ Cardinality(W1) = Cardinality(W) - 1
          /\ Cardinality(W) \in Nat
      BY <2>8, <3>2, <3>3, Sizes
    <3>5. /\ Cardinality(K \ W) \in Nat /\ Cardinality(K1 \ W1) \in Nat
          /\ Cardinality(K \ W) <= Cardinality(K1 \ W1)
      BY <2>8, <3>3, Sizes
    <3>6. m.granted => Cardinality(K \ W) <= Cardinality(K1 \ W1) - 1
      <4> SUFFICES ASSUME m.granted PROVE Cardinality(K \ W) <= Cardinality(K1 \ W1) - 1
        OBVIOUS
      <4>1. Backed(m) /\ m.term = c.term /\ m.src = c.server
        BY <3>1 DEF CountInv, VoteInv, CallsOK, CallOK, Pending, RequestsOK, RequestOK
      <4>2. m.dst \in K
        BY <1>2, <2>6, <4>1 DEF Backed, Backers
      <4>3. m.dst \in K1 \ W1 /\ K \ W \subseteq (K1 \ W1) \ {m.dst}
        BY <2>8, <3>2, <3>3, <4>2
      <4>4. Cardinality((K1 \ W1) \ {m.dst}) = Cardinality(K1 \ W1) - 1
        BY <2>8, <4>3, Sizes
      <4>5. Cardinality(K \ W) <= Cardinality((K1 \ W1) \ {m.dst})
        BY <2>8, <4>3, Sizes
      <4> QED
        BY <4>4, <4>5
    <3>7. d.votes <= Cardinality(K1 \ W1)
      BY <2>2, <2>3, <2>11, <3>1, <3>5, <3>6
    <3>8. d.at = "collect" => d.heard + Cardinality(W1) = N
      BY <2>2, <2>11, <3>1, <3>4
    <3> QED
      BY <3>7, <3>8
  <2> QED
    BY <2>1, <2>15, <2>16
<1> QED
  BY <1>3, <1>4 DEF CountInv
-----------------------------------------------------------------------------
(* The steps of calls. *)

Identity == {"kind", "src", "dst", "by", "term", "caller"}

IsCall(m) == m = [f \in DOMAIN m |-> m[f]] /\ Identity \subseteq DOMAIN m

\* The type of a call, as far as its identity goes.
LEMMA CallIsCall == ASSUME NEW m \in RPC PROVE IsCall(m)
<1>1. CASE m \in RequestVoteRPC
  BY <1>1 DEF RequestVoteRPC, IsCall, Identity
<1>2. CASE m \in AppendEntriesRPC
  BY <1>2 DEF AppendEntriesRPC, IsCall, Identity
<1> QED
  BY <1>1, <1>2 DEF RPC

\* A handler or labrpc writes no field that identifies the call.
LEMMA Moves ==
  ASSUME NEW m, IsCall(m), NEW f, f \notin Identity, NEW x, NEW n, n = [m EXCEPT ![f] = x]
  PROVE  IsCall(n) /\ SameRequest(m, n) /\ n.caller = m.caller
<1>1. DOMAIN n = DOMAIN m /\ n = [g \in DOMAIN m |-> IF g = f THEN x ELSE m[g]]
  BY Zenon DEF IsCall
<1>2. \A g \in Identity : n[g] = m[g]
  BY <1>1 DEF IsCall
<1>3. IsCall(n)
  BY <1>1, Zenon DEF IsCall
<1> QED
  BY <1>2, <1>3 DEF SameRequest, Identity

\* A call takes the place of another: m is in L if its caller waits no more.
LEMMA Replaced ==
  ASSUME CountInv, NEW m \in rpcs, NEW New, rpcs' = Replace(rpcs, m, New),
         \A n, r \in New : n = r,
         \A n \in New : SameRequest(m, n) /\ (n.caller => m.caller),
         NEW L, L = {} \/ L = {m},
         L = {} => (m.kind = "RV" /\ m.caller => \E n \in New : n.caller),
         L = {m} => \A n \in New : ~ n.caller
  PROVE  RequestsUnique' /\ Carried(L)
<1>1. rpcs' = (rpcs \ {m}) \cup New
  BY DEF Replace
<1>2. \A n \in rpcs' : n \in New \/ (n \in rpcs /\ n # m)
  BY <1>1
<1>3. RequestsUnique'
  <2> SUFFICES ASSUME NEW n \in rpcs', NEW r \in rpcs', n.kind = "RV", SameRequest(n, r)
               PROVE  n = r
    BY DEF RequestsUnique
  <2>1. \A q \in rpcs, u \in rpcs : q.kind = "RV" /\ SameRequest(q, u) => q = u
    BY DEF CountInv, RequestsUnique
  <2>2. CASE n \in New /\ r \in New
    BY <2>2
  <2>3. CASE n \in New /\ r \in rpcs /\ r # m
    BY <2>1, <2>3 DEF SameRequest
  <2>4. CASE n \in rpcs /\ n # m /\ r \in New
    BY <2>1, <2>4 DEF SameRequest
  <2>5. CASE n \in rpcs /\ r \in rpcs
    BY <2>1, <2>5
  <2> QED
    BY <1>2, <2>2, <2>3, <2>4, <2>5
<1>4. ASSUME NEW n \in rpcs', n.kind = "RV"
      PROVE  \E q \in rpcs : SameRequest(q, n) /\ (n.caller => q.caller /\ q \notin L)
  <2>1. CASE n \in New
    BY <2>1
  <2>2. CASE n \in rpcs /\ n # m
    BY <2>2 DEF SameRequest
  <2> QED
    BY <1>2, <2>1, <2>2
<1>5. ASSUME NEW q \in rpcs \ L, q.kind = "RV", q.caller
      PROVE  \E n \in rpcs' : SameRequest(q, n) /\ n.caller
  <2>1. CASE q = m
    BY <1>1, <1>5, <2>1
  <2>2. CASE q # m
    BY <1>1, <1>5, <2>2 DEF SameRequest
  <2> QED
    BY <2>1, <2>2
<1> QED
  BY <1>3, <1>4, <1>5 DEF Carried

\* Elections that are left alone.
LEMMA Untouched ==
  ASSUME CountInv, campaigns' \subseteq campaigns
  PROVE  GoesOn({})
<1>1. \A c \in campaigns : c.votes \in Nat
  BY DEF CountInv, VoteInv, IndexInv, CampaignsOK, CampaignOK, Campaign
<1>2. \A c \in campaigns : Unheard(c, c, {})
  BY <1>1 DEF Unheard
<1> QED
  BY <1>2 DEF GoesOn

\* A call goes one step further; its caller waits on.
LEMMA MoveCounts ==
  ASSUME CountInv, VoteInv', DiskStep, NEW m \in rpcs, NEW n, NEW New, New = {} \/ New = {n},
         rpcs' = Replace(rpcs, m, New), SameRequest(m, n), n.caller = m.caller,
         New = {} => ~ m.caller, campaigns' \subseteq campaigns
  PROVE  CountInv'
<1>1. PICK L : L = {}
  BY Zenon
<1>2. /\ \A q, r \in New : q = r
      /\ \A q \in New : SameRequest(m, q) /\ (q.caller => m.caller)
      /\ m.caller => \E q \in New : q.caller
      /\ L # {m}
  BY <1>1
<1>3. RequestsUnique' /\ Carried(L)
  BY <1>1, <1>2, Replaced
<1>4. GoesOn(L)
  BY <1>1, Untouched
<1> QED
  BY <1>1, <1>3, <1>4, Tally

\* The replies are the same calls as the requests.
LEMMA AnsweredMoves ==
  ASSUME NEW m, IsCall(m)
  PROVE  \E n : /\ Answered(m) = {} \/ Answered(m) = {n}
                /\ SameRequest(m, n) /\ n.caller = m.caller
                /\ Answered(m) = {} => ~ m.caller
<1>1. PICK n : n = [m EXCEPT !.at = "reply"]
  BY Zenon
<1>2. SameRequest(m, n) /\ n.caller = m.caller
  BY <1>1, Moves DEF Identity
<1>3. Answered(m) = IF m.caller THEN {n} ELSE {}
  BY <1>1 DEF Answered
<1> QED
  BY <1>2, <1>3

\* The steps of a call that a handler or its sender takes, while it is awaited.
LEMMA MoveSteps ==
  ASSUME CountInv, VoteInv', DiskStep, NEW m \in rpcs,
         \/ encodeArgs(m) \/ receiverSync(m) \/ receiverDemote(m) \/ senderDemote(m)
         \/ RequestVote(m) \/ AppendEntries(m)
         \/ senderSync(m) /\ currentTerm[m.src] < m.replyTerm
  PROVE  CountInv'
<1>1. IsCall(m)
  BY CallIsCall DEF CountInv, VoteInv, IndexInv, RpcsOK, RpcOK
<1>2. campaigns' = campaigns
  BY DEF encodeArgs, receiverSync, receiverDemote, senderDemote, RequestVote, AppendEntries,
         senderSync
<1>3. ASSUME NEW r, IsCall(r), SameRequest(m, r), r.caller = m.caller, NEW a,
             rpcs' = Replace(rpcs, m, {[r EXCEPT !.at = a]})
      PROVE  CountInv'
  <2>1. PICK n : n = [r EXCEPT !.at = a]
    BY Zenon
  <2>2. SameRequest(r, n) /\ n.caller = r.caller
    BY <1>3, <2>1, Moves DEF Identity
  <2>3. SameRequest(m, n) /\ n.caller = m.caller
    BY <1>3, <2>2 DEF SameRequest
  <2>4. PICK New : New = {n}
    BY Zenon
  <2>5. rpcs' = Replace(rpcs, m, New) /\ New # {}
    BY <1>3, <2>1, <2>4
  <2> QED
    BY <1>2, <2>3, <2>4, <2>5, MoveCounts
<1>4. ASSUME NEW r, IsCall(r), SameRequest(m, r), r.caller = m.caller,
             rpcs' = Replace(rpcs, m, Answered(r))
      PROVE  CountInv'
  <2>1. PICK n : /\ Answered(r) = {} \/ Answered(r) = {n}
                 /\ SameRequest(r, n) /\ n.caller = r.caller
                 /\ Answered(r) = {} => ~ r.caller
    BY <1>4, AnsweredMoves
  <2>2. SameRequest(m, n) /\ n.caller = m.caller
    BY <1>4, <2>1 DEF SameRequest
  <2>3. PICK New : New = Answered(r)
    BY Zenon
  <2>4. /\ New = {} \/ New = {n}
        /\ New = {} => ~ m.caller
        /\ rpcs' = Replace(rpcs, m, New)
    BY <1>4, <2>1, <2>3
  <2> QED
    BY <1>2, <2>2, <2>4, MoveCounts
<1>5. SameRequest(m, m)
  BY DEF SameRequest
<1>6. CASE encodeArgs(m)
  <2>1. PICK e : rpcs' = Replace(rpcs, m, {[m EXCEPT !.at = "request", !.entries = e]})
    BY <1>6, Zenon DEF encodeArgs
  <2>2. PICK r : r = [m EXCEPT !.at = "request"]
    BY Zenon
  <2>3. PICK n : n = [r EXCEPT !.entries = e]
    BY Zenon
  <2>4. IsCall(r) /\ SameRequest(m, r) /\ r.caller = m.caller
    BY <1>1, <2>2, Moves DEF Identity
  <2>5. SameRequest(r, n) /\ n.caller = r.caller
    BY <2>3, <2>4, Moves DEF Identity
  <2>6. SameRequest(m, n) /\ n.caller = m.caller
    BY <2>4, <2>5 DEF SameRequest
  <2>7. PICK New : New = {n}
    BY Zenon
  <2>8. rpcs' = Replace(rpcs, m, New) /\ New # {}
    BY <2>1, <2>2, <2>3, <2>7
  <2> QED
    BY <1>2, <2>6, <2>7, <2>8, MoveCounts
<1>7. CASE receiverDemote(m) \/ senderDemote(m)
  <2>1. PICK a : rpcs' = Replace(rpcs, m, {[m EXCEPT !.at = a]})
    BY <1>7, Zenon DEF receiverDemote, senderDemote
  <2> QED
    BY <1>1, <1>3, <1>5, <2>1, Zenon
<1>8. CASE senderSync(m) /\ currentTerm[m.src] < m.replyTerm
  <2>1. rpcs' = Replace(rpcs, m, {[m EXCEPT !.at = "demote"]})
    BY <1>8 DEF senderSync
  <2> QED
    BY <1>1, <1>3, <1>5, <2>1
<1>9. CASE receiverSync(m)
  <2>1. PICK got : got = [m EXCEPT !.replyTerm = currentTerm[m.dst]]
    BY Zenon
  <2>2. IsCall(got) /\ SameRequest(m, got) /\ got.caller = m.caller
    BY <1>1, <2>1, Moves DEF Identity
  <2>3. \/ rpcs' = Replace(rpcs, m, {[got EXCEPT !.at = "sync"]})
        \/ rpcs' = Replace(rpcs, m, {[got EXCEPT !.at = "payload"]})
        \/ rpcs' = Replace(rpcs, m, Answered(got))
    BY <1>9, <2>1 DEF receiverSync
  <2> QED
    BY <1>3, <1>4, <2>2, <2>3, Zenon
<1>10. CASE RequestVote(m)
  <2>1. PICK r : r = [m EXCEPT !.granted = Grants(m)]
    BY Zenon
  <2>2. IsCall(r) /\ SameRequest(m, r) /\ r.caller = m.caller
    BY <1>1, <2>1, Moves DEF Identity
  <2>3. rpcs' = Replace(rpcs, m, Answered(r))
    BY <1>10, <2>1 DEF RequestVote
  <2> QED
    BY <1>4, <2>2, <2>3
<1>11. CASE AppendEntries(m)
  <2>1. PICK r : r = [m EXCEPT !.success = TRUE]
    BY Zenon
  <2>2. PICK q : q = [m EXCEPT !.next = Backoff(m, log[m.dst])]
    BY Zenon
  <2>3. /\ IsCall(r) /\ SameRequest(m, r) /\ r.caller = m.caller
        /\ IsCall(q) /\ SameRequest(m, q) /\ q.caller = m.caller
    BY <1>1, <2>1, <2>2, Moves DEF Identity
  <2>4. rpcs' = Replace(rpcs, m, Answered(r)) \/ rpcs' = Replace(rpcs, m, Answered(q))
    BY <1>11, <2>1, <2>2 DEF AppendEntries
  <2> QED
    BY <1>4, <2>3, <2>4
<1> QED
  BY <1>6, <1>7, <1>8, <1>9, <1>10, <1>11

\* What a reply, or its loss, does to the count of the election it is for.
LEMMA CountedOnce ==
  ASSUME NEW c \in Campaign, NEW m, NEW L, L = {m}, m \in rpcs, m.caller,
         m.kind = "RV" => m.granted \in BOOLEAN, NEW d,
         d = Received(c, m) \/ d = Failed(c, m)
  PROVE  /\ d.server = c.server /\ d.term = c.term
         /\ Unheard(c, d, L) \/ Heard(c, d, L)
<1>1. \A g \in BOOLEAN : /\ Counted(c, g).server = c.server
                         /\ Counted(c, g).term = c.term
                         /\ Counted(c, g).votes <= c.votes \/ (g /\ Counted(c, g).votes <= c.votes + 1)
                         /\ Counted(c, g).heard = c.heard + 1
  BY DEF Counted, Campaign
<1>2. c.votes \in Nat
  BY DEF Campaign
<1> DEFINE e == [c EXCEPT !.replies =
                   [c.replies EXCEPT ![m.dst] = [success |-> m.success, next |-> m.next]]]
<1>3. e.server = c.server /\ e.term = c.term /\ e.votes = c.votes /\ e.heard = c.heard /\ e.at = c.at
  BY DEF Campaign
<1>4. \/ d = e /\ c.at = "sleep" /\ m.kind = "AE"
      \/ d = c /\ ~ (Pending(m, c.server, c.term) /\ c.at = "collect")
      \/ /\ Pending(m, c.server, c.term) /\ c.at = "collect"
         /\ d = Counted(c, FALSE) \/ d = Counted(c, m.granted)
  BY Zenon DEF Received, Failed, Pending
<1> HIDE DEF e
<1>5. CASE d = e /\ c.at = "sleep" /\ m.kind = "AE"
  BY <1>2, <1>3, <1>5 DEF Unheard, Pending
<1>6. CASE d = c /\ ~ (Pending(m, c.server, c.term) /\ c.at = "collect")
  <2>1. CASE Pending(m, c.server, c.term)
    BY <1>2, <1>6, <2>1 DEF Heard
  <2>2. CASE ~ Pending(m, c.server, c.term)
    BY <1>2, <1>6, <2>2 DEF Unheard
  <2> QED
    BY <1>6, <2>1, <2>2
<1>7. CASE /\ Pending(m, c.server, c.term) /\ c.at = "collect"
           /\ d = Counted(c, FALSE) \/ d = Counted(c, m.granted)
  <2>1. /\ d.server = c.server /\ d.term = c.term /\ d.heard = c.heard + 1
        /\ d.votes <= c.votes \/ (m.granted /\ d.votes <= c.votes + 1)
    BY <1>1, <1>7, Zenon DEF Pending
  <2>2. Heard(c, d, L)
    BY <1>7, <2>1 DEF Heard
  <2> QED
    BY <2>1, <2>2
<1> QED
  BY <1>4, <1>5, <1>6, <1>7, Zenon

\* A Call returns to its election, or is given up after that.
LEMMA ReturnSteps ==
  ASSUME CountInv, VoteInv', DiskStep, NEW m \in rpcs,
         \/ senderSync(m) /\ ~ (currentTerm[m.src] < m.replyTerm)
         \/ callFails(m) \/ callAbandoned(m)
  PROVE  CountInv'
<1>1. m \in RPC /\ CallOK(m)
  BY DEF CountInv, VoteInv, IndexInv, RpcsOK, RpcOK, CallsOK
<1>2. m.caller \in BOOLEAN /\ (m.kind = "RV" => m.granted \in BOOLEAN)
  BY <1>1, RpcKind DEF RequestVoteRPC
<1>3. \/ campaigns' = {Received(c, m) : c \in campaigns} /\ m.caller
      \/ campaigns' = {Failed(c, m) : c \in campaigns}
  BY <1>1 DEF senderSync, callFails, callAbandoned, CallOK
<1>4. \A c \in campaigns : c \in Campaign
  BY DEF CountInv, VoteInv, IndexInv, CampaignsOK, CampaignOK
<1>5. PICK n : n = [m EXCEPT !.caller = FALSE]
  BY Zenon
<1>6. SameRequest(m, n) /\ ~ n.caller
  <2>1. CASE m \in RequestVoteRPC
    BY <1>5, <2>1 DEF RequestVoteRPC, SameRequest
  <2>2. CASE m \in AppendEntriesRPC
    BY <1>5, <2>2 DEF AppendEntriesRPC, SameRequest
  <2> QED
    BY <1>1, <2>1, <2>2 DEF RPC
<1>7. PICK New : (New = {} \/ New = {n}) /\ rpcs' = Replace(rpcs, m, New)
  <2>1. CASE callAbandoned(m)
    BY <1>5, <2>1 DEF callAbandoned
  <2>2. CASE callFails(m) \/ (senderSync(m) /\ ~ (currentTerm[m.src] < m.replyTerm))
    <3>1. rpcs' = rpcs \ {m}
      BY <2>2 DEF callFails, senderSync
    <3>2. rpcs' = Replace(rpcs, m, {})
      BY <3>1 DEF Replace
    <3> QED
      BY <3>2
  <2> QED
    BY <2>1, <2>2
<1>8. /\ \A q, r \in New : q = r
      /\ \A q \in New : SameRequest(m, q) /\ ~ q.caller
  BY <1>6, <1>7
<1>9. CASE m.caller
  <2>1. PICK L : L = {m}
    BY Zenon
  <2>2. RequestsUnique' /\ Carried(L)
    BY <1>7, <1>8, <2>1, Replaced
  <2>3. GoesOn(L)
    <3> SUFFICES ASSUME NEW d \in campaigns'
                 PROVE  \E c \in campaigns : /\ d.server = c.server /\ d.term = c.term
                                             /\ Unheard(c, d, L) \/ Heard(c, d, L)
      BY DEF GoesOn
    <3>1. PICK c \in campaigns : d = Received(c, m) \/ d = Failed(c, m)
      BY <1>3
    <3> QED
      BY <1>2, <1>4, <1>9, <2>1, <3>1, CountedOnce
  <2> QED
    BY <2>1, <2>2, <2>3, Tally
<1>10. CASE ~ m.caller
  <2>1. PICK L : L = {}
    BY Zenon
  <2>2. RequestsUnique' /\ Carried(L)
    BY <1>7, <1>8, <1>10, <2>1, Replaced
  <2>3. \A c \in campaigns : Failed(c, m) = c
    BY <1>10 DEF Failed
  <2>4. GoesOn(L)
    BY <1>3, <1>10, <2>1, <2>3, Untouched
  <2> QED
    BY <2>1, <2>2, <2>4, Tally
<1> QED
  BY <1>2, <1>9, <1>10
-----------------------------------------------------------------------------
(* The steps of servers and elections. *)

\* A step that sends no request and ends none.
LEMMA NoRequest ==
  ASSUME CountInv, VoteInv', DiskStep, GoesOn({}),
         \A n \in rpcs' : n.kind = "RV" => n \in rpcs,
         \A m \in rpcs : m.kind = "RV" => m \in rpcs'
  PROVE  CountInv'
<1>1. PICK L : L = {}
  BY Zenon
<1>2. RequestsUnique'
  <2> SUFFICES ASSUME NEW m \in rpcs', NEW n \in rpcs', m.kind = "RV", SameRequest(m, n)
               PROVE  m = n
    BY DEF RequestsUnique
  <2> QED
    BY DEF CountInv, RequestsUnique, SameRequest
<1>3. \A m : SameRequest(m, m)
  BY DEF SameRequest
<1>4. Carried(L)
  BY <1>1, <1>3 DEF Carried
<1> QED
  BY <1>1, <1>2, <1>4, Tally

\* The steps that touch neither calls nor elections.
LEMMA ServerCounts ==
  ASSUME CountInv, VoteInv', DiskStep, rpcs' = rpcs, campaigns' \subseteq campaigns
  PROVE  CountInv'
BY Untouched, NoRequest

\* An election that has heard enough counts no more.
LEMMA CampaignCounts ==
  ASSUME CountInv, VoteInv', DiskStep, NEW c \in campaigns, CampaignStep(c)
  PROVE  CountInv'
<1>1. c \in Campaign /\ c.votes \in Nat
  BY DEF CountInv, VoteInv, IndexInv, CampaignsOK, CampaignOK, Campaign
<1>2. ASSUME NEW d, d.server = c.server, d.term = c.term, d.votes <= c.votes, d.at # "collect"
      PROVE  Unheard(c, d, {})
  BY <1>2 DEF Unheard
<1>3. ASSUME campaigns' \subseteq campaigns PROVE GoesOn({})
  BY <1>3, Untouched
<1>4. ASSUME NEW d, campaigns' = Replace(campaigns, c, {d}), d.server = c.server,
             d.term = c.term, d.votes <= c.votes, d.at # "collect"
      PROVE  GoesOn({})
  <2>1. \A e \in campaigns : e.votes \in Nat
    BY DEF CountInv, VoteInv, IndexInv, CampaignsOK, CampaignOK, Campaign
  <2>2. \A e \in campaigns : Unheard(e, e, {})
    BY <2>1 DEF Unheard
  <2>3. \A e \in campaigns' : e \in campaigns \/ e = d
    BY <1>4 DEF Replace
  <2>4. Unheard(c, d, {})
    BY <1>2, <1>4
  <2> QED
    BY <1>4, <2>2, <2>3, <2>4 DEF GoesOn
<1>5. CASE heartbeat(c)
  <2>1. GoesOn({})
    <3>1. CASE phase[c.server] # "leader"
      BY <1>3, <1>5, <3>1 DEF heartbeat
    <3>2. CASE phase[c.server] = "leader"
      <4>1. PICK d : d = [c EXCEPT !.at = "sleep", !.beat = NextBeat(c),
                                   !.myLastIndex = LastIndex(log[c.server])]
        BY Zenon
      <4>2. /\ d.server = c.server /\ d.term = c.term /\ d.votes = c.votes
            /\ d.at = "sleep"
        BY <1>1, <4>1 DEF Campaign
      <4>3. campaigns' = Replace(campaigns, c, {d})
        BY <1>5, <3>2, <4>1 DEF heartbeat
      <4> QED
        BY <1>1, <1>4, <4>2, <4>3
    <3> QED
      BY <3>1, <3>2
  <2>2. \A t : AppendEntriesArgs(c, t).kind = "AE"
    BY DEF AppendEntriesArgs
  <2>3. \A n \in rpcs' : n \in rpcs \/ n.kind = "AE"
    BY <1>5, <2>2 DEF heartbeat
  <2>4. rpcs \subseteq rpcs'
    BY <1>5 DEF heartbeat
  <2> QED
    BY <2>1, <2>3, <2>4, NoRequest
<1>6. CASE voteInterrupt(c) \/ lostVote(c)
  BY <1>6, ServerCounts DEF voteInterrupt, lostVote
<1>7. ASSUME rpcs' = rpcs, GoesOn({}) PROVE CountInv'
  BY <1>7, NoRequest
<1>8. CASE candidateCheck2(c)
  <2>1. CASE phase[c.server] # "candidate"
    BY <1>8, <2>1, ServerCounts DEF candidateCheck2, Replace
  <2>2. CASE phase[c.server] = "candidate"
    <3>1. PICK a : a = IF c.votes >= majority THEN "won" ELSE "lost"
      BY Zenon
    <3>2. PICK d : d = [c EXCEPT !.at = a]
      BY Zenon
    <3>3. /\ d.server = c.server /\ d.term = c.term /\ d.votes = c.votes /\ d.at # "collect"
      BY <1>1, <3>1, <3>2 DEF Campaign
    <3>4. campaigns' = Replace(campaigns, c, {d}) /\ rpcs' = rpcs
      BY <1>8, <2>2, <3>1, <3>2 DEF candidateCheck2
    <3> QED
      BY <1>1, <1>4, <1>7, <3>3, <3>4
  <2> QED
    BY <2>1, <2>2
<1>9. CASE elected(c)
  <2>1. CASE phase[c.server] = "leader"
    BY <1>9, <2>1, ServerCounts DEF elected, Replace
  <2>2. CASE phase[c.server] # "leader"
    <3>1. PICK d : d = [c EXCEPT !.at = "init"]
      BY Zenon
    <3>2. /\ d.server = c.server /\ d.term = c.term /\ d.votes = c.votes /\ d.at = "init"
      BY <1>1, <3>1 DEF Campaign
    <3>3. campaigns' = Replace(campaigns, c, {d}) /\ rpcs' = rpcs
      BY <1>9, <2>2, <3>1 DEF elected
    <3> QED
      BY <1>1, <1>4, <1>7, <3>2, <3>3
  <2> QED
    BY <2>1, <2>2
<1>10. CASE initLeader(c)
  <2>1. PICK d : d = [c EXCEPT !.at = "beat", !.votes = 0, !.heard = 0]
    BY Zenon
  <2>2. /\ d.server = c.server /\ d.term = c.term /\ d.votes <= c.votes /\ d.at = "beat"
    BY <1>1, <2>1 DEF Campaign
  <2>3. campaigns' = Replace(campaigns, c, {d}) /\ rpcs' = rpcs
    BY <1>10, <2>1 DEF initLeader
  <2> QED
    BY <1>4, <1>7, <2>2, <2>3
<1>11. CASE endBeat(c)
  <2>1. CASE phase[c.server] # "leader"
    BY <1>11, <2>1, ServerCounts DEF endBeat
  <2>2. CASE phase[c.server] = "leader"
    <3>1. PICK d : d = [c EXCEPT !.at = "beat", !.myLastIndex = 0, !.replies = NoReplies]
      BY Zenon
    <3>2. /\ d.server = c.server /\ d.term = c.term /\ d.votes = c.votes /\ d.at = "beat"
      BY <1>1, <3>1 DEF Campaign
    <3>3. campaigns' = Replace(campaigns, c, {d}) /\ rpcs' = rpcs
      BY <1>11, <2>2, <3>1 DEF endBeat
    <3> QED
      BY <1>1, <1>4, <1>7, <3>2, <3>3
  <2> QED
    BY <2>1, <2>2
<1> QED
  BY <1>5, <1>6, <1>8, <1>9, <1>10, <1>11 DEF CampaignStep

\* callElection asks every other server, in a term nobody has asked in for it.
LEMMA ElectionCounts ==
  ASSUME CountInv, VoteInv', DiskStep, NEW s \in Server, callElection(s)
  PROVE  CountInv'
<1>1. CASE phase[s] # "candidate"
  BY <1>1, ServerCounts DEF callElection
<1>2. CASE phase[s] = "candidate"
  <2>1. PICK T : T = currentTerm[s] + 1
    BY Zenon
  <2>2. PICK c : c = Counted([server |-> s, term |-> currentTerm[s] + 1, at |-> "collect",
                              votes |-> 0, heard |-> 0,
                              beat |-> 0, myLastIndex |-> 0, replies |-> NoReplies], TRUE)
    BY Zenon
  <2>3. c.server = s /\ c.term = T /\ c.votes = 1 /\ c.heard = 1
    BY <2>1, <2>2 DEF Counted
  <2>4. /\ currentTerm' = [currentTerm EXCEPT ![s] = currentTerm[s] + 1]
        /\ votedFor' = [votedFor EXCEPT ![s] = s]
        /\ persist(s)
        /\ campaigns' = campaigns \cup {c}
    BY <1>2, <2>2, Zenon DEF callElection
  <2>5. /\ currentTerm[s] \in Nat /\ saved[s].currentTerm = currentTerm[s]
        /\ saved'[s].currentTerm = T /\ saved'[s].votedFor = s
    BY <1>2, <2>1, <2>4 DEF CountInv, VoteInv, IndexInv, PersistentOK, Durable, Up, persist
  <2>6. /\ \A n \in rpcs' : n \in rpcs \/ \E t \in Server \ {s} : n = RequestVoteArgs(s, t)
        /\ rpcs \subseteq rpcs'
        /\ \A t \in Server \ {s} : RequestVoteArgs(s, t) \in rpcs'
    <3>1. rpcs' = rpcs \cup {RequestVoteArgs(s, t) : t \in Server \ {s}}
      BY <1>2, Zenon DEF callElection
    <3> QED
      BY <3>1, Zenon
  <2>7. ASSUME NEW t \in Server \ {s}, NEW n, n = RequestVoteArgs(s, t)
        PROVE  n.kind = "RV" /\ n.src = s /\ n.dst = t /\ n.by = T /\ n.term = T /\ n.caller
    BY <2>1, <2>7 DEF RequestVoteArgs
  <2>8. \A m \in rpcs : m.kind = "RV" => ~ (m.src = s /\ m.by = T)
    <3>1. ASSUME NEW m \in rpcs, m.kind = "RV", m.src = s PROVE m.by <= saved[s].currentTerm
      BY <3>1, Zenon DEF CountInv, RequestsOK, RequestOK
    <3>2. ~ (T <= saved[s].currentTerm)
      BY <2>1, <2>5
    <3> QED
      BY <3>1, <3>2, Zenon
  <2>9. /\ \A u \in Server : /\ saved[u].currentTerm \in Nat
                             /\ saved'[u].currentTerm \in Nat
                             /\ saved[u].currentTerm <= saved'[u].currentTerm
        /\ \A d \in Campaign : Backers(d) \subseteq Backers(d)'
    BY BackersGrow DEF CountInv
  <2>10. RequestsOK'
    <3> SUFFICES ASSUME NEW n \in rpcs', n.kind = "RV" PROVE RequestOK(n)'
      BY DEF RequestsOK
    <3>1. CASE n \in rpcs
      <4>1. n.src \in Server /\ n.by \in Nat
        BY <3>1, RpcKind DEF CountInv, VoteInv, IndexInv, RpcsOK, RpcOK
      <4>2. n.term = n.by /\ n.by <= saved[n.src].currentTerm
        BY <3>1 DEF CountInv, RequestsOK, RequestOK
      <4>3. n.by <= saved'[n.src].currentTerm
        BY <2>9, <4>1, <4>2
      <4> QED
        BY <4>2, <4>3 DEF RequestOK
    <3>2. ASSUME NEW t \in Server \ {s}, n = RequestVoteArgs(s, t) PROVE RequestOK(n)'
      <4>1. n.src = s /\ n.by = T /\ n.term = T
        BY <2>7, <3>2
      <4> QED
        BY <2>1, <2>5, <4>1 DEF RequestOK
    <3> QED
      BY <2>6, <3>1, <3>2
  <2>11. RequestsUnique'
    <3> SUFFICES ASSUME NEW m \in rpcs', NEW n \in rpcs', m.kind = "RV", SameRequest(m, n)
                 PROVE  m = n
      BY DEF RequestsUnique
    <3>1. CASE m \in rpcs /\ n \in rpcs
      BY <3>1 DEF CountInv, RequestsUnique
    <3>2. CASE m \in rpcs /\ n \notin rpcs
      BY <2>6, <2>7, <2>8, <3>2 DEF SameRequest
    <3>3. CASE m \notin rpcs /\ n \in rpcs
      BY <2>6, <2>7, <2>8, <3>3 DEF SameRequest
    <3>4. CASE m \notin rpcs /\ n \notin rpcs
      BY <2>6, <2>7, <3>4 DEF SameRequest
    <3> QED
      BY <3>1, <3>2, <3>3, <3>4
  <2>12. TallyOK(c)'
    <3>1. Awaited(s, T)' = Server \ {s}
      <4>1. ASSUME NEW v \in Awaited(s, T)' PROVE v \in Server \ {s}
        <5>1. v \in Server
          BY DEF Awaited
        <5>2. PICK n \in rpcs' : n.kind = "RV" /\ n.src = s /\ n.by = T /\ n.dst = v
          BY DEF Awaited
        <5> QED
          BY <2>6, <2>7, <2>8, <5>1, <5>2
      <4>2. ASSUME NEW v \in Server \ {s} PROVE v \in Awaited(s, T)'
        <5>1. PICK n \in rpcs' : n = RequestVoteArgs(s, v)
          BY <2>6
        <5>2. n.kind = "RV" /\ n.src = s /\ n.by = T /\ n.dst = v /\ n.caller
          BY <2>7, <5>1
        <5> QED
          BY <5>2 DEF Awaited
      <4> QED
        BY <4>1, <4>2
    <3>2. PICK K : K = Backers(c)' \ (Server \ {s})
      BY Zenon
    <3>3. s \in K /\ K \subseteq Server
      BY <2>3, <2>5, <3>2 DEF Backers
    <3>4. Cardinality(K \ {s}) = Cardinality(K) - 1 /\ Cardinality(K) \in Nat
      BY <3>3, Sizes
    <3>5. Cardinality(K \ {s}) \in Nat
      BY <3>3, Sizes
    <3>6. 1 <= Cardinality(K)
      BY <3>4, <3>5
    <3>7. Cardinality(Server \ {s}) = N - 1 /\ N \in Nat
      BY Sizes DEF N
    <3>8. 1 + Cardinality(Server \ {s}) = N
      BY <3>7
    <3>9. T <= saved'[s].currentTerm
      BY <2>1, <2>5
    <3> QED
      BY <2>3, <3>1, <3>2, <3>6, <3>8, <3>9 DEF TallyOK
  <2>13. ASSUME NEW d \in campaigns PROVE TallyOK(d)'
    <3>1. /\ d \in Campaign /\ d.server \in Server /\ d.term \in Nat /\ d.votes \in Nat
          /\ TallyOK(d)
      BY DEF CountInv, VoteInv, IndexInv, CampaignsOK, CampaignOK, Campaign
    <3>2. ~ (d.server = s /\ d.term = T)
      BY <2>1, <2>5, <3>1 DEF TallyOK
    <3>3. Awaited(d.server, d.term)' = Awaited(d.server, d.term)
      <4>1. ASSUME NEW v \in Server
            PROVE  (\E m \in rpcs : /\ m.kind = "RV" /\ m.caller
                                    /\ m.src = d.server /\ m.by = d.term /\ m.dst = v)
               <=> (\E m \in rpcs' : /\ m.kind = "RV" /\ m.caller
                                     /\ m.src = d.server /\ m.by = d.term /\ m.dst = v)
        BY <2>6, <2>7, <3>2
      <4> QED
        BY <4>1 DEF Awaited
    <3>4. PICK W : W = Awaited(d.server, d.term)
      BY Zenon
    <3>5. PICK K : K = Backers(d)
      BY Zenon
    <3>6. PICK K1 : K1 = Backers(d)'
      BY Zenon
    <3>7. K \ W \subseteq K1 \ W /\ K1 \ W \subseteq Server
      BY <2>9, <3>1, <3>5, <3>6 DEF Backers
    <3>8. /\ Cardinality(K \ W) <= Cardinality(K1 \ W)
          /\ Cardinality(K \ W) \in Nat /\ Cardinality(K1 \ W) \in Nat
      BY <3>7, Sizes
    <3>9. /\ d.votes <= Cardinality(K \ W)
          /\ d.at = "collect" => d.heard + Cardinality(W) = N
          /\ d.term <= saved[d.server].currentTerm
      BY <3>1, <3>4, <3>5 DEF TallyOK
    <3>10. d.votes <= Cardinality(K1 \ W) /\ d.term <= saved'[d.server].currentTerm
      BY <2>9, <3>1, <3>8, <3>9
    <3> QED
      BY <3>3, <3>4, <3>6, <3>9, <3>10 DEF TallyOK
  <2> QED
    BY <2>4, <2>10, <2>11, <2>12, <2>13 DEF CountInv
<1> QED
  BY <1>1, <1>2

\* A crash takes the elections of s with it; those of the others lose no caller.
LEMMA CrashCounts ==
  ASSUME CountInv, VoteInv', DiskStep, NEW s \in Server, crash1(s)
  PROVE  CountInv'
<1> DEFINE g(m) == IF m.src = s THEN [m EXCEPT !.caller = FALSE]
                   ELSE IF m.dst = s /\ m.at \in {"sync", "payload"} THEN [m EXCEPT !.at = "lost"]
                   ELSE m
           L == {m \in rpcs : m.src = s}
<1>1. /\ \A n \in rpcs' : \E m \in rpcs : n = g(m)
      /\ \A m \in rpcs : m.src # s => g(m) \in rpcs'
  BY Zenon DEF crash1, CutOff
<1>2. ASSUME NEW m \in rpcs
      PROVE  /\ SameRequest(m, g(m))
             /\ m.src = s => ~ g(m).caller
             /\ m.src # s => g(m).caller = m.caller
  <2>1. m \in RPC
    BY DEF CountInv, VoteInv, IndexInv, RpcsOK, RpcOK
  <2>2. CASE m \in RequestVoteRPC
    BY <2>2, Zenon DEF RequestVoteRPC, SameRequest
  <2>3. CASE m \in AppendEntriesRPC
    BY <2>3, Zenon DEF AppendEntriesRPC, SameRequest
  <2> QED
    BY <2>1, <2>2, <2>3, Zenon DEF RPC
<1> HIDE DEF g
<1>3. RequestsUnique'
  <2> SUFFICES ASSUME NEW n \in rpcs', NEW r \in rpcs', n.kind = "RV", SameRequest(n, r)
               PROVE  n = r
    BY DEF RequestsUnique
  <2>1. PICK m \in rpcs : n = g(m)
    BY <1>1
  <2>2. PICK q \in rpcs : r = g(q)
    BY <1>1
  <2>3. SameRequest(m, q) /\ m.kind = "RV"
    BY <1>2, <2>1, <2>2 DEF SameRequest
  <2>4. m = q
    BY <2>3 DEF CountInv, RequestsUnique
  <2> QED
    BY <2>1, <2>2, <2>4
<1>4. Carried(L)
  <2>1. ASSUME NEW n \in rpcs'
        PROVE  \E m \in rpcs : SameRequest(m, n) /\ (n.caller => m.caller /\ m \notin L)
    <3>1. PICK m \in rpcs : n = g(m)
      BY <1>1
    <3> QED
      BY <1>2, <3>1
  <2>2. ASSUME NEW m \in rpcs \ L, m.caller
        PROVE  \E n \in rpcs' : SameRequest(m, n) /\ n.caller
    BY <1>1, <1>2, <2>2
  <2> QED
    BY <2>1, <2>2 DEF Carried
<1>5. GoesOn(L)
  <2>1. campaigns' = {c \in campaigns : c.server # s}
    BY DEF crash1
  <2>2. \A c \in campaigns : c.votes \in Nat
    BY DEF CountInv, VoteInv, IndexInv, CampaignsOK, CampaignOK, Campaign
  <2>3. \A c \in campaigns : c.server # s => Unheard(c, c, L)
    BY <2>2 DEF Unheard, Pending
  <2> QED
    BY <2>1, <2>3 DEF GoesOn
<1>6. L \subseteq rpcs
  OBVIOUS
<1> HIDE DEF L
<1> QED
  BY <1>3, <1>4, <1>5, <1>6, Tally
-----------------------------------------------------------------------------
\* CountInv is inductive.
LEMMA CountNext == CountInv /\ [Next]_vars => CountInv'
<1> SUFFICES ASSUME CountInv, [Next]_vars PROVE CountInv'
  OBVIOUS
<1>1. VoteInv' /\ DiskStep
  BY VoteNext DEF CountInv
<1>2. CASE UNCHANGED vars
  BY <1>1, <1>2, ServerCounts DEF vars
<1>3. ASSUME NEW s \in Server, ServerStep(s) PROVE CountInv'
  <2>1. CASE awaitElection(s) \/ awaitReset(s) \/ awaitTimeout(s) \/ applyEntries(s)
    BY <1>1, <2>1, ServerCounts DEF awaitElection, awaitReset, awaitTimeout, applyEntries
  <2> QED
    BY <1>1, <1>3, <2>1, ElectionCounts DEF ServerStep
<1>4. ASSUME NEW c \in campaigns, CampaignStep(c) PROVE CountInv'
  BY <1>1, <1>4, CampaignCounts
<1>5. ASSUME NEW m \in rpcs, RpcStep(m) PROVE CountInv'
  BY <1>1, <1>5, MoveSteps, ReturnSteps DEF RpcStep
<1>6. ASSUME NEW s \in Server, NEW command \in Command, Start(s, command) PROVE CountInv'
  BY <1>1, <1>6, ServerCounts DEF Start
<1>7. ASSUME NEW s \in Server, start1(s) PROVE CountInv'
  BY <1>1, <1>7, ServerCounts DEF start1
<1> QED
  BY <1>1, <1>2, <1>3, <1>4, <1>5, <1>6, <1>7, CrashCounts DEF Next

\* The invariant holds in every reachable state.
LEMMA CountInvariant == Spec => []CountInv
BY CountInit, CountNext, PTL DEF Spec

\* callElection never counts more votes than there are servers whose disks
\* back it: no vote is counted twice, and none that a crash could take back.
THEOREM BackedVotes == Spec => []VotesAreBacked
BY CountInvariant, CountInvImplies, PTL

\* While callElection waits for votes, every server it has not heard from has
\* a sendRequestVote that will still report: the loop cannot wait for nobody.
THEOREM AccountedVotes == Spec => []VotesAccounted
BY CountInvariant, CountInvImplies, PTL
=============================================================================
