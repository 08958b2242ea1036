---------------------------- MODULE Hget_proofs ----------------------------
(***************************************************************************)
(* Hget for every number of addresses, places and answers: the race        *)
(* returns its one survivor and nothing else, is fair to both families and *)
(* does not give up early; no path leaves a connection behind, loses the   *)
(* old file without reason or speaks TLS to a server it has not verified;  *)
(* what is written is a prefix of the body and, with exit code 0, all of   *)
(* it; and every step spends something finite.                             *)
(***************************************************************************)
EXTENDS Hget, FiniteSetTheorems, TLAPS

\* The race is over or not begun, and it is on.
AtRest == {"idle", "resolve", "unresolved", "connected", "unconnected"}
Racing == {"connecting", "polling", "scanning"}

Polls == [slept : 0 .. Timeout, woken : 0 .. Timeout, failed : BOOLEAN]

\* The slices that were waited out, or until a signal came.
Waited == polls.slept + polls.woken

\* At rest there is at most one socket, and it is up.  The candidates are opened in
\* the order of their ranks.
RaceOK ==
  /\ cstep \in AtRest =>
       /\ pfd = <<>> /\ deadline = Timeout /\ polls = Race!NoPolls /\ isel = 0
       /\ \A a \in Race!Addresses : sock[a] = IF a = winner THEN "up" ELSE "none"
  /\ cstep \in Racing \cup {"resolve", "unresolved", "unconnected"} => winner = Race!NoFd
  /\ cstep = "connecting" =>
       /\ deadline = Timeout /\ polls = Race!NoPolls
       /\ isel <= Cardinality(Race!Selected) /\ Len(pfd) <= isel
       /\ \A a \in Race!Addresses : sock[a] # "none" => a \in Race!Resolved /\ Race!Rank(a) < isel
  /\ cstep \in Racing => pfd \in Seq(Race!Addresses)
  /\ cstep = "scanning" => i <= Len(pfd) + 1
  /\ Waited + deadline <= Timeout

Closed == {a \in Race!Addresses : sock[a] = "closed"}

\* All but n slices of what is gone of the budget were waited out, or until a signal
\* came, or paid for an address that failed.
Paid(n) == Timeout - deadline <= Waited + Cardinality(Closed) + n

\* The slice of a poll that returned early is paid for when the scan comes to the
\* first socket it reported.
PaidOK ==
  /\ cstep = "polling" => Paid(0)
  /\ cstep = "scanning" => Paid(0) \/ (Paid(1) /\ \E j \in i .. Len(pfd) : pfd[j] \in revents)
  /\ cstep = "closing" /\ winner = Race!NoFd /\ ~polls.failed => Paid(0) /\ (pfd = <<>> \/ deadline = 0)

Writing == {"pending", "plain", "line", "chunk"}
Answered == {"tls", "handshake", "request", "headers", "decide"} \cup Writing

\* What fetch has of the connection and of the answer at each of its steps.
FetchOK ==
  /\ pc # "connect" => cstep = "idle"
  /\ pc \in {"parse", "exit"} => winner = Race!NoFd
  /\ pc \in Answered => resp \in Responses /\ peer # "none"
  /\ pc \in Answered \cup {"connect"} => depth <= MaxRedirects
  /\ pc \in {"parse", "connect", "tls", "handshake", "request"} => got = 0 /\ pos = 0
  /\ pc = "headers" => pos = Least(got, resp.head)
  /\ pc = "decide" => pos = resp.head
  /\ pc \in Writing => resp.head <= pos
  /\ pc = "plain" => pos = got
  /\ out \in Seq(Nat)

\* With a certificate check, a handshake asks for it; and the output is opened on
\* the way to the body only.
PolicyOK ==
  /\ pc = "handshake" => authmode = IF opt.insecure THEN "none" ELSE "required"
  /\ NeverUnverified
  /\ ~file => pc \in Writing \/ (pc = "exit" /\ rc \in {"ok", "io"})

\* The inductive invariant.
IInv == TypeOK /\ OneSurvivor /\ RaceOK /\ PaidOK /\ FetchOK /\ PolicyOK

----------------------------------------------------------------------------
(* The order of the candidates.                                            *)

\* The candidates come in the order of their keys.
Key(a) == 2 * a.slot + a.fam

LEMMA KeyOrder ==
  /\ \A a \in Race!Addresses : Key(a) \in Nat
  /\ \A a, b \in Race!Addresses : /\ Race!ComesBefore(a, b) <=> Key(a) < Key(b)
                                  /\ Key(a) = Key(b) => a = b
  <1>1. ASSUME NEW a \in Race!Addresses
        PROVE  a.fam \in {0, 1} /\ a.slot \in Nat /\ a = [fam |-> a.fam, slot |-> a.slot]
    BY ConnectAssumption DEF Race!Addresses, Race!Families
  <1>2. \A a \in Race!Addresses : Key(a) \in Nat
    BY <1>1 DEF Key
  <1>3. ASSUME NEW a \in Race!Addresses, NEW b \in Race!Addresses
        PROVE  Race!ComesBefore(a, b) <=> Key(a) < Key(b)
    BY <1>1 DEF Key, Race!ComesBefore
  <1>4. ASSUME NEW a \in Race!Addresses, NEW b \in Race!Addresses, Key(a) = Key(b)
        PROVE  a = b
    <2>1. a.fam = b.fam /\ a.slot = b.slot
      BY <1>1, <1>4 DEF Key
    <2> QED
      BY <1>1, <2>1
  <1> QED
    BY <1>2, <1>3, <1>4

\* So many addresses have a key below n.
LEMMA KeysBelow ==
  ASSUME NEW S \in SUBSET Race!Addresses, NEW n \in Nat, \A a \in S : Key(a) < n
  PROVE  IsFiniteSet(S) /\ Cardinality(S) <= n
  <1> DEFINE f == [a \in S |-> Key(a)]
             T == 0 .. n - 1
  <1>1. f \in Injection(S, T)
    BY KeyOrder DEF Injection, IsInjective
  <1>2. IsFiniteSet(T) /\ Cardinality(T) = n
    BY FS_Interval
  <1> HIDE DEF f, T
  <1> QED
    BY <1>1, <1>2, FS_Injection

LEMMA FiniteAddresses ==
  ASSUME NEW S \in SUBSET Race!Addresses
  PROVE  IsFiniteSet(S) /\ Cardinality(S) \in Nat
  <1>1. \A a \in S : Key(a) < 2 * MaxResolved + 1
    BY ConnectAssumption DEF Race!Addresses, Race!Families, Key
  <1>2. 2 * MaxResolved + 1 \in Nat
    BY ConnectAssumption
  <1>3. IsFiniteSet(S)
    BY <1>1, <1>2, KeysBelow
  <1> QED
    BY <1>3, FS_CardinalityType

\* The race counts as this module does.
LEMMA SameCardinality ==
  \A S : Race!Cardinality(S) = Cardinality(S)
  BY DEF Race!Cardinality, Cardinality

Before(a) == {b \in Race!Resolved : Race!ComesBefore(b, a)}

LEMMA RankFacts ==
  ASSUME NEW a \in Race!Addresses
  PROVE  /\ Race!Rank(a) = Cardinality(Before(a)) /\ IsFiniteSet(Before(a))
         /\ Race!Rank(a) \in Nat /\ Race!Rank(a) <= Key(a)
  <1>1. Race!Rank(a) = Cardinality(Before(a))
    BY SameCardinality DEF Race!Rank, Before
  <1>2. Before(a) \in SUBSET Race!Addresses
    BY DEF Before, Race!Resolved
  <1>3. \A b \in Before(a) : Key(b) < Key(a)
    BY KeyOrder DEF Before, Race!Resolved
  <1>4. Key(a) \in Nat
    BY KeyOrder
  <1>5. Cardinality(Before(a)) <= Key(a)
    BY <1>2, <1>3, <1>4, KeysBelow
  <1> QED
    BY <1>1, <1>2, <1>5, FiniteAddresses

\* Ranks are in the order of keys, and so all different.
LEMMA RankOrder ==
  ASSUME NEW a \in Race!Resolved, NEW b \in Race!Resolved
  PROVE  /\ Race!ComesBefore(a, b) => Race!Rank(a) < Race!Rank(b)
         /\ Race!Rank(a) = Race!Rank(b) => a = b
  <1>1. ASSUME NEW c \in Race!Resolved, NEW d \in Race!Resolved, Race!ComesBefore(c, d)
        PROVE  Race!Rank(c) < Race!Rank(d)
    <2>1. c \in Race!Addresses /\ d \in Race!Addresses /\ Race!Resolved \subseteq Race!Addresses
      BY DEF Race!Resolved
    <2>2. c \notin Before(c)
      BY <2>1, KeyOrder DEF Before
    <2>3. Before(c) \cup {c} \in SUBSET Before(d)
      <3>1. ASSUME NEW e \in Before(c) PROVE e \in Before(d)
        BY <1>1, <2>1, KeyOrder DEF Before
      <3> QED
        BY <1>1, <3>1 DEF Before
    <2>4. /\ IsFiniteSet(Before(c)) /\ IsFiniteSet(Before(d))
          /\ Race!Rank(c) = Cardinality(Before(c)) /\ Race!Rank(d) = Cardinality(Before(d))
          /\ Race!Rank(c) \in Nat /\ Race!Rank(d) \in Nat
      BY <2>1, RankFacts
    <2>5. Cardinality(Before(c) \cup {c}) = Cardinality(Before(c)) + 1
      BY <2>2, <2>4, FS_AddElement
    <2>6. Cardinality(Before(c) \cup {c}) <= Cardinality(Before(d))
      BY <2>3, <2>4, FS_Subset
    <2> QED
      BY <2>4, <2>5, <2>6
  <1>2. ASSUME Race!Rank(a) = Race!Rank(b) PROVE a = b
    <2>1. a \in Race!Addresses /\ b \in Race!Addresses
      BY DEF Race!Resolved
    <2>2. Race!Rank(a) \in Nat
      BY <2>1, RankFacts
    <2>3. ~Race!ComesBefore(a, b) /\ ~Race!ComesBefore(b, a)
      BY <1>1, <1>2, <2>2
    <2> QED
      BY <2>1, <2>3, KeyOrder
  <1> QED
    BY <1>1, <1>2

\* Every place among the resolved addresses is taken.
LEMMA RankOnto ==
  ASSUME NEW n \in 0 .. Cardinality(Race!Resolved) - 1
  PROVE  \E a \in Race!Resolved : Race!Rank(a) = n
  <1> DEFINE R == Race!Resolved
             T == 0 .. Cardinality(R) - 1
             f == [a \in R |-> Race!Rank(a)]
  <1>1. R \in SUBSET Race!Addresses
    BY DEF Race!Resolved
  <1>2. IsFiniteSet(R) /\ Cardinality(R) \in Nat
    BY <1>1, FiniteAddresses
  <1>3. IsFiniteSet(T) /\ Cardinality(T) = Cardinality(R)
    BY <1>2, FS_Interval
  <1>4. ASSUME NEW a \in R PROVE Race!Rank(a) \in T
    <2>1. a \notin Before(a) /\ Before(a) \in SUBSET (R \ {a})
      BY <1>1, KeyOrder DEF Before
    <2>2. IsFiniteSet(R \ {a}) /\ Cardinality(R \ {a}) = Cardinality(R) - 1
      BY <1>2, FS_RemoveElement
    <2>3. Cardinality(Before(a)) <= Cardinality(R) - 1
      BY <2>1, <2>2, FS_Subset
    <2> QED
      BY <1>1, <1>2, <2>3, RankFacts
  <1>5. f \in Injection(R, T)
    BY <1>4, RankOrder DEF Injection, IsInjective
  <1> HIDE DEF T
  <1>6. f \in Surjection(R, T)
    BY <1>3, <1>5, FS_Injection
  <1>7. \E a \in R : f[a] = n
    BY <1>6 DEF Surjection, T
  <1> QED
    BY <1>7

\* Each turn of the connect loop has its candidate, and there are no more than
\* MAX_ADDRS of them.
LEMMA CandidateOK ==
  /\ Cardinality(Race!Selected) \in Nat /\ Cardinality(Race!Selected) <= MaxAddrs
  /\ isel \in Nat /\ isel < Cardinality(Race!Selected) =>
       Race!Candidate \in Race!Resolved /\ Race!Rank(Race!Candidate) = isel
  <1> DEFINE S == Race!Selected
             R == Race!Resolved
             T == 0 .. MaxAddrs - 1
             f == [a \in S |-> Race!Rank(a)]
  <1>1. R \in SUBSET Race!Addresses /\ S \in SUBSET R
    BY DEF Race!Resolved, Race!Selected
  <1>2. /\ IsFiniteSet(R) /\ Cardinality(R) \in Nat
        /\ Cardinality(S) \in Nat /\ Cardinality(S) <= Cardinality(R)
    BY <1>1, FiniteAddresses, FS_Subset
  <1>3. Cardinality(S) <= MaxAddrs
    <2>1. \A a \in S : Race!Rank(a) \in T
      BY <1>1, RankFacts, ConnectAssumption DEF Race!Selected
    <2>2. f \in Injection(S, T)
      BY <1>1, <2>1, RankOrder DEF Injection, IsInjective
    <2>3. IsFiniteSet(T) /\ Cardinality(T) = MaxAddrs
      BY ConnectAssumption, FS_Interval
    <2> HIDE DEF f, T
    <2> QED
      BY <2>2, <2>3, FS_Injection
  <1>4. ASSUME isel \in Nat, isel < Cardinality(S)
        PROVE  Race!Candidate \in R /\ Race!Rank(Race!Candidate) = isel
    <2>1. isel \in 0 .. Cardinality(R) - 1 /\ isel < MaxAddrs
      BY <1>2, <1>3, <1>4, ConnectAssumption
    <2>2. PICK a \in R : Race!Rank(a) = isel
      BY <2>1, RankOnto
    <2>3. a \in S
      BY <2>1, <2>2 DEF Race!Selected
    <2>4. Race!Candidate \in S /\ Race!Rank(Race!Candidate) = isel
      BY <2>2, <2>3, Zenon DEF Race!Candidate
    <2> QED
      BY <1>1, <2>4
  <1> QED
    BY <1>2, <1>3, <1>4

----------------------------------------------------------------------------

\* Both families get at least half of the places, or all that they have.
LEMMA Shares ==
  ASSUME Race!ConnectTypeOK
  PROVE  Race!FamiliesShare
  <1> SUFFICES ASSUME NEW f \in Race!Families
               PROVE  LET mine == Cardinality({a \in Race!Selected : a.fam = f})
                      IN  mine >= MaxAddrs \div 2 \/ mine = resolved[f]
    BY SameCardinality DEF Race!FamiliesShare
  <1> DEFINE M == {a \in Race!Selected : a.fam = f}
             h == MaxAddrs \div 2
             n == resolved[f]
             m == IF n < h THEN n ELSE h
             addr == [s \in 0 .. m - 1 |-> [fam |-> f, slot |-> s]]
             slot == [a \in M |-> a.slot]
  <1>1. f \in {0, 1} /\ n \in 0 .. MaxResolved /\ h \in Nat /\ 2 * h <= MaxAddrs
    BY ConnectAssumption DEF Race!ConnectTypeOK, Race!Families
  <1>2. m \in Nat /\ m <= n /\ m <= h
    BY <1>1
  <1>3. M \in SUBSET Race!Addresses /\ IsFiniteSet(M) /\ Cardinality(M) \in Nat
    <2>1. M \in SUBSET Race!Addresses
      BY DEF Race!Selected, Race!Resolved
    <2> HIDE DEF M
    <2> QED
      BY <2>1, FiniteAddresses
  <1>4. ASSUME NEW s \in 0 .. m - 1
        PROVE  [fam |-> f, slot |-> s] \in M
    <2> DEFINE a == [fam |-> f, slot |-> s]
    <2>1. a \in Race!Resolved
      BY <1>1, <1>2, ConnectAssumption DEF Race!Resolved, Race!Addresses, Race!Families
    <2>2. a \in Race!Addresses
      BY <2>1 DEF Race!Resolved
    <2>3. Key(a) < MaxAddrs
      BY <1>1, <1>2, ConnectAssumption DEF Key
    <2>4. Race!Rank(a) < MaxAddrs
      <3> HIDE DEF a
      <3> QED
        BY <2>2, <2>3, RankFacts, KeyOrder, ConnectAssumption
    <2> QED
      BY <2>1, <2>4 DEF Race!Selected
  <1>5. m <= Cardinality(M)
    <2>1. addr \in Injection(0 .. m - 1, M)
      BY <1>4 DEF Injection, IsInjective
    <2>2. Cardinality(0 .. m - 1) = m
      BY <1>2, FS_Interval
    <2> HIDE DEF addr, M, m
    <2> QED
      BY <1>3, <2>1, <2>2, FS_Injection
  <1>6. Cardinality(M) <= n
    <2>1. \A a \in M : a.slot \in 0 .. n - 1 /\ a = [fam |-> f, slot |-> a.slot]
      BY <1>1, ConnectAssumption DEF Race!Selected, Race!Resolved, Race!Addresses
    <2>2. slot \in Injection(M, 0 .. n - 1)
      BY <2>1 DEF Injection, IsInjective
    <2>3. n \in Nat
      BY <1>1, ConnectAssumption
    <2> HIDE DEF slot, M, n
    <2>4. IsFiniteSet(0 .. n - 1) /\ Cardinality(0 .. n - 1) = n
      BY <2>3, FS_Interval
    <2> QED
      BY <2>2, <2>4, FS_Injection
  <1> HIDE DEF M
  <1> QED
    BY <1>1, <1>2, <1>3, <1>5, <1>6 DEF M

----------------------------------------------------------------------------
(* The steps of the race.                                                  *)

\* What the race keeps, whatever fetch is at.
RaceInv == Race!ConnectTypeOK /\ OneSurvivor /\ RaceOK /\ PaidOK

LEMMA NoFdApart ==
  Race!NoFd \notin Race!Addresses
  BY DEF Race!NoFd, Race!Addresses, Race!Families

\* Paid(n) is about naturals, and is kept when nothing it names changes.
LEMMA ClosedFinite ==
  IsFiniteSet(Closed) /\ Cardinality(Closed) \in Nat
  <1>1. Closed \in SUBSET Race!Addresses
    BY DEF Closed
  <1> QED
    BY <1>1, FiniteAddresses

LEMMA PaidKept ==
  ASSUME NEW n \in Nat, UNCHANGED <<deadline, polls>>, Closed' = Closed
  PROVE  Paid(n)' <=> Paid(n)
  BY DEF Paid, Waited

\* No poll was made yet.
LEMMA NoneWaited ==
  /\ Race!NoPolls \in Polls
  /\ polls = Race!NoPolls => Waited = 0
  /\ polls \in Polls => Waited \in Nat
  BY ConnectAssumption DEF Race!NoPolls, Polls, Waited

LEMMA BeginRace ==
  ASSUME RaceInv, winner = Race!NoFd, Race!Begin
  PROVE  RaceInv'
  <1>1. Race!ConnectTypeOK'
    BY DEF RaceInv, Race!ConnectTypeOK, Race!ConnectSteps, Race!Begin
  <1>2. OneSurvivor'
    BY DEF RaceInv, OneSurvivor, Race!OneSurvivor, Race!IsOpen, Race!InRace, Race!Begin
  <1>3. RaceOK'
    BY DEF RaceInv, RaceOK, AtRest, Racing, Waited, Race!Begin
  <1>4. PaidOK'
    BY DEF PaidOK, Race!Begin
  <1> QED
    BY <1>1, <1>2, <1>3, <1>4 DEF RaceInv

LEMMA ReturnedRace ==
  ASSUME RaceInv, cstep \in {"connected", "unresolved", "unconnected"}, Race!Returned
  PROVE  RaceInv'
  <1>1. Race!ConnectTypeOK'
    BY DEF RaceInv, Race!ConnectTypeOK, Race!ConnectSteps, Race!Returned
  <1>2. OneSurvivor'
    BY DEF RaceInv, OneSurvivor, Race!OneSurvivor, Race!IsOpen, Race!InRace, Race!Returned
  <1>3. RaceOK'
    BY DEF RaceInv, RaceOK, AtRest, Racing, Race!Returned, Waited
  <1>4. PaidOK'
    BY DEF PaidOK, Race!Returned
  <1> QED
    BY <1>1, <1>2, <1>3, <1>4 DEF RaceInv

LEMMA ResolveRace ==
  ASSUME RaceInv, Race!Resolve
  PROVE  RaceInv'
  <1> USE DEF RaceInv, Race!Resolve
  <1>1. Race!ConnectTypeOK'
    BY DEF Race!ConnectTypeOK, Race!ConnectSteps
  <1>2. OneSurvivor'
    BY DEF OneSurvivor, Race!OneSurvivor, Race!IsOpen, Race!InRace
  <1>3. RaceOK'
    <2>1. /\ winner = Race!NoFd /\ pfd = <<>> /\ deadline = Timeout /\ polls = Race!NoPolls /\ isel = 0
          /\ \A a \in Race!Addresses : sock[a] = "none"
      BY NoFdApart DEF RaceOK, AtRest, Racing
    <2>2. isel' <= Cardinality(Race!Selected)' /\ Len(pfd') <= isel'
      <3>1. (Cardinality(Race!Selected) \in Nat)'
        BY CandidateOK, PTL
      <3> QED
        BY <2>1, <3>1
    <2>3. UNCHANGED <<isel, sock, pfd, i, winner, deadline, polls>> /\ cstep' \in {"unresolved", "connecting"}
      OBVIOUS
    <2>4. pfd' \in Seq(Race!Addresses)
      BY <2>1, <2>3
    <2> HIDE DEF Race!Resolve, RaceInv
    <2> QED
      BY <2>1, <2>2, <2>3, <2>4, NoFdApart, ConnectAssumption DEF RaceOK, AtRest, Racing, Waited, Race!NoPolls
  <1>4. PaidOK'
    BY DEF PaidOK
  <1> QED
    BY <1>1, <1>2, <1>3, <1>4

LEMMA ConnectedRace ==
  ASSUME RaceInv, Race!Connected
  PROVE  RaceInv'
  <1> USE DEF RaceInv, Race!Connected
  <1>1. Race!ConnectTypeOK'
    BY DEF Race!ConnectTypeOK, Race!ConnectSteps
  <1>2. OneSurvivor'
    BY DEF OneSurvivor, Race!OneSurvivor, Race!IsOpen, Race!InRace
  <1>3. RaceOK'
    BY DEF RaceOK, AtRest, Racing, Waited
  <1>4. PaidOK'
    <2>1. deadline' = Timeout /\ polls' = Race!NoPolls /\ cstep' = "polling"
      BY DEF RaceOK
    <2>2. (Cardinality(Closed) \in Nat)'
      BY ClosedFinite, PTL
    <2> QED
      BY <2>1, <2>2, ConnectAssumption DEF PaidOK, Paid, Waited, Race!NoPolls
  <1> QED
    BY <1>1, <1>2, <1>3, <1>4

\* A candidate has not been tried before, so it has no place in the poll set yet.
LEMMA ConnectRace ==
  ASSUME RaceInv, Race!Connect
  PROVE  RaceInv'
  <1> DEFINE c == Race!Candidate
  <1>1. /\ c \in Race!Resolved /\ Race!Rank(c) = isel /\ isel \in Nat
        /\ isel < Cardinality(Race!Selected) /\ isel + 1 <= MaxAddrs /\ isel' = isel + 1
        /\ Cardinality(Race!Selected) \in Nat
    BY CandidateOK, SameCardinality, ConnectAssumption
    DEF RaceInv, Race!ConnectTypeOK, Race!Connect
  <1>2. /\ cstep = "connecting" /\ winner = Race!NoFd /\ deadline = Timeout /\ polls = Race!NoPolls
        /\ pfd \in Seq(Race!Addresses) /\ Len(pfd) <= isel
        /\ \A a \in Race!Addresses :
             sock[a] # "none" => a \in Race!Resolved /\ Race!Rank(a) < isel
    BY DEF RaceInv, RaceOK, Racing, Race!Connect
  <1>3. c \in Race!Addresses /\ sock[c] = "none" /\ c # Race!NoFd
    BY <1>1, <1>2, NoFdApart DEF Race!Resolved
  <1>4. ~Race!InRace(c)
    BY <1>3 DEF RaceInv, OneSurvivor, Race!OneSurvivor, Race!IsOpen
  <1>5. /\ UNCHANGED <<resolved, revents, i, deadline, polls>>
        /\ \/ UNCHANGED <<cstep, sock, blocking, pfd, winner>>
           \/ /\ sock' = [sock EXCEPT ![c] = "up"] /\ blocking' = blocking \cup {c}
              /\ winner' = c /\ cstep' = "closing" /\ UNCHANGED pfd
           \/ /\ sock' = [sock EXCEPT ![c] = "refused"]
              /\ UNCHANGED <<cstep, blocking, pfd, winner>>
           \/ /\ sock' = [sock EXCEPT ![c] = "trying"] /\ pfd' = Append(pfd, c)
              /\ UNCHANGED <<cstep, blocking, winner>>
    BY DEF Race!Connect
  <1>6. /\ UNCHANGED Cardinality(Race!Selected) /\ UNCHANGED Race!Resolved
        /\ \A a : UNCHANGED Race!Rank(a)
    BY <1>5 DEF Race!Selected, Race!Resolved, Race!Rank
  <1>7. /\ sock \in [Race!Addresses -> {"none", "refused", "trying", "up", "down", "closed"}]
        /\ blocking \subseteq Race!Addresses /\ i \in 1 .. MaxAddrs + 1
    BY DEF RaceInv, Race!ConnectTypeOK
  <1> HIDE DEF c
  <1>8. Len(pfd') <= isel' /\ pfd' \in Seq(Race!Addresses) /\ Len(pfd) \in Nat
    BY <1>1, <1>2, <1>3, <1>5
  <1>9. Race!ConnectTypeOK'
    <2>1. pfd' \in Seq(Race!Addresses \cup {Race!NoFd})
      BY <1>8
    <2>2. /\ sock' \in [Race!Addresses ->
                          {"none", "refused", "trying", "up", "down", "closed"}]
          /\ blocking' \subseteq Race!Addresses
          /\ winner' \in Race!Addresses \cup {Race!NoFd}
          /\ cstep' \in Race!ConnectSteps
      BY <1>2, <1>3, <1>5, <1>7 DEF Race!ConnectSteps
    <2>3. Len(pfd') <= MaxAddrs /\ isel' \in 0 .. MaxAddrs
      BY <1>1, <1>8, ConnectAssumption
    <2> QED
      BY <1>5, <2>1, <2>2, <2>3 DEF RaceInv, Race!ConnectTypeOK
  <1>10. OneSurvivor'
    <2>1. \A a \in Race!Addresses : Race!IsOpen(a) <=> Race!InRace(a)
      BY <1>2, NoFdApart DEF RaceInv, OneSurvivor, Race!OneSurvivor
    <2>2. \A j, k \in DOMAIN pfd : j # k => pfd[j] # pfd[k]
      BY DEF RaceInv, OneSurvivor, Race!OneSurvivor
    <2>3. CASE UNCHANGED pfd
      <3>1. \A a : Race!InRace(a)' <=> Race!InRace(a)
        BY <2>3 DEF Race!InRace
      <3>2. CASE UNCHANGED <<cstep, sock, blocking, pfd, winner>>
        BY <3>2 DEF RaceInv, OneSurvivor, Race!OneSurvivor, Race!IsOpen, Race!InRace
      <3>3. CASE /\ sock' = [sock EXCEPT ![c] = "up"]
                 /\ blocking' = blocking \cup {c} /\ winner' = c
        BY <3>1, <3>3, <2>1, <2>2, <2>3, <1>3, <1>7
        DEF OneSurvivor, Race!OneSurvivor, Race!IsOpen
      <3>4. CASE sock' = [sock EXCEPT ![c] = "refused"] /\ UNCHANGED <<blocking, winner>>
        BY <3>1, <3>4, <2>1, <2>2, <2>3, <1>2, <1>3, <1>4, <1>7, NoFdApart
        DEF OneSurvivor, Race!OneSurvivor, Race!IsOpen
      <3> QED
        BY <1>5, <3>2, <3>3, <3>4, <2>3, <1>8
    <2>4. CASE sock' = [sock EXCEPT ![c] = "trying"] /\ pfd' = Append(pfd, c)
               /\ UNCHANGED <<blocking, winner>>
      <3>1. \A a : Race!InRace(a)' <=> Race!InRace(a) \/ a = c
        BY <2>4, <1>2, <1>8 DEF Race!InRace
      <3>2. \A j, k \in DOMAIN pfd' : j # k => pfd'[j] # pfd'[k]
        BY <2>2, <2>4, <1>2, <1>4, <1>8 DEF Race!InRace
      <3> QED
        BY <3>1, <3>2, <2>1, <2>4, <1>2, <1>3, <1>7, NoFdApart
        DEF OneSurvivor, Race!OneSurvivor, Race!IsOpen
    <2> QED
      BY <1>5, <2>3, <2>4
  <1>11. RaceOK'
    <2>1. \A a \in Race!Addresses :
            sock'[a] # "none" => a \in Race!Resolved' /\ Race!Rank(a)' < isel'
      <3> SUFFICES ASSUME NEW a \in Race!Addresses, sock'[a] # "none"
                   PROVE  a \in Race!Resolved /\ Race!Rank(a) < isel'
        BY <1>6
      <3>1. CASE a = c
        BY <3>1, <1>1
      <3>2. CASE a # c
        <4>1. a \in Race!Resolved /\ Race!Rank(a) < isel
          BY <3>2, <1>2, <1>5, <1>7
        <4> QED
          BY <4>1, <1>1, RankFacts
      <3> QED
        BY <3>1, <3>2
    <2>2. cstep' \in {"connecting", "closing"} /\ (cstep' = "connecting" => winner' = Race!NoFd)
      BY <1>2, <1>5
    <2>3. isel' <= Cardinality(Race!Selected)' /\ Waited' + deadline' <= Timeout
      BY <1>1, <1>2, <1>5, <1>6, ConnectAssumption DEF Waited, Race!NoPolls
    <2> QED
      BY <2>1, <2>2, <2>3, <1>2, <1>5, <1>8 DEF RaceOK, AtRest, Racing
  <1>12. PaidOK'
    BY <1>2, <1>3, <1>5 DEF PaidOK
  <1> QED
    BY <1>9, <1>10, <1>11, <1>12 DEF RaceInv

\* What a poll adds to the history: a slice that was waited out, or until a signal
\* came, takes one from the budget.
LEMMA PollsKept ==
  ASSUME RaceInv,
         \/ Race!PollReady \/ Race!PollSlept \/ Race!PollWoken \/ Race!PollFailed
         \/ Race!ScanSkip \/ Race!ScanEnd \/ Race!GiveUp
  PROVE  /\ polls' \in Polls /\ deadline' \in 0 .. Timeout /\ Waited' + deadline' <= Timeout
         /\ Race!PollSlept \/ Race!PollWoken => Waited' = Waited + 1 /\ deadline' = deadline - 1
         /\ ~Race!PollSlept /\ ~Race!PollWoken => Waited' = Waited
  <1>1. /\ polls \in Polls /\ deadline \in 0 .. Timeout /\ Timeout \in Nat
        /\ Waited + deadline <= Timeout
    BY ConnectAssumption DEF RaceInv, RaceOK, Race!ConnectTypeOK, Polls
  <1>2. /\ polls.slept \in 0 .. Timeout /\ polls.woken \in 0 .. Timeout
        /\ polls.slept + polls.woken + deadline <= Timeout
    BY <1>1 DEF Polls, Waited
  <1>3. CASE Race!PollSlept
    <2>1. /\ deadline > 0 /\ deadline' = deadline - 1
          /\ polls' = [polls EXCEPT !.slept = polls.slept + 1]
      BY <1>3 DEF Race!PollSlept, Race!Polling
    <2>2. polls.slept + 1 \in 0 .. Timeout
      BY <1>1, <1>2, <2>1
    <2>3. polls' \in Polls /\ polls'.slept = polls.slept + 1 /\ polls'.woken = polls.woken
      BY <1>1, <2>1, <2>2 DEF Polls
    <2> QED
      BY <1>1, <1>2, <1>3, <2>1, <2>3 DEF Waited
  <1>4. CASE Race!PollWoken
    <2>1. /\ deadline > 0 /\ deadline' = deadline - 1
          /\ polls' = [polls EXCEPT !.woken = polls.woken + 1]
      BY <1>4 DEF Race!PollWoken, Race!Polling
    <2>2. polls.woken + 1 \in 0 .. Timeout
      BY <1>1, <1>2, <2>1
    <2>3. polls' \in Polls /\ polls'.woken = polls.woken + 1 /\ polls'.slept = polls.slept
      BY <1>1, <2>1, <2>2 DEF Polls
    <2> QED
      BY <1>1, <1>2, <1>4, <2>1, <2>3 DEF Waited
  <1>5. CASE ~Race!PollSlept /\ ~Race!PollWoken
    <2>1. /\ polls' \in {polls, [polls EXCEPT !.failed = TRUE]}
          /\ deadline' = deadline \/ (deadline > 0 /\ deadline' = deadline - 1)
      BY <1>5 DEF Race!PollReady, Race!PollFailed, Race!Polling, Race!ScanSkip, Race!ScanEnd,
         Race!GiveUp
    <2>2. polls' \in Polls /\ polls'.slept = polls.slept /\ polls'.woken = polls.woken
      BY <1>1, <2>1 DEF Polls
    <2> QED
      BY <1>1, <1>2, <1>5, <2>1, <2>2 DEF Waited
  <1> QED
    BY <1>3, <1>4, <1>5

\* A poll, a pass over an entry and the last of them leave the sockets alone.
LEMMA PollRace ==
  ASSUME RaceInv,
         \/ Race!PollReady \/ Race!PollSlept \/ Race!PollWoken \/ Race!PollFailed
         \/ Race!ScanSkip \/ Race!ScanEnd \/ Race!GiveUp
  PROVE  RaceInv'
  <1>1. /\ UNCHANGED <<resolved, isel, sock, blocking, pfd, winner>>
        /\ cstep \in {"polling", "scanning"} /\ cstep' \in {"polling", "scanning", "closing"}
        /\ deadline \in 0 .. Timeout /\ Waited \in Nat /\ Timeout \in Nat
        /\ i \in 1 .. MaxAddrs + 1 /\ pfd \in Seq(Race!Addresses) /\ Len(pfd) <= MaxAddrs
        /\ winner = Race!NoFd /\ MaxAddrs \in Nat \ {0}
        /\ (cstep = "scanning" => i <= Len(pfd) + 1) /\ Len(pfd) \in Nat
    BY ConnectAssumption, NoneWaited DEF RaceInv, RaceOK, Racing, Race!ConnectTypeOK, Polls,
       Race!PollReady, Race!PollSlept, Race!PollWoken, Race!PollFailed, Race!Polling,
       Race!ScanSkip, Race!ScanEnd, Race!GiveUp
  <1>2. OneSurvivor'
    BY <1>1 DEF RaceInv, OneSurvivor, Race!OneSurvivor, Race!IsOpen, Race!InRace
  <1>3. Race!ConnectTypeOK' /\ RaceOK'
    <2>1. i' \in 1 .. MaxAddrs + 1 /\ (cstep' = "scanning" => i' <= Len(pfd') + 1)
      BY <1>1 DEF Race!PollReady, Race!PollSlept, Race!PollWoken, Race!PollFailed, Race!Polling,
         Race!ScanSkip, Race!ScanEnd, Race!GiveUp
    <2>2. revents' \subseteq Race!Addresses
      BY DEF RaceInv, Race!ConnectTypeOK, Race!PollReady, Race!Ready, Race!PollSlept,
         Race!PollWoken, Race!PollFailed, Race!ScanSkip, Race!ScanEnd, Race!GiveUp
    <2>3. polls' \in Polls /\ deadline' \in 0 .. Timeout /\ Waited' + deadline' <= Timeout
      BY PollsKept
    <2> QED
      BY <1>1, <2>1, <2>2, <2>3
      DEF RaceInv, Race!ConnectTypeOK, Race!ConnectSteps, RaceOK, AtRest, Racing, Polls
  <1>4. PaidOK'
    <2>1. Closed' = Closed /\ Cardinality(Closed) \in Nat
      BY <1>1, ClosedFinite DEF Closed
    <2>2. CASE Race!PollReady
      <3>1. Paid(1)'
        <4>1. Waited' = Waited /\ Paid(0) /\ deadline' = deadline - 1
          BY <2>2, PollsKept DEF RaceInv, PaidOK, Race!PollReady, Race!PollSlept, Race!PollWoken,
             Race!Polling
        <4> QED
          BY <2>1, <1>1, <4>1 DEF Paid
      <3>2. \E j \in i' .. Len(pfd') : pfd'[j] \in revents'
        BY <2>2, <1>1 DEF Race!PollReady, Race!Ready, Race!InRace
      <3> QED
        BY <3>1, <3>2, <2>2 DEF PaidOK, Race!PollReady
    <2>3. CASE Race!PollSlept \/ Race!PollWoken
      <3>1. /\ Waited' = Waited + 1 /\ deadline' = deadline - 1 /\ Paid(0) /\ cstep' = "polling"
        BY <2>3, PollsKept DEF RaceInv, PaidOK, Race!PollSlept, Race!PollWoken, Race!Polling
      <3> QED
        BY <2>1, <1>1, <3>1 DEF PaidOK, Paid
    <2>4. CASE Race!PollFailed
      <3>1. polls'.failed
        BY <2>4 DEF Race!PollFailed, RaceInv, Race!ConnectTypeOK
      <3> QED
        BY <3>1, <2>4 DEF PaidOK, Race!PollFailed
    <2>5. CASE Race!ScanSkip
      <3>1. UNCHANGED <<deadline, polls>>
        BY <2>5 DEF Race!ScanSkip
      <3>2. (Paid(0)' <=> Paid(0)) /\ (Paid(1)' <=> Paid(1))
        BY <2>1, <3>1, PaidKept
      <3>3. CASE Paid(0)
        BY <3>2, <3>3, <2>5 DEF PaidOK, Race!ScanSkip
      <3>4. CASE Paid(1) /\ \E j \in i .. Len(pfd) : pfd[j] \in revents
        <4>1. \E j \in i' .. Len(pfd') : pfd'[j] \in revents'
          BY <3>4, <2>5, <1>1 DEF Race!ScanSkip
        <4> QED
          BY <3>2, <3>4, <4>1, <2>5 DEF PaidOK, Race!ScanSkip
      <3> QED
        BY <3>3, <3>4, <2>5 DEF RaceInv, PaidOK, Race!ScanSkip
    <2>6. CASE Race!ScanEnd
      <3>1. Paid(0) /\ UNCHANGED <<deadline, polls>>
        BY <2>6, <1>1 DEF RaceInv, PaidOK, Race!ScanEnd
      <3>2. Paid(0)'
        BY <2>1, <3>1, PaidKept
      <3> QED
        BY <3>2, <2>6 DEF PaidOK, Race!ScanEnd
    <2>7. CASE Race!GiveUp
      <3>1. Paid(0) /\ UNCHANGED <<deadline, polls>> /\ (pfd' = <<>> \/ deadline' = 0)
        BY <2>7, <1>1 DEF RaceInv, PaidOK, Race!GiveUp, Race!Polling
      <3>2. Paid(0)'
        BY <2>1, <3>1, PaidKept
      <3> QED
        BY <3>1, <3>2, <2>7 DEF PaidOK, Race!GiveUp
    <2> QED
      BY <2>2, <2>3, <2>4, <2>5, <2>6, <2>7
  <1> QED
    BY <1>2, <1>3, <1>4 DEF RaceInv

\* What holds of the entry the scan is at.
LEMMA Scanned ==
  ASSUME RaceInv, cstep = "scanning", i <= Len(pfd)
  PROVE  /\ winner = Race!NoFd /\ pfd \in Seq(Race!Addresses) /\ i \in DOMAIN pfd
         /\ Len(pfd) \in Nat /\ i \in Nat /\ i >= 1 /\ DOMAIN pfd = 1 .. Len(pfd)
         /\ Len(pfd) <= MaxAddrs /\ MaxAddrs \in Nat
         /\ pfd[i] \in Race!Addresses /\ pfd[i] # Race!NoFd
         /\ \A a \in Race!Addresses : Race!IsOpen(a) <=> Race!InRace(a)
         /\ \A j, k \in DOMAIN pfd : j # k => pfd[j] # pfd[k]
  <1>1. /\ winner = Race!NoFd /\ pfd \in Seq(Race!Addresses) /\ i \in 1 .. MaxAddrs + 1
        /\ Len(pfd) <= MaxAddrs
    BY DEF RaceInv, RaceOK, Racing, Race!ConnectTypeOK
  <1>2. /\ i \in DOMAIN pfd /\ Len(pfd) \in Nat /\ i \in Nat /\ i >= 1
        /\ DOMAIN pfd = 1 .. Len(pfd)
    BY <1>1, ConnectAssumption
  <1>3. pfd[i] \in Race!Addresses /\ pfd[i] # Race!NoFd
    BY <1>1, <1>2, NoFdApart
  <1>4. /\ \A a \in Race!Addresses : Race!IsOpen(a) <=> Race!InRace(a)
        /\ \A j, k \in DOMAIN pfd : j # k => pfd[j] # pfd[k]
    BY <1>1, NoFdApart DEF RaceInv, OneSurvivor, Race!OneSurvivor
  <1> QED
    BY <1>1, <1>2, <1>3, <1>4, ConnectAssumption

LEMMA ScanWinRace ==
  ASSUME RaceInv, Race!ScanWin
  PROVE  RaceInv'
  <1> DEFINE w == pfd[i]
  <1>1. /\ winner = Race!NoFd /\ pfd \in Seq(Race!Addresses) /\ i \in DOMAIN pfd
        /\ Len(pfd) \in Nat /\ i \in Nat /\ i >= 1 /\ DOMAIN pfd = 1 .. Len(pfd)
        /\ Len(pfd) <= MaxAddrs
        /\ w \in Race!Addresses /\ w # Race!NoFd
        /\ \A a \in Race!Addresses : Race!IsOpen(a) <=> Race!InRace(a)
        /\ \A j, k \in DOMAIN pfd : j # k => pfd[j] # pfd[k]
    BY Scanned DEF Race!ScanWin
  <1>2. /\ sock[w] = "up" /\ winner' = w /\ blocking' = blocking \cup {w}
        /\ pfd' = [pfd EXCEPT ![i] = Race!NoFd] /\ cstep' = "closing"
        /\ UNCHANGED <<resolved, isel, sock, revents, i, deadline, polls>>
    BY DEF Race!ScanWin
  <1> HIDE DEF w
  <1>3. pfd' \in Seq(Race!Addresses \cup {Race!NoFd}) /\ Len(pfd') = Len(pfd)
    BY <1>1, <1>2
  <1>4. Race!ConnectTypeOK'
    BY <1>1, <1>2, <1>3 DEF RaceInv, Race!ConnectTypeOK, Race!ConnectSteps
  <1>5. OneSurvivor'
    <2>1. ASSUME NEW a \in Race!Addresses
          PROVE  Race!InRace(a)' <=> Race!InRace(a) /\ a # w
      BY <1>1, <1>2, NoFdApart DEF Race!InRace, w
    <2>2. \A j, k \in DOMAIN pfd' : j # k => pfd'[j] # pfd'[k]
      BY <1>1, <1>2, NoFdApart
    <2>3. Race!IsOpen(w)
      BY <1>2 DEF Race!IsOpen
    <2> QED
      BY <1>1, <1>2, <2>1, <2>2, <2>3 DEF OneSurvivor, Race!OneSurvivor, Race!IsOpen
  <1>6. RaceOK'
    BY <1>2 DEF RaceInv, RaceOK, AtRest, Racing, Waited
  <1>7. PaidOK'
    BY <1>1, <1>2 DEF PaidOK
  <1> QED
    BY <1>4, <1>5, <1>6, <1>7 DEF RaceInv

\* The failed socket leaves the set, and the entry moved up is looked at next.
LEMMA ScanDropRace ==
  ASSUME RaceInv, Race!ScanDrop
  PROVE  RaceInv'
  <1> DEFINE d == pfd[i]
             n == Len(pfd)
  <1>1. /\ winner = Race!NoFd /\ pfd \in Seq(Race!Addresses) /\ i \in 1 .. n
        /\ n \in Nat /\ i \in Nat /\ i >= 1 /\ DOMAIN pfd = 1 .. n
        /\ n <= MaxAddrs /\ MaxAddrs \in Nat
        /\ d \in Race!Addresses /\ d # Race!NoFd
        /\ \A a \in Race!Addresses : Race!IsOpen(a) <=> Race!InRace(a)
        /\ \A j, k \in 1 .. n : j # k => pfd[j] # pfd[k]
    BY Scanned DEF Race!ScanDrop
  <1>2. /\ sock[d] = "down" /\ sock' = [sock EXCEPT ![d] = "closed"]
        /\ pfd' = [j \in 1 .. n - 1 |-> IF j = i THEN pfd[n] ELSE pfd[j]]
        /\ cstep = "scanning" /\ cstep' = cstep
        /\ UNCHANGED <<resolved, isel, blocking, revents, i, winner, deadline, polls>>
    BY DEF Race!ScanDrop, Race!SwapRemove
  <1>3. /\ sock \in [Race!Addresses -> {"none", "refused", "trying", "up", "down", "closed"}]
        /\ deadline \in 0 .. Timeout /\ polls \in Polls /\ Timeout \in Nat
    BY ConnectAssumption DEF RaceInv, Race!ConnectTypeOK, Polls
  <1>4. /\ d = pfd[i] /\ n = Len(pfd)
    OBVIOUS
  <1> HIDE DEF d, n
  <1>5. /\ pfd' \in Seq(Race!Addresses) /\ Len(pfd') = n - 1 /\ DOMAIN pfd' = 1 .. n - 1
        /\ \A j \in 1 .. n - 1 : pfd'[j] = IF j = i THEN pfd[n] ELSE pfd[j]
    <2>1. /\ n - 1 \in Nat /\ n \in 1 .. n
      BY <1>1
    <2>2. pfd' \in [1 .. n - 1 -> Race!Addresses]
      BY <1>1, <1>2, <1>4, <2>1
    <2> QED
      BY <1>2, <2>1, <2>2
  <1>6. Race!ConnectTypeOK'
    <2>1. pfd' \in Seq(Race!Addresses \cup {Race!NoFd})
      BY <1>5
    <2>2. sock' \in [Race!Addresses ->
                       {"none", "refused", "trying", "up", "down", "closed"}]
      BY <1>1, <1>2, <1>3
    <2>3. Len(pfd') <= MaxAddrs
      BY <1>1, <1>5
    <2> QED
      BY <1>2, <2>1, <2>2, <2>3 DEF RaceInv, Race!ConnectTypeOK
  <1>7. OneSurvivor'
    <2>1. ASSUME NEW a \in Race!Addresses
          PROVE  Race!InRace(a)' <=> Race!InRace(a) /\ a # d
      <3>1. ASSUME NEW k \in 1 .. n, pfd[k] = a, a # d
            PROVE  \E j \in 1 .. n - 1 : pfd'[j] = a
        <4>1. k # i
          BY <3>1, <1>4
        <4>2. CASE k = n
          <5>1. i \in 1 .. n - 1 /\ pfd'[i] = pfd[n]
            BY <4>1, <4>2, <1>1, <1>5
          <5> QED
            BY <5>1, <4>2, <3>1
        <4>3. CASE k # n
          <5>1. k \in 1 .. n - 1 /\ pfd'[k] = pfd[k]
            BY <4>1, <4>3, <1>1, <1>5
          <5> QED
            BY <5>1, <3>1
        <4> QED
          BY <4>2, <4>3
      <3>2. ASSUME NEW j \in 1 .. n - 1, pfd'[j] = a
            PROVE  (\E k \in 1 .. n : pfd[k] = a) /\ a # d
        <4>1. j # n /\ j \in 1 .. n /\ n \in 1 .. n
          BY <1>1
        <4> QED
          BY <4>1, <3>2, <1>1, <1>4, <1>5
      <3> QED
        BY <3>1, <3>2, <1>1, <1>5 DEF Race!InRace
    <2>2. ASSUME NEW j \in DOMAIN pfd', NEW k \in DOMAIN pfd', j # k
          PROVE  pfd'[j] # pfd'[k]
      <3>1. /\ j \in 1 .. n - 1 /\ k \in 1 .. n - 1 /\ j \in 1 .. n /\ k \in 1 .. n
            /\ n \in 1 .. n /\ j # n /\ k # n
        BY <1>1, <1>5, <2>2
      <3> QED
        BY <3>1, <2>2, <1>1, <1>5
    <2>3. \A a \in Race!Addresses : Race!IsOpen(a)' <=> Race!IsOpen(a) /\ a # d
      BY <1>1, <1>2, <1>3 DEF Race!IsOpen
    <2>4. \A a \in Race!Addresses : winner' # a
      BY <1>1, <1>2, NoFdApart
    <2>5. \A a \in Race!Addresses : Race!IsOpen(a)' <=> Race!InRace(a)' \/ winner' = a
      BY <1>1, <2>1, <2>3, <2>4
    <2>6. winner' = Race!NoFd
      BY <1>1, <1>2
    <2> QED
      BY <2>2, <2>5, <2>6 DEF OneSurvivor, Race!OneSurvivor
  <1>8. RaceOK'
    <2>1. i' <= Len(pfd') + 1
      BY <1>1, <1>2, <1>5
    <2> QED
      BY <1>1, <1>2, <1>5, <2>1 DEF RaceInv, RaceOK, AtRest, Racing, Waited
  <1>9. PaidOK'
    <2>1. Closed' = Closed \cup {d} /\ d \notin Closed
      BY <1>1, <1>2, <1>3 DEF Closed
    <2>2. IsFiniteSet(Closed) /\ Cardinality(Closed) \in Nat
      BY ClosedFinite
    <2>3. Cardinality(Closed') = Cardinality(Closed) + 1
      BY <2>1, <2>2, FS_AddElement
    <2>4. Paid(0) \/ Paid(1)
      BY <1>2 DEF RaceInv, PaidOK
    <2>5. Paid(0)'
      BY <2>2, <2>3, <2>4, <1>2, <1>3, NoneWaited DEF Paid, Waited
    <2> QED
      BY <2>5, <1>2 DEF PaidOK
  <1> QED
    BY <1>6, <1>7, <1>8, <1>9 DEF RaceInv

LEMMA CloseLosersRace ==
  ASSUME RaceInv, Race!CloseLosers
  PROVE  RaceInv'
  <1>1. /\ cstep' = IF winner = Race!NoFd THEN "unconnected" ELSE "connected"
        /\ resolved' = [f \in Race!Families |-> 0] /\ isel' = 0
        /\ pfd' = <<>> /\ revents' = {} /\ i' = 1 /\ deadline' = Timeout /\ polls' = Race!NoPolls
        /\ UNCHANGED <<blocking, winner>>
    BY DEF Race!CloseLosers
  <1>2. sock' = [a \in Race!Addresses |-> IF a = winner THEN "up" ELSE "none"]
    <2>1. ASSUME NEW a \in Race!Addresses
          PROVE  (IF Race!IsOpen(a) /\ (a = winner \/ ~Race!InRace(a)) THEN sock[a] ELSE "none")
                   = IF a = winner THEN "up" ELSE "none"
      <3>1. /\ Race!IsOpen(a) <=> Race!InRace(a) \/ winner = a
            /\ winner # Race!NoFd => sock[winner] = "up"
        BY DEF RaceInv, OneSurvivor, Race!OneSurvivor
      <3> QED
        BY <3>1, NoFdApart
    <2> QED
      BY <2>1 DEF Race!CloseLosers
  <1>3. Race!ConnectTypeOK'
    <2>1. pfd' \in Seq(Race!Addresses \cup {Race!NoFd}) /\ Len(pfd') = 0
      BY <1>1
    <2>2. /\ sock' \in [Race!Addresses ->
                          {"none", "refused", "trying", "up", "down", "closed"}]
          /\ cstep' \in Race!ConnectSteps
      BY <1>1, <1>2 DEF Race!ConnectSteps
    <2>3. /\ resolved' \in [Race!Families -> 0 .. MaxResolved] /\ isel' \in 0 .. MaxAddrs
          /\ i' \in 1 .. MaxAddrs + 1 /\ deadline' \in 0 .. Timeout /\ polls' \in Polls
          /\ Len(pfd') <= MaxAddrs
      BY <1>1, <2>1, ConnectAssumption, NoneWaited
    <2> QED
      BY <1>1, <2>1, <2>2, <2>3 DEF RaceInv, Race!ConnectTypeOK, Polls
  <1>4. OneSurvivor'
    BY <1>1, <1>2 DEF RaceInv, OneSurvivor, Race!OneSurvivor, Race!IsOpen, Race!InRace,
       Race!ConnectTypeOK
  <1>5. RaceOK'
    BY <1>1, <1>2, ConnectAssumption DEF RaceOK, AtRest, Racing, Waited, Race!NoPolls
  <1>6. PaidOK'
    BY <1>1 DEF PaidOK
  <1> QED
    BY <1>3, <1>4, <1>5, <1>6 DEF RaceInv

\* No answer of the network opens or closes a socket.
LEMMA AnswerRace ==
  ASSUME RaceInv, Race!Network
  PROVE  RaceInv'
  <1>1. PICK a \in Race!Addresses : Race!Answer(a)
    BY DEF Race!Network
  <1>2. PICK s \in {"up", "down"} :
          /\ sock' = [sock EXCEPT ![a] = s] /\ sock[a] \in {"trying", "up"}
          /\ cstep \in Racing
          /\ UNCHANGED <<cstep, resolved, isel, blocking, pfd, revents, i, winner, deadline, polls>>
    BY <1>1 DEF Race!Answer, Racing
  <1>3. /\ sock \in [Race!Addresses -> {"none", "refused", "trying", "up", "down", "closed"}]
        /\ winner = Race!NoFd
    BY <1>2 DEF RaceInv, RaceOK, Race!ConnectTypeOK
  <1>4. Race!ConnectTypeOK'
    BY <1>2, <1>3 DEF RaceInv, Race!ConnectTypeOK
  <1>5. OneSurvivor'
    <2>1. \A b \in Race!Addresses : Race!IsOpen(b)' <=> Race!IsOpen(b)
      BY <1>2, <1>3 DEF Race!IsOpen
    <2> QED
      BY <1>2, <1>3, <2>1 DEF RaceInv, OneSurvivor, Race!OneSurvivor, Race!InRace
  <1>6. RaceOK'
    <2>1. /\ \A b : UNCHANGED Race!Rank(b)
          /\ UNCHANGED Cardinality(Race!Selected) /\ UNCHANGED Race!Resolved
      BY <1>2 DEF Race!Rank, Race!Selected, Race!Resolved
    <2>2. \A b \in Race!Addresses : sock'[b] # "none" => sock[b] # "none"
      BY <1>2, <1>3
    <2>3. cstep \notin AtRest
      BY <1>2 DEF AtRest, Racing
    <2> QED
      BY <1>2, <2>1, <2>2, <2>3 DEF RaceInv, RaceOK, Waited
  <1>7. PaidOK'
    <2>1. Closed' = Closed
      BY <1>2, <1>3 DEF Closed
    <2> QED
      BY <1>2, <2>1 DEF RaceInv, PaidOK, Paid, Racing, Waited
  <1> QED
    BY <1>4, <1>5, <1>6, <1>7 DEF RaceInv

LEMMA StepRace ==
  ASSUME RaceInv, Race!ConnectStep
  PROVE  RaceInv'
  BY ResolveRace, ConnectRace, ConnectedRace, PollRace, ScanWinRace, ScanDropRace,
     CloseLosersRace, Zenon DEF Race!ConnectStep

----------------------------------------------------------------------------
(* The steps of fetch.                                                     *)

\* The rest of the types, and what fetch keeps.
FetchTypeOK ==
  /\ pc \in Steps /\ opt \in Options /\ depth \in 0 .. MaxRedirects + 1
  /\ url \in {"http", "https", "bad"}
  /\ authmode \in {"none", "required"} /\ trusted \in BOOLEAN
  /\ peer \in {"none", "talking", "closed", "broken", "silent"}
  /\ resp \in Responses \cup {NoResp}
  /\ got \in 0 .. Wire /\ pos \in 0 .. got /\ left \in Int
  /\ file \in BOOLEAN /\ rc \in Codes

FetchInv == FetchTypeOK /\ FetchOK /\ PolicyOK

LEMMA Halves ==
  IInv <=> RaceInv /\ FetchInv
  <1>1. out \in Seq(Nat) => \A k \in DOMAIN out : out[k] \in Nat
    OBVIOUS
  <1> QED
    BY <1>1 DEF IInv, RaceInv, FetchInv, TypeOK, FetchTypeOK, FetchOK

Tokens == [kind : {"size", "data", "eol"}, n : Nat]

LEMMA WireOK ==
  ASSUME resp \in Responses \cup {NoResp}
  PROVE  /\ Wire \in Nat /\ resp.head \in Nat /\ Len(resp.body) \in Nat
         /\ resp.body \in Seq(Tokens)
         /\ \A k \in resp.head + 1 .. Wire : Token(k).n \in Nat
  <1>1. resp.head \in Nat /\ resp.body \in Seq(Tokens)
    <2>1. CASE resp = NoResp
      <3>1. resp.head = 0 /\ resp.body = <<>>
        BY <2>1 DEF NoResp
      <3> QED
        BY <3>1
    <2>2. CASE resp \in Responses
      <3>1. resp.head \in Nat \ {0} /\ resp.body \in Seq(Tokens)
        BY <2>2, HgetAssumption, Zenon DEF Tokens
      <3> QED
        BY <3>1
    <2> QED
      BY <2>1, <2>2
  <1>2. Len(resp.body) \in Nat
    BY <1>1
  <1>3. ASSUME NEW k \in resp.head + 1 .. Wire
        PROVE  Token(k).n \in Nat
    <2>1. k - resp.head \in 1 .. Len(resp.body)
      BY <1>1, <1>2 DEF Wire
    <2>2. resp.body[k - resp.head] \in Tokens
      BY <1>1, <2>1
    <2> QED
      BY <2>2 DEF Token, Tokens
  <1> QED
    BY <1>1, <1>2, <1>3 DEF Wire

\* What is written is data of the answer.
LEMMA DataOK ==
  ASSUME FetchInv, resp.head <= pos, NEW n \in Nat, pos + n <= Wire
  PROVE  out \o Data(pos + 1, pos + n) \in Seq(Nat)
  <1>1. /\ Wire \in Nat /\ resp.head \in Nat /\ pos \in Nat
        /\ \A k \in resp.head + 1 .. Wire : Token(k).n \in Nat
    BY WireOK DEF FetchInv, FetchTypeOK
  <1>2. ASSUME NEW k \in 1 .. n
        PROVE  Token(pos + 1 + k - 1).n \in Nat
    <2>1. pos + 1 + k - 1 \in resp.head + 1 .. Wire
      BY <1>1
    <2> QED
      BY <1>1, <2>1
  <1>3. Data(pos + 1, pos + n) \in [1 .. n -> Nat]
    <2>1. (pos + n) - (pos + 1) + 1 = n
      BY <1>1
    <2> QED
      BY <1>2, <2>1 DEF Data
  <1>4. Data(pos + 1, pos + n) \in Seq(Nat) /\ out \in Seq(Nat)
    BY <1>3 DEF FetchInv, FetchOK
  <1> HIDE DEF FetchInv
  <1> QED
    BY <1>4

\* A read that brings something brings no more than the answer has left.
LEMMA ReadsOK ==
  ASSUME FetchInv, pc \in Answered, NEW m \in Int, NEW n \in Reads(m)
  PROVE  n \in Int /\ (n > 0 => n <= m /\ got + n <= Wire)
  <1>1. got \in Nat /\ Wire \in Nat
    BY WireOK DEF FetchInv, FetchTypeOK
  <1>2. CASE peer = "talking"
    BY <1>1, <1>2 DEF Reads, Least
  <1>3. CASE peer # "talking"
    <2>1. peer \in {"closed", "broken", "silent"}
      BY <1>3 DEF FetchInv, FetchTypeOK, FetchOK
    <2> QED
      BY <2>1 DEF Reads
  <1> QED
    BY <1>2, <1>3

\* The connection is closed, and nothing else was open.
LEMMA ShutRace ==
  ASSUME RaceInv, cstep = "idle", Shut
  PROVE  RaceInv' /\ cstep' = "idle" /\ winner' = Race!NoFd
  <1>1. /\ winner' = Race!NoFd /\ blocking' = {}
        /\ UNCHANGED <<cstep, resolved, isel, pfd, revents, i, deadline, polls>>
    BY DEF Shut
  <1>2. /\ sock \in [Race!Addresses -> {"none", "refused", "trying", "up", "down", "closed"}]
        /\ \A a \in Race!Addresses : sock[a] = IF a = winner THEN "up" ELSE "none"
        /\ pfd = <<>>
    BY DEF RaceInv, RaceOK, AtRest, Race!ConnectTypeOK
  <1>3. sock' = [a \in Race!Addresses |-> "none"]
    BY <1>2 DEF Shut
  <1>4. Race!ConnectTypeOK'
    BY <1>1, <1>3 DEF RaceInv, Race!ConnectTypeOK
  <1>5. OneSurvivor'
    BY <1>1, <1>2, <1>3, NoFdApart DEF OneSurvivor, Race!OneSurvivor, Race!IsOpen, Race!InRace
  <1>6. RaceOK'
    BY <1>1, <1>3, NoFdApart DEF RaceInv, RaceOK, AtRest, Racing, Waited
  <1>7. PaidOK'
    BY <1>1 DEF PaidOK
  <1> QED
    BY <1>1, <1>4, <1>5, <1>6, <1>7 DEF RaceInv

\* An exit is in order once nothing is open, and with the old file gone only for
\* one of the two codes that allow it.
LEMMA ExitFetch ==
  ASSUME FetchInv, NEW code \in Codes, Exit(code), cstep' = "idle", winner' = Race!NoFd,
         ~file => code \in {"ok", "io"}
  PROVE  FetchInv'
  <1> USE DEF Exit, hopVars, tlsVars, inVars, outVars
  <1>1. FetchTypeOK'
    BY DEF FetchInv, FetchTypeOK, Steps, Wire
  <1>2. FetchOK'
    BY DEF FetchInv, FetchOK, Answered, Writing
  <1>3. PolicyOK'
    BY DEF FetchInv, PolicyOK, NeverUnverified
  <1> QED
    BY <1>1, <1>2, <1>3 DEF FetchInv

LEMMA HangUpStep ==
  ASSUME IInv, pc \in Answered, NEW code \in Codes, HangUp(code), ~file => code \in {"ok", "io"}
  PROVE  IInv'
  <1>1. RaceInv /\ FetchInv /\ cstep = "idle" /\ Exit(code) /\ Shut
    BY Halves DEF HangUp, FetchInv, FetchOK, Answered, Writing
  <1>2. RaceInv' /\ cstep' = "idle" /\ winner' = Race!NoFd
    BY <1>1, ShutRace
  <1>3. FetchInv'
    BY <1>1, <1>2, ExitFetch
  <1> QED
    BY <1>2, <1>3, Halves, PTL

\* The file is whole until the body.
LEMMA FileUntilBody ==
  ASSUME IInv, pc \notin Writing, pc # "exit"
  PROVE  file
  BY DEF IInv, PolicyOK

\* A step that leaves the race alone.
LEMMA RaceAside ==
  ASSUME RaceInv, UNCHANGED raceVars
  PROVE  RaceInv'
  <1> USE DEF RaceInv, raceVars
  <1>1. Race!ConnectTypeOK'
    BY DEF Race!ConnectTypeOK
  <1>2. OneSurvivor'
    BY DEF OneSurvivor, Race!OneSurvivor, Race!IsOpen, Race!InRace
  <1>3. RaceOK'
    BY DEF RaceOK, Race!Selected, Race!Resolved, Race!Rank, Waited
  <1>4. PaidOK'
    BY DEF PaidOK, Paid, Closed, Waited
  <1> QED
    BY <1>1, <1>2, <1>3, <1>4

LEMMA ParseStep ==
  ASSUME IInv, Parse
  PROVE  IInv'
  <1>1. /\ RaceInv /\ FetchInv /\ cstep = "idle" /\ winner = Race!NoFd
        /\ pc = "parse" /\ got = 0 /\ pos = 0 /\ file
    BY Halves, FileUntilBody DEF Parse, FetchInv, FetchOK, Writing
  <1>2. CASE UNCHANGED raceVars /\ (Exit("redirect") \/ Exit("url"))
    <2>1. RaceInv' /\ cstep' = "idle" /\ winner' = Race!NoFd
      BY <1>1, <1>2, RaceAside DEF raceVars
    <2>2. FetchInv'
      BY <1>1, <1>2, <2>1, ExitFetch DEF Codes
    <2> QED
      BY <2>1, <2>2, Halves, PTL
  <1>3. CASE /\ depth <= MaxRedirects /\ Race!Begin /\ pc' = "connect"
             /\ UNCHANGED <<hopVars, tlsVars, peer, resp, inVars, outVars, rc>>
    <2>1. RaceInv'
      BY <1>1, <1>3, BeginRace
    <2>2. FetchTypeOK'
      BY <1>1, <1>3 DEF FetchInv, FetchTypeOK, Steps, Wire, hopVars, tlsVars, inVars, outVars
    <2>3. FetchOK' /\ PolicyOK'
      BY <1>1, <1>3 DEF FetchInv, FetchOK, PolicyOK, NeverUnverified, Answered, Writing,
         hopVars, tlsVars, inVars, outVars
    <2>4. FetchInv'
      BY <2>2, <2>3 DEF FetchInv
    <2> QED
      BY <2>1, <2>4, Halves, PTL
  <1> QED
    BY <1>2, <1>3, Zenon DEF Parse

\* While the race is on, fetch waits.
LEMMA ConnectingStep ==
  ASSUME IInv, Connecting \/ Network
  PROVE  IInv'
  <1>1. /\ RaceInv /\ FetchInv /\ pc = "connect"
        /\ Race!ConnectStep \/ Race!Network
        /\ UNCHANGED <<pc, hopVars, tlsVars, peer, resp, inVars, outVars, rc>>
    BY Halves, Zenon DEF Connecting, Network
  <1>2. RaceInv'
    BY <1>1, StepRace, AnswerRace
  <1>3. FetchTypeOK'
    BY <1>1 DEF FetchInv, FetchTypeOK, Wire, hopVars, tlsVars, inVars, outVars
  <1>4. FetchOK' /\ PolicyOK'
    BY <1>1 DEF FetchInv, FetchOK, PolicyOK, NeverUnverified, Answered, Writing,
       hopVars, tlsVars, inVars, outVars
  <1>5. FetchInv'
    BY <1>3, <1>4 DEF FetchInv
  <1> QED
    BY <1>2, <1>5, Halves, PTL

LEMMA ConnectedStep ==
  ASSUME IInv, Connected
  PROVE  IInv'
  <1>1. /\ RaceInv /\ FetchInv /\ pc = "connect" /\ cstep = "connected"
        /\ got = 0 /\ pos = 0 /\ Race!Returned /\ file
        /\ peer' = "talking" /\ resp' \in Responses /\ trusted' \in BOOLEAN
        /\ pc' = IF url = "https" THEN "tls" ELSE "request"
        /\ UNCHANGED <<opt, depth, url, authmode, got, pos, left, file, out, rc>>
    BY Halves, FileUntilBody
    DEF Connected, FetchInv, FetchOK, Writing, hopVars, inVars, outVars
  <1>2. RaceInv' /\ cstep' = "idle"
    BY <1>1, ReturnedRace DEF Race!Returned
  <1>3. FetchTypeOK'
    <2>1. (resp \in Responses \cup {NoResp} => Wire \in Nat)'
      BY WireOK, PTL
    <2>2. Wire' \in Nat
      BY <1>1, <2>1
    <2> QED
      BY <1>1, <2>2 DEF FetchInv, FetchTypeOK, Steps
  <1>4. FetchOK'
    BY <1>1, <1>2 DEF FetchInv, FetchOK, Answered, Writing
  <1>5. PolicyOK'
    BY <1>1 DEF FetchInv, PolicyOK, NeverUnverified, FetchTypeOK, Writing
  <1>6. FetchInv'
    BY <1>3, <1>4, <1>5 DEF FetchInv
  <1> QED
    BY <1>2, <1>6, Halves, PTL

LEMMA UnconnectedStep ==
  ASSUME IInv, Unconnected
  PROVE  IInv'
  <1>1. /\ RaceInv /\ FetchInv /\ pc = "connect" /\ winner = Race!NoFd /\ file
        /\ cstep \in {"unresolved", "unconnected"} /\ Race!Returned
    BY Halves, FileUntilBody DEF Unconnected, RaceInv, RaceOK, Writing
  <1>2. PICK code \in {"resolve", "connect"} : Exit(code)
    BY DEF Unconnected
  <1>3. RaceInv' /\ cstep' = "idle" /\ winner' = Race!NoFd
    BY <1>1, ReturnedRace DEF Race!Returned
  <1>4. FetchInv'
    BY <1>1, <1>2, <1>3, ExitFetch DEF Codes
  <1> QED
    BY <1>3, <1>4, Halves, PTL

\* A step of fetch on an open connection: it leaves the race alone.
LEMMA OnTheWire ==
  ASSUME IInv, pc \in Answered
  PROVE  /\ RaceInv /\ FetchInv /\ cstep = "idle" /\ resp \in Responses
         /\ got \in Nat /\ pos \in Nat /\ pos <= got /\ got <= Wire /\ left \in Int
         /\ Wire \in Nat /\ resp.head \in Nat /\ Len(resp.body) \in Nat
         /\ HdrBuf \in Nat /\ IoBuf \in Nat
         /\ pc \notin Writing => file
  <1>1. RaceInv /\ FetchInv
    BY Halves
  <1>2. cstep = "idle" /\ resp \in Responses /\ (pc \notin Writing => file)
    BY <1>1, FileUntilBody DEF FetchInv, FetchOK, Answered, Writing
  <1>3. Wire \in Nat /\ resp.head \in Nat /\ Len(resp.body) \in Nat
    BY <1>2, WireOK
  <1> QED
    BY <1>1, <1>2, <1>3, HgetAssumption DEF FetchInv, FetchTypeOK

\* What is left to show when the answer stays, the race is left alone and fetch goes
\* on.
LEMMA GoesOn ==
  ASSUME IInv, pc \in Answered, UNCHANGED raceVars, UNCHANGED hopVars,
         UNCHANGED <<trusted, peer, resp>>, rc' \in Codes,
         pc' \in Answered, authmode' \in {"none", "required"}, file' \in BOOLEAN,
         got' \in 0 .. Wire, pos' \in 0 .. got', left' \in Int, out' \in Seq(Nat),
         pc' \in {"tls", "handshake", "request"} => got' = 0 /\ pos' = 0,
         pc' = "headers" => pos' = Least(got', resp.head),
         pc' = "decide" => pos' = resp.head,
         pc' \in Writing => resp.head <= pos',
         pc' = "plain" => pos' = got',
         pc' = "handshake" => authmode' = IF opt.insecure THEN "none" ELSE "required",
         (url = "https" /\ pc' \notin {"tls", "handshake"}) => trusted \/ opt.insecure,
         ~file' => pc' \in Writing
  PROVE  IInv'
  <1>1. RaceInv /\ FetchInv /\ cstep = "idle" /\ resp \in Responses
    BY OnTheWire
  <1>2. RaceInv'
    BY <1>1, RaceAside
  <1>3. FetchTypeOK'
    BY <1>1 DEF FetchInv, FetchTypeOK, Wire, hopVars, Steps, Answered, Writing
  <1>4. FetchOK'
    BY <1>1 DEF FetchInv, FetchOK, hopVars, raceVars, Answered, Writing
  <1>5. PolicyOK'
    BY DEF PolicyOK, NeverUnverified, hopVars, Answered, Writing
  <1> QED
    BY <1>2, <1>3, <1>4, <1>5, Halves, PTL DEF FetchInv

LEMMA SetUpTlsStep ==
  ASSUME IInv, SetUpTls
  PROVE  IInv'
  <1> USE DEF Answered, Writing
  <1>1. CASE HangUp("tls")
    BY <1>1, OnTheWire, HangUpStep DEF SetUpTls, Codes
  <1>2. CASE /\ opt.insecure \/ opt.ca
             /\ authmode' = IF opt.insecure THEN "none" ELSE "required"
             /\ Goto("handshake")
             /\ UNCHANGED <<hopVars, trusted, peer, resp, inVars, outVars>>
    <2>1. /\ got = 0 /\ pos = 0 /\ out \in Seq(Nat) /\ rc \in Codes /\ pc \in Answered
          /\ RaceInv /\ FetchInv /\ Wire \in Nat /\ left \in Int /\ file /\ pc = "tls"
      BY OnTheWire DEF SetUpTls, FetchInv, FetchOK, FetchTypeOK
    <2> QED
      BY <1>2, <2>1, GoesOn DEF Goto, inVars, outVars
  <1> QED
    BY <1>1, <1>2, Zenon DEF SetUpTls

LEMMA HandshakeStep ==
  ASSUME IInv, Handshake
  PROVE  IInv'
  <1> USE DEF Answered, Writing
  <1>1. CASE HangUp("tls")
    BY <1>1, OnTheWire, HangUpStep DEF Handshake, Codes
  <1>2. CASE /\ authmode = "required" => trusted
             /\ Goto("request")
             /\ UNCHANGED <<hopVars, tlsVars, peer, resp, inVars, outVars>>
    <2>1. /\ got = 0 /\ pos = 0 /\ out \in Seq(Nat) /\ rc \in Codes /\ pc \in Answered
          /\ Wire \in Nat /\ left \in Int /\ file /\ pc = "handshake"
          /\ authmode \in {"none", "required"}
          /\ authmode = IF opt.insecure THEN "none" ELSE "required"
      BY OnTheWire DEF Handshake, FetchInv, FetchOK, FetchTypeOK, PolicyOK
    <2> QED
      BY <1>2, <2>1, GoesOn DEF Goto, inVars, outVars, tlsVars
  <1> QED
    BY <1>1, <1>2, Zenon DEF Handshake

LEMMA RequestStep ==
  ASSUME IInv, Request
  PROVE  IInv'
  <1> USE DEF Answered, Writing
  <1>1. CASE HangUp("url") \/ HangUp("io")
    BY <1>1, OnTheWire, HangUpStep DEF Request, Codes
  <1>2. CASE /\ Goto("headers")
             /\ UNCHANGED <<hopVars, tlsVars, peer, resp, inVars, outVars>>
    <2>1. /\ got = 0 /\ pos = 0 /\ out \in Seq(Nat) /\ rc \in Codes /\ pc \in Answered
          /\ Wire \in Nat /\ left \in Int /\ file /\ pc = "request" /\ resp.head \in Nat
          /\ authmode \in {"none", "required"}
          /\ url = "https" => trusted \/ opt.insecure
      BY OnTheWire DEF Request, FetchInv, FetchOK, FetchTypeOK, PolicyOK, NeverUnverified, Steps
    <2>2. Least(0, resp.head) = 0
      BY <2>1 DEF Least
    <2> QED
      BY <1>2, <2>1, <2>2, GoesOn DEF Goto, inVars, outVars, tlsVars
  <1> QED
    BY <1>1, <1>2, Zenon DEF Request

\* Past the request, what stays.
LEMMA PastRequest ==
  ASSUME IInv, pc \in {"headers", "decide"} \cup Writing
  PROVE  /\ pc \in Answered /\ out \in Seq(Nat) /\ rc \in Codes
         /\ authmode \in {"none", "required"} /\ opt.toFile \in BOOLEAN /\ file \in BOOLEAN
         /\ url = "https" => trusted \/ opt.insecure
         /\ pc = "headers" => pos = Least(got, resp.head)
         /\ pc = "decide" => pos = resp.head
         /\ pc \in Writing => resp.head <= pos
         /\ pc = "plain" => pos = got
  BY Halves, HgetAssumption
  DEF FetchInv, FetchOK, FetchTypeOK, PolicyOK, NeverUnverified, Steps, Answered, Writing

LEMMA ReadHeaderStep ==
  ASSUME IInv, ReadHeader
  PROVE  IInv'
  <1>1. pc = "headers" /\ pc \in Answered /\ pc \notin Writing
    BY DEF ReadHeader, Answered, Writing
  <1>2. CASE HangUp("proto") \/ HangUp("io")
    BY <1>1, <1>2, OnTheWire, HangUpStep DEF Codes
  <1>3. CASE \E n \in Reads(HdrBuf - got) :
               /\ n > 0 /\ got' = got + n /\ pos' = Least(got + n, resp.head)
               /\ Goto("headers")
               /\ UNCHANGED <<hopVars, tlsVars, peer, resp, left, outVars>>
    <2>1. PICK n \in Reads(HdrBuf - got) :
               /\ n > 0 /\ got' = got + n /\ pos' = Least(got + n, resp.head)
               /\ Goto("headers")
               /\ UNCHANGED <<hopVars, tlsVars, peer, resp, left, outVars>>
      BY <1>3
    <2>2. HdrBuf - got \in Int /\ FetchInv
      BY <1>1, OnTheWire
    <2>3. n \in Int /\ got + n <= Wire
      BY <1>1, <2>1, <2>2, ReadsOK
    <2>4. got' \in 0 .. Wire /\ pos' \in 0 .. got' /\ pos' = Least(got', resp.head)
      BY <1>1, <2>1, <2>3, OnTheWire DEF Least
    <2> QED
      BY <1>1, <2>1, <2>4, OnTheWire, PastRequest, GoesOn
      DEF Goto, outVars, tlsVars, Writing
  <1> QED
    BY <1>2, <1>3, Zenon DEF ReadHeader

LEMMA ParseHeaderStep ==
  ASSUME IInv, ParseHeader
  PROVE  IInv'
  <1>1. pc = "headers" /\ pc \in Answered /\ pc \notin Writing
    BY DEF ParseHeader, Answered, Writing
  <1>2. CASE HangUp("proto")
    BY <1>1, <1>2, OnTheWire, HangUpStep DEF Codes
  <1>3. CASE /\ HeaderEnds /\ Goto("decide")
             /\ UNCHANGED <<hopVars, tlsVars, peer, resp, inVars, outVars>>
    <2>1. pos = resp.head
      BY <1>1, <1>3, OnTheWire, PastRequest DEF HeaderEnds, Least
    <2> QED
      BY <1>1, <1>3, <2>1, OnTheWire, PastRequest, GoesOn
      DEF Goto, inVars, outVars, tlsVars, Answered, Writing
  <1> QED
    BY <1>2, <1>3, Zenon DEF ParseHeader

\* The next hop begins as the first did.
LEMMA RedirectStep ==
  ASSUME IInv, Redirect
  PROVE  IInv'
  <1>1. pc = "decide" /\ pc \in Answered /\ pc \notin Writing /\ Redirected
    BY DEF Redirect, Answered, Writing
  <1>2. CASE HangUp("redirect")
    BY <1>1, <1>2, OnTheWire, HangUpStep DEF Codes
  <1>3. CASE /\ resp.location # "relative"
             /\ url' = resp.location /\ depth' = depth + 1
             /\ Shut
             /\ authmode' = "none" /\ trusted' = FALSE
             /\ peer' = "none" /\ resp' = NoResp
             /\ got' = 0 /\ pos' = 0
             /\ pc' = "parse"
             /\ UNCHANGED <<opt, left, outVars, rc>>
    <2>1. RaceInv' /\ cstep' = "idle" /\ winner' = Race!NoFd
      BY <1>1, <1>3, OnTheWire, ShutRace
    <2>2. url' \in {"http", "https"}
      BY <1>1, <1>3, OnTheWire, HgetAssumption DEF Redirected
    <2>3. depth' \in 0 .. MaxRedirects + 1
      BY <1>1, <1>3, OnTheWire, HgetAssumption DEF FetchInv, FetchOK, FetchTypeOK
    <2>4. Wire' = 0
      BY <1>3 DEF Wire, NoResp
    <2>5. FetchTypeOK'
      <3>1. opt \in Options /\ left \in Int /\ file \in BOOLEAN /\ rc \in Codes
        BY <1>1, OnTheWire DEF FetchInv, FetchTypeOK
      <3>2. got' \in 0 .. Wire' /\ pos' \in 0 .. got'
        BY <1>3, <2>4
      <3> QED
        BY <1>3, <2>2, <2>3, <3>1, <3>2 DEF FetchTypeOK, Steps, outVars
    <2>6. FetchOK'
      BY <1>1, <1>3, <2>1, OnTheWire, PastRequest DEF FetchOK, Answered, Writing, outVars
    <2>7. PolicyOK'
      BY <1>1, <1>3, OnTheWire DEF PolicyOK, NeverUnverified, outVars
    <2> QED
      BY <2>1, <2>5, <2>6, <2>7, Halves, PTL DEF FetchInv
  <1> QED
    BY <1>2, <1>3, Zenon DEF Redirect

LEMMA OpenOutputStep ==
  ASSUME IInv, ServerError \/ OpenOutput
  PROVE  IInv'
  <1>1. pc = "decide" /\ pc \in Answered /\ pc \notin Writing
    BY DEF ServerError, OpenOutput, Answered, Writing
  <1>2. CASE HangUp("http") \/ HangUp("io")
    BY <1>1, <1>2, OnTheWire, HangUpStep DEF Codes
  <1>3. CASE /\ file' = (file /\ ~opt.toFile)
             /\ left' = IF resp.framing = "length" THEN Len(resp.body) ELSE -1
             /\ Goto(IF resp.framing = "chunked" THEN "line" ELSE "pending")
             /\ UNCHANGED <<hopVars, tlsVars, peer, resp, got, pos, out>>
    <2>1. left' \in Int
      BY <1>1, <1>3, OnTheWire
    <2>2. file' \in BOOLEAN /\ pc' \in {"line", "pending"}
      BY <1>1, <1>3 DEF Goto
    <2>3. pc' \in Writing /\ pc' \in Answered
      BY <2>2 DEF Writing, Answered
    <2> QED
      BY <1>1, <1>3, <2>1, <2>2, <2>3, OnTheWire, PastRequest, GoesOn DEF Goto, tlsVars
  <1> QED
    BY <1>2, <1>3, Zenon DEF ServerError, OpenOutput

\* All of the n units at pos are written, or some and then an error: either way
\* hget goes on with a good output or is done.
LEMMA WriteStep ==
  ASSUME IInv, pc \in Writing, NEW n \in Nat, pos + n <= Wire, NEW step \in Writing,
         got' \in Nat, pos + n <= got', got' <= Wire, left' \in Int,
         step = "plain" => pos + n = got',
         Write(n), Goto(step)
  PROVE  IInv'
  <1>1. pc \in Answered /\ step \in Answered /\ pc \in {"headers", "decide"} \cup Writing
    BY DEF Answered
  <1>2. out' \in Seq(Nat) /\ pos' = pos + n
    BY <1>1, OnTheWire, PastRequest, DataOK DEF Write
  <1>3. got' \in 0 .. Wire /\ pos' \in 0 .. got' /\ resp.head <= pos'
    BY <1>1, <1>2, OnTheWire, PastRequest
  <1>4. pc' = step /\ step \notin {"tls", "handshake", "request", "headers", "decide"}
    BY DEF Goto, Writing
  <1> QED
    BY <1>1, <1>2, <1>3, <1>4, OnTheWire, PastRequest, GoesOn DEF Goto, Write, tlsVars

LEMMA WriteFailsStep ==
  ASSUME IInv, pc \in Writing, NEW n \in Int, n > 0 => pos + n <= Wire, WriteFails(n)
  PROVE  IInv'
  <1>1. pc \in Answered /\ pc \in {"headers", "decide"} \cup Writing
    BY DEF Answered
  <1>2. PICK k \in 0 .. n - 1 : out' = out \o Data(pos + 1, pos + k)
    BY DEF WriteFails
  <1>3. /\ pc' = "exit" /\ rc' = "io" /\ Shut
        /\ UNCHANGED <<hopVars, tlsVars, peer, resp, inVars, file>>
    BY DEF WriteFails
  <1>4. out' \in Seq(Nat)
    <2>1. k \in Nat /\ pos + k <= Wire
      BY <1>1, OnTheWire
    <2> QED
      BY <1>1, <1>2, <2>1, OnTheWire, PastRequest, DataOK
  <1>5. RaceInv' /\ cstep' = "idle" /\ winner' = Race!NoFd
    BY <1>1, <1>3, OnTheWire, ShutRace
  <1>6. FetchTypeOK'
    BY <1>1, <1>3, OnTheWire
    DEF FetchInv, FetchTypeOK, Steps, Codes, Wire, hopVars, tlsVars, inVars
  <1>7. FetchOK' /\ PolicyOK'
    BY <1>3, <1>4, <1>5 DEF FetchOK, PolicyOK, NeverUnverified, Answered, Writing
  <1> QED
    BY <1>5, <1>6, <1>7, Halves, PTL DEF FetchInv

LEMMA PlainPendingStep ==
  ASSUME IInv, PlainPending
  PROVE  IInv'
  <1>1. pc \in Writing /\ pc \in Answered
    BY DEF PlainPending, Writing, Answered
  <1>2. got - pos \in Nat /\ pos + (got - pos) = got
    BY <1>1, OnTheWire
  <1>3. CASE WriteFails(got - pos)
    BY <1>1, <1>2, <1>3, OnTheWire, WriteFailsStep
  <1>4. CASE /\ Write(got - pos)
             /\ left' = IF left >= 0 THEN left - (got - pos) ELSE left
             /\ Goto("plain") /\ UNCHANGED got
    <2>1. got' \in Nat /\ got' <= Wire /\ left' \in Int
      BY <1>1, <1>2, <1>4, OnTheWire
    <2>2. "plain" \in Writing
      BY DEF Writing
    <2> QED
      BY <1>1, <1>2, <1>4, <2>1, <2>2, OnTheWire, WriteStep
  <1> QED
    BY <1>3, <1>4, Zenon DEF PlainPending

LEMMA PlainReadStep ==
  ASSUME IInv, PlainRead
  PROVE  IInv'
  <1> DEFINE m == IF left > 0 THEN Least(left, IoBuf) ELSE IoBuf
  <1>1. pc \in Writing /\ pc \in Answered /\ pc = "plain" /\ m \in Int
    BY OnTheWire DEF PlainRead, Writing, Answered, Least
  <1>2. PICK n \in Reads(m) :
          \/ /\ n > 0 /\ got' = got + n
             /\ left' = IF left > 0 THEN left - n ELSE left
             /\ Write(n) /\ Goto("plain")
          \/ WriteFails(n)
          \/ HangUp("ok")
          \/ HangUp("io")
    BY DEF PlainRead
  <1> HIDE DEF m
  <1>3. n \in Int /\ (n > 0 => got + n <= Wire) /\ pos = got
    BY <1>1, OnTheWire, PastRequest, ReadsOK
  <1>4. CASE HangUp("ok") \/ HangUp("io")
    BY <1>1, <1>4, HangUpStep DEF Codes
  <1>5. CASE WriteFails(n)
    BY <1>1, <1>3, <1>5, WriteFailsStep
  <1>6. CASE /\ n > 0 /\ got' = got + n
             /\ left' = IF left > 0 THEN left - n ELSE left
             /\ Write(n) /\ Goto("plain")
    <2>1. /\ n \in Nat /\ got' \in Nat /\ got' <= Wire /\ left' \in Int /\ pos + n = got'
          /\ pos + n <= got' /\ pos + n <= Wire
      BY <1>1, <1>3, <1>6, OnTheWire
    <2>2. "plain" \in Writing
      BY DEF Writing
    <2> QED
      BY <1>1, <1>6, <2>1, <2>2, WriteStep
  <1> QED
    BY <1>2, <1>4, <1>5, <1>6

LEMMA PlainDoneStep ==
  ASSUME IInv, PlainDone
  PROVE  IInv'
  BY HangUpStep DEF PlainDone, Codes, Writing, Answered

\* A line is taken from what is pending, or from the peer, one unit at a time.
LEMMA LineStep ==
  ASSUME IInv, Line
  PROVE  IInv'
  <1>1. pc \in Writing /\ pc \in Answered /\ pc = "line"
    BY DEF Line, Writing, Answered
  <1>2. PICK n \in LineUnits :
          \/ /\ n > 0 \/ pos < got
             /\ pos' = pos + 1 /\ got' = got + n
             /\ LET t == Token(pos + 1)
                IN \/ /\ t.kind = "eol"
                      /\ Goto("line")
                      /\ UNCHANGED <<hopVars, tlsVars, peer, resp, left, outVars>>
                   \/ /\ t.kind = "size" /\ t.n > 0
                      /\ left' = t.n
                      /\ Goto("chunk")
                      /\ UNCHANGED <<hopVars, tlsVars, peer, resp, outVars>>
                   \/ /\ t.kind = "data" \/ (t.kind = "size" /\ t.n = 0)
                      /\ pc' = "exit" /\ rc' = "ok" /\ Shut
                      /\ UNCHANGED <<hopVars, tlsVars, peer, resp, left, outVars>>
          \/ /\ n <= 0 /\ pos = got
             /\ HangUp("io")
    BY <1>1, Zenon DEF Line
  <1>3. CASE HangUp("io")
    BY <1>1, <1>3, HangUpStep DEF Codes
  <1>4. CASE /\ n > 0 \/ pos < got
             /\ pos' = pos + 1 /\ got' = got + n
             /\ UNCHANGED <<hopVars, tlsVars, peer, resp, outVars>>
             /\ \/ Goto("line") /\ UNCHANGED left
                \/ Goto("chunk") /\ left' = Token(pos + 1).n
                \/ pc' = "exit" /\ rc' = "ok" /\ Shut /\ UNCHANGED left
    <2>1. got' \in 0 .. Wire /\ pos' \in 0 .. got' /\ pos + 1 \in resp.head + 1 .. Wire
      <3>1. CASE pos < got
        <4>1. n = 0
          BY <3>1, <1>2 DEF LineUnits
        <4> QED
          BY <3>1, <4>1, <1>1, <1>4, OnTheWire, PastRequest
      <3>2. CASE ~(pos < got)
        <4>1. n \in Reads(1) /\ n > 0
          BY <3>2, <1>2, <1>4 DEF LineUnits
        <4>2. n \in Int /\ n <= 1 /\ got + n <= Wire
          BY <4>1, <1>1, OnTheWire, ReadsOK
        <4> QED
          BY <3>2, <4>1, <4>2, <1>1, <1>4, OnTheWire, PastRequest
      <3> QED
        BY <3>1, <3>2
    <2>2. Token(pos + 1).n \in Int
      BY <1>1, <2>1, OnTheWire, WireOK
    <2>3. resp.head <= pos'
      BY <1>1, <1>4, OnTheWire, PastRequest
    <2>4. CASE Goto("line") \/ Goto("chunk")
      <3>1. pc' \in Writing /\ pc' \in Answered /\ pc' \in {"line", "chunk"} /\ left' \in Int
        BY <1>1, <1>4, <2>2, <2>4, OnTheWire DEF Goto, Writing, Answered
      <3> QED
        BY <1>1, <1>4, <2>1, <2>3, <2>4, <3>1, OnTheWire, PastRequest, GoesOn
        DEF Goto, tlsVars, outVars
    <2>5. CASE pc' = "exit" /\ rc' = "ok" /\ Shut /\ UNCHANGED left
      <3>1. RaceInv' /\ cstep' = "idle" /\ winner' = Race!NoFd
        BY <1>1, <2>5, OnTheWire, ShutRace
      <3>2. FetchTypeOK'
        BY <1>1, <1>4, <2>1, <2>5, OnTheWire
        DEF FetchInv, FetchTypeOK, Steps, Codes, Wire, hopVars, tlsVars, outVars
      <3>3. FetchOK' /\ PolicyOK'
        BY <1>1, <1>4, <2>5, <3>1, OnTheWire, PastRequest
        DEF FetchOK, PolicyOK, NeverUnverified, Answered, Writing, outVars
      <3> QED
        BY <3>1, <3>2, <3>3, Halves, PTL DEF FetchInv
    <2> QED
      BY <1>4, <2>4, <2>5
  <1> QED
    BY <1>2, <1>3, <1>4, Zenon DEF outVars

LEMMA ChunkStep ==
  ASSUME IInv, Chunk
  PROVE  IInv'
  <1>1. pc \in Writing /\ pc \in Answered /\ pc = "chunk"
    BY DEF Chunk, Writing, Answered
  <1>2. PICK n \in IF pos < got THEN {Least(got - pos, Least(left, IoBuf))}
                                ELSE Reads(Least(left, IoBuf)) :
          \/ /\ n > 0
             /\ got' = IF pos < got THEN got ELSE got + n
             /\ left' = left - n
             /\ Write(n) /\ Goto(IF left = n THEN "line" ELSE "chunk")
          \/ n > 0 /\ WriteFails(n)
          \/ HangUp("io")
    BY Zenon DEF Chunk
  <1>3. n \in Int /\ (n > 0 => pos + n <= Wire
                            /\ pos + n <= IF pos < got THEN got ELSE got + n)
    <2>1. CASE pos < got
      <3>1. n = Least(got - pos, Least(left, IoBuf))
        BY <2>1, <1>2
      <3>2. n \in Int /\ n <= got - pos
        BY <3>1, <1>1, OnTheWire DEF Least
      <3> QED
        BY <2>1, <3>2, <1>1, OnTheWire
    <2>2. CASE ~(pos < got)
      <3>1. n \in Reads(Least(left, IoBuf)) /\ Least(left, IoBuf) \in Int
        BY <2>2, <1>1, <1>2, OnTheWire DEF Least
      <3>2. n \in Int /\ (n > 0 => got + n <= Wire)
        BY <3>1, <1>1, OnTheWire, ReadsOK
      <3> QED
        BY <2>2, <3>2, <1>1, OnTheWire
    <2> QED
      BY <2>1, <2>2
  <1>4. CASE HangUp("io")
    BY <1>1, <1>4, HangUpStep DEF Codes
  <1>5. CASE WriteFails(n)
    BY <1>1, <1>3, <1>5, WriteFailsStep
  <1>6. CASE /\ n > 0
             /\ got' = IF pos < got THEN got ELSE got + n
             /\ left' = left - n
             /\ Write(n) /\ Goto(IF left = n THEN "line" ELSE "chunk")
    <2> DEFINE step == IF left = n THEN "line" ELSE "chunk"
    <2>1. step \in Writing /\ step # "plain"
      BY DEF Writing
    <2>2. /\ n \in Nat /\ got' \in Nat /\ got' <= Wire /\ left' \in Int
          /\ pos + n <= got' /\ pos + n <= Wire
      <3>1. n \in Nat /\ pos + n <= Wire /\ left' \in Int
        BY <1>1, <1>3, <1>6, OnTheWire
      <3>2. CASE pos < got
        BY <3>1, <3>2, <1>1, <1>3, <1>6, OnTheWire
      <3>3. CASE ~(pos < got)
        BY <3>1, <3>3, <1>1, <1>3, <1>6, OnTheWire
      <3> QED
        BY <3>1, <3>2, <3>3
    <2> HIDE DEF step
    <2>3. Write(n) /\ Goto(step)
      BY <1>6 DEF step
    <2> QED
      BY <1>1, <2>1, <2>2, <2>3, WriteStep
  <1> QED
    BY <1>2, <1>4, <1>5, <1>6

LEMMA PeerStopsStep ==
  ASSUME IInv, PeerStops
  PROVE  IInv'
  <1>1. /\ RaceInv /\ FetchInv /\ UNCHANGED raceVars
        /\ peer' \in {"closed", "broken", "silent"}
        /\ UNCHANGED <<pc, hopVars, tlsVars, resp, inVars, outVars, rc>>
    BY Halves DEF PeerStops
  <1>2. RaceInv'
    BY <1>1, RaceAside
  <1>3. FetchTypeOK'
    BY <1>1 DEF FetchInv, FetchTypeOK, Wire, hopVars, tlsVars, inVars, outVars
  <1>4. FetchOK' /\ PolicyOK'
    BY <1>1 DEF FetchInv, FetchOK, PolicyOK, NeverUnverified, Answered, Writing,
       raceVars, hopVars, tlsVars, inVars, outVars
  <1> QED
    BY <1>2, <1>3, <1>4, Halves, PTL DEF FetchInv

LEMMA StutterStep ==
  ASSUME IInv, UNCHANGED vars
  PROVE  IInv'
  <1>1. /\ RaceInv /\ FetchInv /\ UNCHANGED raceVars
        /\ UNCHANGED <<pc, hopVars, tlsVars, peer, resp, inVars, outVars, rc>>
    BY Halves DEF vars
  <1>2. RaceInv'
    BY <1>1, RaceAside
  <1>3. FetchTypeOK'
    BY <1>1 DEF FetchInv, FetchTypeOK, Wire, hopVars, tlsVars, inVars, outVars
  <1>4. FetchOK' /\ PolicyOK'
    BY <1>1 DEF FetchInv, FetchOK, PolicyOK, NeverUnverified, Answered, Writing,
       raceVars, hopVars, tlsVars, inVars, outVars
  <1> QED
    BY <1>2, <1>3, <1>4, Halves, PTL DEF FetchInv

LEMMA InitIInv ==
  Init => IInv
  <1> SUFFICES ASSUME Init
               PROVE  IInv
    OBVIOUS
  <1> USE DEF Init, Race!ConnectInit
  <1>1. Race!ConnectTypeOK
    <2>1. pfd \in Seq(Race!Addresses \cup {Race!NoFd}) /\ Len(pfd) = 0
      OBVIOUS
    <2>2. /\ sock \in [Race!Addresses -> {"none", "refused", "trying", "up", "down", "closed"}]
          /\ cstep \in Race!ConnectSteps
      BY DEF Race!ConnectSteps
    <2>3. /\ resolved \in [Race!Families -> 0 .. MaxResolved] /\ isel \in 0 .. MaxAddrs
          /\ i \in 1 .. MaxAddrs + 1 /\ deadline \in 0 .. Timeout /\ polls \in Polls
          /\ Len(pfd) <= MaxAddrs
      BY <2>1, ConnectAssumption, NoneWaited
    <2> QED
      BY <2>1, <2>2, <2>3 DEF Race!ConnectTypeOK, Polls
  <1>2. OneSurvivor
    BY NoFdApart DEF OneSurvivor, Race!OneSurvivor, Race!IsOpen, Race!InRace
  <1>3. RaceOK
    BY NoFdApart, ConnectAssumption DEF RaceOK, AtRest, Racing, Waited, Race!NoPolls
  <1>4. PaidOK
    BY DEF PaidOK
  <1>5. FetchTypeOK
    <2>1. Wire = 0
      BY DEF Wire, NoResp
    <2>2. MaxRedirects \in Nat
      BY HgetAssumption
    <2>3. got \in 0 .. Wire /\ pos \in 0 .. got /\ left \in Int /\ depth \in 0 .. MaxRedirects + 1
      BY <2>1, <2>2
    <2> QED
      BY <2>3 DEF FetchTypeOK, Steps, Codes
  <1>6. FetchOK
    BY HgetAssumption DEF FetchOK, Answered, Writing
  <1>7. PolicyOK
    BY DEF PolicyOK, NeverUnverified
  <1> QED
    BY <1>1, <1>2, <1>3, <1>4, <1>5, <1>6, <1>7, Halves DEF RaceInv, FetchInv

LEMMA StepIInv ==
  ASSUME IInv, [Next]_vars
  PROVE  IInv'
  <1>1. CASE UNCHANGED vars
    BY <1>1, StutterStep
  <1>2. CASE Client
    BY <1>2, Zenon, ParseStep, ConnectingStep, ConnectedStep, UnconnectedStep, SetUpTlsStep,
       HandshakeStep, RequestStep, ReadHeaderStep, ParseHeaderStep, RedirectStep,
       OpenOutputStep, PlainPendingStep, PlainReadStep, PlainDoneStep, LineStep, ChunkStep
    DEF Client
  <1>3. CASE PeerStops
    BY <1>3, PeerStopsStep
  <1>4. CASE Network
    BY <1>4, ConnectingStep
  <1>5. CASE TlsRetry \/ Exited
    BY <1>5, StutterStep DEF TlsRetry, Exited
  <1> QED
    BY <1>1, <1>2, <1>3, <1>4, <1>5, Zenon DEF Next

----------------------------------------------------------------------------
(* The data of a body: Payload is its enumeration, and a parser that has   *)
(* counted the data up to a place has the right one next.                  *)

LEMMA DataCount ==
  ASSUME NEW body \in Seq(Tokens), NEW p \in Nat
  PROVE  /\ Len(body) \in Nat /\ DOMAIN body = 1 .. Len(body)
         /\ IsFiniteSet(DataPlaces(body)) /\ Cardinality(DataPlaces(body)) \in Nat
         /\ IsFiniteSet({q \in DataPlaces(body) : q <= p})
         /\ DataUpTo(body, p) \in Nat
         /\ DataUpTo(body, p) <= Cardinality(DataPlaces(body))
  <1>1. Len(body) \in Nat /\ DOMAIN body = 1 .. Len(body)
    OBVIOUS
  <1>2. IsFiniteSet(1 .. Len(body))
    BY <1>1, FS_Interval
  <1>3. IsFiniteSet(DataPlaces(body))
    BY <1>1, <1>2, FS_Subset DEF DataPlaces
  <1>4. {q \in DataPlaces(body) : q <= p} \in SUBSET DataPlaces(body)
    OBVIOUS
  <1> QED
    BY <1>1, <1>3, <1>4, FS_Subset, FS_CardinalityType DEF DataUpTo

\* A run of n data tokens behind place p adds n to the count.
LEMMA DataRun ==
  ASSUME NEW body \in Seq(Tokens), NEW p \in Nat, NEW n \in Nat, p + n <= Len(body),
         \A q \in p + 1 .. p + n : IsData(body[q])
  PROVE  DataUpTo(body, p + n) = DataUpTo(body, p) + n
  <1> DEFINE A == {q \in DataPlaces(body) : q <= p}
             R == p + 1 .. p + n
  <1>1. {q \in DataPlaces(body) : q <= p + n} = A \cup R
    BY DataCount DEF DataPlaces
  <1>2. A \cap R = {}
    BY DataCount DEF DataPlaces
  <1>3. IsFiniteSet(A) /\ Cardinality(A) \in Nat /\ DataUpTo(body, p) = Cardinality(A)
    BY DataCount, FS_CardinalityType DEF DataUpTo
  <1>4. IsFiniteSet(R) /\ Cardinality(R) = n
    BY FS_Interval
  <1> HIDE DEF A, R
  <1>5. Cardinality(A \cup R) = Cardinality(A) + Cardinality(R) - Cardinality(A \cap R)
    BY <1>3, <1>4, FS_Union
  <1>6. Cardinality(A \cap R) = 0
    BY <1>2, FS_EmptySet
  <1> QED
    <2>1. DataUpTo(body, p + n) = Cardinality(A \cup R)
      BY <1>1 DEF DataUpTo
    <2> QED
      BY <1>3, <1>4, <1>5, <1>6, <2>1

\* A token that is no data adds nothing.
LEMMA DataSkip ==
  ASSUME NEW body \in Seq(Tokens), NEW p \in Nat, p + 1 <= Len(body), ~IsData(body[p + 1])
  PROVE  DataUpTo(body, p + 1) = DataUpTo(body, p)
  <1>1. {q \in DataPlaces(body) : q <= p + 1} = {q \in DataPlaces(body) : q <= p}
    BY DataCount DEF DataPlaces
  <1> QED
    BY <1>1 DEF DataUpTo

\* The count rises at each piece of data.
LEMMA DataRises ==
  ASSUME NEW body \in Seq(Tokens), NEW p \in Nat, NEW q \in DataPlaces(body), p < q
  PROVE  DataUpTo(body, p) < DataUpTo(body, q)
  <1> DEFINE A == {r \in DataPlaces(body) : r <= p}
             B == {r \in DataPlaces(body) : r <= q}
  <1>1. q \in Nat
    BY DataCount DEF DataPlaces
  <1>2. IsFiniteSet(A) /\ IsFiniteSet(B)
    BY <1>1, DataCount
  <1>3. q \notin A /\ A \cup {q} \in SUBSET B
    BY <1>1, DataCount DEF DataPlaces
  <1>4. DataUpTo(body, p) = Cardinality(A) /\ DataUpTo(body, q) = Cardinality(B)
    BY DEF DataUpTo
  <1> HIDE DEF A, B
  <1>5. Cardinality(A \cup {q}) = Cardinality(A) + 1 /\ Cardinality(A \cup {q}) <= Cardinality(B)
    BY <1>2, <1>3, FS_AddElement, FS_Subset
  <1>6. Cardinality(A) \in Nat /\ Cardinality(B) \in Nat
    BY <1>2, FS_CardinalityType
  <1> QED
    BY <1>4, <1>5, <1>6

\* A piece of data is where its count puts it.
LEMMA DataAt ==
  ASSUME NEW body \in Seq(Tokens), NEW p \in DataPlaces(body)
  PROVE  /\ DataUpTo(body, p) \in 1 .. Cardinality(DataPlaces(body))
         /\ DataOf(body)[DataUpTo(body, p)] = body[p].n
  <1>1. p \in Nat /\ p > 0
    BY DataCount DEF DataPlaces
  <1>2. /\ DataUpTo(body, 0) \in Nat /\ DataUpTo(body, p) \in Nat
        /\ DataUpTo(body, p) <= Cardinality(DataPlaces(body))
        /\ Cardinality(DataPlaces(body)) \in Nat
    BY <1>1, DataCount
  <1>3. DataUpTo(body, p) \in 1 .. Cardinality(DataPlaces(body))
    <2>1. DataUpTo(body, 0) < DataUpTo(body, p)
      BY <1>1, DataRises
    <2> QED
      BY <1>2, <2>1
  <1>4. ASSUME NEW q \in DataPlaces(body), DataUpTo(body, q) = DataUpTo(body, p)
        PROVE  q = p
    <2>1. q \in Nat
      BY <1>1, DataCount DEF DataPlaces
    <2>2. ~(q < p) /\ ~(p < q)
      BY <1>1, <1>2, <1>4, <2>1, DataRises
    <2> QED
      BY <1>1, <2>1, <2>2
  <1>5. (CHOOSE q \in DataPlaces(body) : DataUpTo(body, q) = DataUpTo(body, p)) = p
    BY <1>4
  <1> QED
    BY <1>3, <1>5 DEF DataOf

\* No data behind place p: the count is all there is.
LEMMA DataEnds ==
  ASSUME NEW body \in Seq(Tokens), NEW p \in Nat, \A q \in DataPlaces(body) : q <= p
  PROVE  DataUpTo(body, p) = Cardinality(DataPlaces(body))
  <1>1. {q \in DataPlaces(body) : q <= p} = DataPlaces(body)
    OBVIOUS
  <1> QED
    BY <1>1 DEF DataUpTo

LEMMA Concat ==
  ASSUME NEW s \in Seq(Nat), NEW d \in Seq(Nat)
  PROVE  /\ s \o d \in Seq(Nat) /\ Len(s \o d) = Len(s) + Len(d)
         /\ \A k \in 1 .. Len(s) : (s \o d)[k] = s[k]
         /\ \A k \in 1 .. Len(d) : (s \o d)[Len(s) + k] = d[k]
  OBVIOUS

\* Two sequences agree as far as the first goes.
Begins(s, t) == Len(s) <= Len(t) /\ \A k \in 1 .. Len(s) : s[k] = t[k]

\* What holds the data up to place p is right for the n tokens behind it, too.
LEMMA DataGrows ==
  ASSUME NEW body \in Seq(Tokens), NEW p \in Nat, NEW n \in Nat, p + n <= Len(body),
         \A q \in p + 1 .. p + n : IsData(body[q]),
         NEW s \in Seq(Nat), Len(s) = DataUpTo(body, p), Begins(s, DataOf(body)),
         NEW d \in Seq(Nat), Len(d) = n, \A k \in 1 .. n : d[k] = body[p + k].n
  PROVE  Len(s \o d) = DataUpTo(body, p + n) /\ Begins(s \o d, DataOf(body))
  <1>1. /\ s \o d \in Seq(Nat) /\ Len(s \o d) = DataUpTo(body, p) + n
        /\ \A k \in 1 .. Len(s) : (s \o d)[k] = s[k]
        /\ \A k \in 1 .. Len(d) : (s \o d)[Len(s) + k] = d[k]
    BY Concat
  <1>2. /\ DataUpTo(body, p + n) = DataUpTo(body, p) + n /\ DataUpTo(body, p) \in Nat
        /\ DataUpTo(body, p + n) <= Cardinality(DataPlaces(body))
        /\ Cardinality(DataPlaces(body)) \in Nat
    <2>1. DataUpTo(body, p + n) = DataUpTo(body, p) + n
      BY DataRun, Zenon
    <2>2. p + n \in Nat
      OBVIOUS
    <2> QED
      BY <2>1, <2>2, DataCount
  <1>3. Len(DataOf(body)) = Cardinality(DataPlaces(body))
    BY <1>2 DEF DataOf
  <1>4. ASSUME NEW k \in 1 .. Len(s \o d)
        PROVE  (s \o d)[k] = DataOf(body)[k]
    <2>1. CASE k <= Len(s)
      BY <1>1, <2>1 DEF Begins
    <2>2. CASE k > Len(s)
      <3>1. PICK j \in 1 .. n : k = DataUpTo(body, p) + j
        <4>1. k - Len(s) \in 1 .. n
          BY <1>1, <2>2
        <4> QED
          BY <4>1, <1>2
      <3>2. DataUpTo(body, p + j) = k
        <4>1. j \in Nat /\ p + j <= Len(body) /\ \A q \in p + 1 .. p + j : IsData(body[q])
          BY DataCount
        <4> QED
          BY <3>1, <4>1, DataRun
      <3>3. p + j \in DataPlaces(body)
        BY DataCount DEF DataPlaces
      <3>4. DataOf(body)[k] = body[p + j].n
        BY <3>2, <3>3, DataAt
      <3>5. (s \o d)[k] = d[j]
        BY <3>1
      <3> QED
        BY <3>4, <3>5
    <2> QED
      BY <1>1, <1>2, <2>1, <2>2
  <1> QED
    BY <1>1, <1>2, <1>3, <1>4 DEF Begins

----------------------------------------------------------------------------
(* What is written.                                                        *)

\* Tokens of the body that are parsed, and those behind them the open chunk still has.
Done == pos - resp.head

Ahead == IF pc = "chunk" THEN left ELSE 0

\* The output is the data of the parsed part of the body.  left is what is missing of
\* a body of given length; in a chunked one, every chunk begun ends with the open one
\* at the latest.
BodyOK ==
  /\ pc \notin Writing \cup {"exit"} => out = <<>>
  /\ pc \in Writing => Len(out) = DataUpTo(resp.body, Done) /\ Begins(out, Payload)
  /\ pc \in {"pending", "plain"} =>
       /\ resp.framing # "chunked"
       /\ left = IF resp.framing = "length" THEN Wire - pos ELSE -1
  /\ pc \in {"line", "chunk"} =>
       /\ resp.framing = "chunked"
       /\ \A s \in SizePlaces(resp.body) : s <= Done => s + resp.body[s].n <= Done + Ahead
  /\ pc = "chunk" =>
       /\ left > 0
       /\ \E s \in SizePlaces(resp.body) : s <= Done /\ s + resp.body[s].n = Done + left
  /\ pc = "exit" => Begins(out, Payload) /\ OkIsWhole

LEMMA BodyFacts ==
  ASSUME IInv
  PROVE  /\ resp.body \in Seq(Tokens) /\ Len(resp.body) \in Nat
         /\ DOMAIN resp.body = 1 .. Len(resp.body)
         /\ \A k \in 1 .. Len(resp.body) : resp.body[k] \in Tokens
         /\ out \in Seq(Nat) /\ Len(out) \in Nat
         /\ Wire = resp.head + Len(resp.body) /\ resp.head \in Nat
         /\ pc \in Writing => /\ pc \in Answered /\ Done \in Nat /\ pos = resp.head + Done
                              /\ Done <= Len(resp.body)
  <1>1. resp.body \in Seq(Tokens) /\ resp.head \in Nat /\ out \in Seq(Nat)
    BY WireOK, Halves, Zenon DEF FetchInv, FetchTypeOK, FetchOK, Tokens
  <1>2. ASSUME pc \in Writing
        PROVE  /\ pc \in Answered /\ Done \in Nat /\ pos = resp.head + Done
               /\ Done <= Len(resp.body)
    <2>1. pc \in Answered
      BY <1>2 DEF Answered
    <2> QED
      BY <1>1, <1>2, <2>1, OnTheWire, PastRequest DEF Done, Wire
  <1>3. /\ Len(resp.body) \in Nat /\ DOMAIN resp.body = 1 .. Len(resp.body)
        /\ \A k \in 1 .. Len(resp.body) : resp.body[k] \in Tokens
    BY <1>1
  <1> QED
    BY <1>1, <1>2, <1>3 DEF Wire

LEMMA SizeFacts ==
  ASSUME IInv, NEW s \in SizePlaces(resp.body)
  PROVE  s \in Nat /\ s \in 1 .. Len(resp.body) /\ resp.body[s].n \in Nat
  <1>1. s \in 1 .. Len(resp.body) /\ Len(resp.body) \in Nat
    BY BodyFacts DEF SizePlaces
  <1>2. resp.body[s] \in Tokens
    BY <1>1, BodyFacts
  <1> QED
    BY <1>1, <1>2 DEF Tokens

\* Nothing is a beginning of everything.
LEMMA NothingBegins ==
  ASSUME IInv, out = <<>>
  PROVE  Begins(out, Payload)
  <1>1. Cardinality(DataPlaces(resp.body)) \in Nat
    BY BodyFacts, DataCount
  <1>2. Len(Payload) = Cardinality(DataPlaces(resp.body))
    BY <1>1 DEF Payload, DataOf
  <1> QED
    BY <1>1, <1>2 DEF Begins

\* Units of the answer that are data of the body extend the output as they should.
LEMMA DataWritten ==
  ASSUME IInv, BodyOK, pc \in Writing, NEW n \in Nat, Done + n <= Len(resp.body),
         \A q \in Done + 1 .. Done + n : IsData(resp.body[q]),
         NEW o, o = out \o Data(pos + 1, pos + n)
  PROVE  Len(o) = DataUpTo(resp.body, Done + n) /\ Begins(o, Payload)
  <1>1. PICK body, p, s : body = resp.body /\ p = Done /\ s = out
    OBVIOUS
  <1> DEFINE d == [k \in 1 .. n |-> body[p + k].n]
  <1>2. /\ body \in Seq(Tokens) /\ p \in Nat /\ p + n <= Len(body)
        /\ \A q \in p + 1 .. p + n : IsData(body[q])
        /\ s \in Seq(Nat) /\ Len(s) = DataUpTo(body, p) /\ Begins(s, DataOf(body))
    BY <1>1, BodyFacts DEF BodyOK, Payload
  <1>3. d \in Seq(Nat) /\ Len(d) = n /\ \A k \in 1 .. n : d[k] = body[p + k].n
    <2>1. \A k \in 1 .. n : p + k \in 1 .. Len(body)
      BY <1>2
    <2>2. \A k \in 1 .. n : body[p + k].n \in Nat
      BY <1>1, <2>1, BodyFacts DEF Tokens
    <2>3. d \in [1 .. n -> Nat] /\ \A k \in 1 .. n : d[k] = body[p + k].n
      BY <2>2
    <2> HIDE DEF d
    <2> QED
      BY <2>3
  <1>4. Data(pos + 1, pos + n) = d
    <2>1. pos = resp.head + p /\ p \in Nat /\ resp.head \in Nat
      BY <1>1, BodyFacts
    <2>2. (pos + n) - (pos + 1) + 1 = n
      BY <2>1
    <2>3. ASSUME NEW k \in 1 .. n
          PROVE  Token(pos + 1 + k - 1) = body[p + k]
      <3>1. (pos + 1 + k - 1) - resp.head = p + k
        BY <2>1
      <3> QED
        BY <1>1, <3>1 DEF Token
    <2> QED
      BY <2>2, <2>3 DEF Data
  <1> HIDE DEF d
  <1>5. Len(s \o d) = DataUpTo(body, p + n) /\ Begins(s \o d, DataOf(body))
    <2>1. \A e \in Seq(Nat) : Len(e) = n /\ (\A k \in 1 .. n : e[k] = body[p + k].n) =>
              Len(s \o e) = DataUpTo(body, p + n) /\ Begins(s \o e, DataOf(body))
      BY <1>2, DataGrows
    <2> QED
      BY <1>3, <2>1
  <1> QED
    BY <1>1, <1>4, <1>5 DEF Payload

\* Until the body there is nothing to say, ...
LEMMA BodyBefore ==
  ASSUME BodyOK, pc \notin Writing \cup {"exit"}, pc' \notin Writing \cup {"exit"}, out' = out
  PROVE  BodyOK'
  BY DEF BodyOK, Writing

\* ... and an error may end it anywhere.
LEMMA BodyBroken ==
  ASSUME IInv, BodyOK, pc # "exit", pc' = "exit", rc' # "ok", UNCHANGED <<resp, out>>
  PROVE  BodyOK'
  <1>1. Begins(out, Payload)
    BY NothingBegins DEF BodyOK
  <1>2. Begins(out, Payload)'
    BY <1>1 DEF Begins, Payload
  <1>3. OkIsWhole'
    BY DEF OkIsWhole
  <1> QED
    BY <1>2, <1>3 DEF BodyOK, Writing

LEMMA BodyOpened ==
  ASSUME IInv, BodyOK, ServerError \/ OpenOutput
  PROVE  BodyOK'
  <1>1. pc = "decide" /\ out = <<>> /\ pos = resp.head
    BY PastRequest DEF BodyOK, ServerError, OpenOutput, Writing
  <1>2. CASE HangUp("http") \/ HangUp("io")
    BY <1>1, <1>2, BodyBroken DEF HangUp, Exit, outVars
  <1>3. CASE /\ left' = IF resp.framing = "length" THEN Len(resp.body) ELSE -1
             /\ Goto(IF resp.framing = "chunked" THEN "line" ELSE "pending")
             /\ UNCHANGED <<hopVars, tlsVars, peer, resp, got, pos, out>>
    <2>1. Done = 0 /\ Wire - pos = Len(resp.body) /\ Len(resp.body) \in Nat
      BY <1>1, BodyFacts DEF Done
    <2>2. DataUpTo(resp.body, 0) = 0 /\ \A s \in SizePlaces(resp.body) : ~(s <= 0)
      <3>1. {q \in DataPlaces(resp.body) : q <= 0} = {}
        BY BodyFacts DEF DataPlaces
      <3>2. DataUpTo(resp.body, 0) = 0
        BY <3>1, FS_EmptySet DEF DataUpTo
      <3> QED
        BY <3>2, BodyFacts DEF SizePlaces
    <2>3. (Len(out) = DataUpTo(resp.body, Done) /\ Begins(out, Payload))'
      BY <1>1, <1>3, <2>1, <2>2, NothingBegins DEF Done, Begins, Payload
    <2>4. Done' = 0 /\ (Wire - pos)' = Len(resp.body)
      BY <1>3, <2>1 DEF Done, Wire
    <2> QED
      BY <1>3, <2>1, <2>2, <2>3, <2>4 DEF BodyOK, Goto, Writing
  <1> QED
    BY <1>2, <1>3, Zenon DEF ServerError, OpenOutput

\* The whole of the body is written when no data are left of it.
LEMMA WholeWritten ==
  ASSUME IInv, BodyOK, pc \in Writing, \A q \in DataPlaces(resp.body) : q <= Done
  PROVE  out = Payload
  <1>1. Len(out) = Cardinality(DataPlaces(resp.body)) /\ Begins(out, Payload)
    BY BodyFacts, DataEnds DEF BodyOK
  <1>2. out = [k \in 1 .. Len(out) |-> out[k]]
    BY BodyFacts
  <1>3. Payload = [k \in 1 .. Len(out) |-> Payload[k]]
    BY <1>1 DEF Payload, DataOf
  <1> QED
    BY <1>1, <1>2, <1>3 DEF Begins

LEMMA BodyEnds ==
  ASSUME IInv, BodyOK, pc \in Writing, pc' = "exit", UNCHANGED <<peer, resp, out>>,
         out = Payload \/ (resp.framing # "chunked" /\ peer = "closed")
  PROVE  BodyOK'
  BY DEF BodyOK, OkIsWhole, Begins, Payload, Writing

\* n tokens of data are written, and the count goes with them ...
LEMMA Writes ==
  ASSUME IInv, BodyOK, pc \in Writing, NEW n \in Nat, Done + n <= Len(resp.body),
         \A q \in Done + 1 .. Done + n : IsData(resp.body[q]), Write(n)
  PROVE  /\ (Len(out) = DataUpTo(resp.body, Done) /\ Begins(out, Payload))'
         /\ Done' = Done + n /\ resp' = resp /\ (Wire - pos)' = (Wire - pos) - n
  <1>1. out' = out \o Data(pos + 1, pos + n) /\ pos' = pos + n /\ resp' = resp
    BY DEF Write
  <1>2. Len(out') = DataUpTo(resp.body, Done + n) /\ Begins(out', Payload)
    BY <1>1, DataWritten
  <1>3. Done' = Done + n /\ (Wire - pos)' = (Wire - pos) - n
    <2>1. pos \in Int /\ resp.head \in Int /\ Wire \in Int
      BY BodyFacts
    <2> QED
      BY <1>1, <2>1 DEF Done, Wire
  <1>4. Begins(out, Payload)' <=> Begins(out', Payload)
    BY <1>1 DEF Begins, Payload
  <1> QED
    BY <1>1, <1>2, <1>3, <1>4

\* ... or some of them and then there is an error.
LEMMA WritesBroken ==
  ASSUME IInv, BodyOK, pc \in Writing, NEW n \in Int, n > 0 => Done + n <= Len(resp.body),
         \A q \in Done + 1 .. Done + n : IsData(resp.body[q]), WriteFails(n)
  PROVE  BodyOK'
  <1>1. PICK k \in 0 .. n - 1 : out' = out \o Data(pos + 1, pos + k)
    BY DEF WriteFails
  <1>2. pc' = "exit" /\ rc' = "io" /\ resp' = resp
    BY DEF WriteFails
  <1>3. /\ k \in Nat /\ Done + k <= Len(resp.body)
        /\ \A q \in Done + 1 .. Done + k : IsData(resp.body[q])
    BY BodyFacts
  <1>4. Begins(out', Payload)
    BY <1>1, <1>3, DataWritten
  <1>5. Begins(out, Payload)'
    BY <1>2, <1>4 DEF Begins, Payload
  <1> QED
    BY <1>2, <1>5 DEF BodyOK, OkIsWhole, Writing

\* All of a plain body is data.
LEMMA PlainData ==
  ASSUME AnswersFramed, IInv, BodyOK, pc \in {"pending", "plain"}
  PROVE  \A q \in 1 .. Len(resp.body) : IsData(resp.body[q])
  <1>1. resp \in Responses /\ resp.framing # "chunked"
    BY OnTheWire DEF BodyOK, Answered, Writing
  <1>2. DataPlaces(resp.body) = 1 .. Len(resp.body)
    BY <1>1, BodyFacts DEF AnswersFramed, Framed
  <1> QED
    BY <1>2 DEF DataPlaces

\* Reading on, a plain body misses so much less.
LEMMA PlainWrites ==
  ASSUME AnswersFramed, IInv, BodyOK, pc \in {"pending", "plain"}, NEW n \in Nat,
         pos + n <= Wire, Write(n), pc' = "plain",
         left' = IF resp.framing = "length" THEN left - n ELSE left
  PROVE  BodyOK'
  <1>1. /\ pc \in Writing /\ Done + n <= Len(resp.body)
        /\ \A q \in Done + 1 .. Done + n : IsData(resp.body[q])
    BY BodyFacts, PlainData DEF Writing
  <1>2. /\ (Len(out) = DataUpTo(resp.body, Done) /\ Begins(out, Payload))'
        /\ resp' = resp /\ (Wire - pos)' = (Wire - pos) - n
    BY <1>1, Writes
  <1>3. (resp.framing # "chunked" /\ left = IF resp.framing = "length" THEN Wire - pos ELSE -1)'
    BY <1>1, <1>2 DEF BodyOK
  <1> QED
    BY <1>2, <1>3 DEF BodyOK, Writing

LEMMA PlainBody ==
  ASSUME AnswersFramed, IInv, BodyOK, PlainPending \/ PlainRead \/ PlainDone
  PROVE  BodyOK'
  <1>1. /\ pc \in {"pending", "plain"} /\ pc \in Writing /\ pc \in Answered
        /\ resp.framing # "chunked"
        /\ left = IF resp.framing = "length" THEN Wire - pos ELSE -1
        /\ pos \in Nat /\ Wire \in Nat /\ got \in Nat /\ pos <= got /\ got <= Wire
        /\ IoBuf \in Nat /\ FetchInv /\ (pc = "plain" => pos = got)
    BY OnTheWire, PastRequest
    DEF BodyOK, PlainPending, PlainRead, PlainDone, Writing, Answered
  <1>2. \A n \in Int : pos + n <= Wire =>
          /\ Done + n <= Len(resp.body)
          /\ \A q \in Done + 1 .. Done + n : IsData(resp.body[q])
    <2> SUFFICES ASSUME NEW n \in Int, pos + n <= Wire
                 PROVE  /\ Done + n <= Len(resp.body)
                        /\ \A q \in Done + 1 .. Done + n : IsData(resp.body[q])
      OBVIOUS
    <2>1. /\ pos = resp.head + Done /\ Wire = resp.head + Len(resp.body) /\ Done \in Nat
          /\ resp.head \in Nat /\ Len(resp.body) \in Nat
      BY <1>1, BodyFacts
    <2>2. Done + n <= Len(resp.body)
      BY <2>1
    <2>3. \A q \in Done + 1 .. Done + n : q \in 1 .. Len(resp.body)
      BY <2>1, <2>2
    <2> QED
      BY <1>1, <2>2, <2>3, PlainData
  <1>3. CASE PlainPending
    <2>1. got - pos \in Nat /\ pos + (got - pos) <= Wire
      BY <1>1
    <2>2. CASE WriteFails(got - pos)
      BY <1>1, <1>2, <2>1, <2>2, WritesBroken
    <2>3. CASE /\ Write(got - pos) /\ Goto("plain")
               /\ left' = IF left >= 0 THEN left - (got - pos) ELSE left
      <3>1. left' = IF resp.framing = "length" THEN left - (got - pos) ELSE left
        BY <1>1, <2>3
      <3> QED
        BY <1>1, <2>1, <2>3, <3>1, PlainWrites DEF Goto
    <2> QED
      BY <1>3, <2>2, <2>3, Zenon DEF PlainPending
  <1>4. CASE PlainRead
    <2> DEFINE m == IF left > 0 THEN Least(left, IoBuf) ELSE IoBuf
    <2>1. PICK n \in Reads(m) :
            \/ /\ n > 0 /\ Write(n) /\ Goto("plain")
               /\ left' = IF left > 0 THEN left - n ELSE left
            \/ n > 0 /\ WriteFails(n)
            \/ n = 0 /\ HangUp("ok")
            \/ HangUp("io")
      BY <1>4 DEF PlainRead
    <2>2. pc = "plain" /\ left # 0
      BY <1>4 DEF PlainRead
    <2>3. m \in Int
      BY <1>1 DEF Least
    <2>4. n = 0 => peer = "closed"
      <3>1. peer \in {"talking", "closed", "broken", "silent"}
        BY <1>1 DEF FetchInv, FetchTypeOK, FetchOK
      <3> QED
        BY <3>1 DEF Reads
    <2> HIDE DEF m
    <2>5. n \in Int /\ (n > 0 => pos + n <= Wire)
      BY <1>1, <2>2, <2>3, ReadsOK
    <2>6. CASE n > 0 /\ Write(n) /\ Goto("plain") /\ left' = IF left > 0 THEN left - n ELSE left
      <3>1. left' = IF resp.framing = "length" THEN left - n ELSE left
        BY <1>1, <2>2, <2>6
      <3>2. n \in Nat /\ pos + n <= Wire
        BY <2>5, <2>6
      <3> QED
        BY <1>1, <2>6, <3>1, <3>2, PlainWrites DEF Goto
    <2>7. CASE n > 0 /\ WriteFails(n)
      BY <1>1, <1>2, <2>5, <2>7, WritesBroken
    <2>8. CASE n = 0 /\ HangUp("ok")
      BY <1>1, <2>4, <2>8, BodyEnds DEF HangUp, Exit, outVars
    <2>9. CASE HangUp("io")
      BY <1>1, <2>9, BodyBroken DEF HangUp, Exit, outVars, Writing
    <2> QED
      BY <2>1, <2>6, <2>7, <2>8, <2>9
  <1>5. CASE PlainDone
    <2>1. left = 0 /\ HangUp("ok")
      BY <1>5 DEF PlainDone
    <2>2. Wire = pos
      BY <1>1, <2>1
    <2>3. \A q \in DataPlaces(resp.body) : q <= Done
      BY <1>1, <2>2, BodyFacts DEF DataPlaces
    <2>4. out = Payload
      BY <1>1, <2>3, WholeWritten
    <2> QED
      BY <1>1, <2>1, <2>4, BodyEnds DEF HangUp, Exit, outVars
  <1> QED
    BY <1>3, <1>4, <1>5

\* What a chunk still has is data.
LEMMA ChunkData ==
  ASSUME AnswersFramed, IInv, BodyOK, pc = "chunk"
  PROVE  \A q \in 1 .. Len(resp.body) : Done < q /\ q <= Done + left => IsData(resp.body[q])
  <1>1. resp \in Responses /\ resp.framing = "chunked" /\ Done \in Nat /\ left \in Int
    BY OnTheWire, BodyFacts DEF BodyOK, Answered, Writing
  <1>2. PICK s \in SizePlaces(resp.body) : s <= Done /\ s + resp.body[s].n = Done + left
    BY DEF BodyOK
  <1>3. s \in Nat
    BY BodyFacts DEF SizePlaces
  <1>4. ASSUME NEW q \in 1 .. Len(resp.body), Done < q, q <= Done + left
        PROVE  IsData(resp.body[q])
    <2>1. s < q /\ q <= s + resp.body[s].n
      BY <1>1, <1>2, <1>3, <1>4, BodyFacts
    <2>2. q \in DOMAIN resp.body
      BY BodyFacts
    <2> QED
      BY <1>1, <1>2, <2>1, <2>2 DEF AnswersFramed, Framed
  <1> QED
    BY <1>4

\* Between two chunks there is no data.
LEMMA LineNoData ==
  ASSUME AnswersFramed, IInv, BodyOK, pc = "line", Done + 1 <= Len(resp.body)
  PROVE  ~IsData(resp.body[Done + 1])
  <1>1. /\ resp \in Responses /\ resp.framing = "chunked" /\ Done \in Nat
        /\ \A s \in SizePlaces(resp.body) : s <= Done => s + resp.body[s].n <= Done
    BY OnTheWire, BodyFacts DEF BodyOK, Ahead, Answered, Writing
  <1>2. Done + 1 \in DOMAIN resp.body
    BY <1>1, BodyFacts
  <1>3. ASSUME NEW s \in SizePlaces(resp.body), s < Done + 1, Done + 1 <= s + resp.body[s].n
        PROVE  FALSE
    <2>1. s \in Nat /\ resp.body[s].n \in Nat
      BY SizeFacts
    <2> QED
      BY <1>1, <1>3, <2>1
  <1> QED
    BY <1>1, <1>2, <1>3 DEF AnswersFramed, Framed

\* A line that is taken is a token of the body.
LEMMA LineTaken ==
  ASSUME IInv, pc = "line", NEW n \in LineUnits, n > 0 \/ pos < got
  PROVE  Done + 1 <= Len(resp.body)
  <1>1. pc \in Answered /\ pc \in Writing
    BY DEF Answered, Writing
  <1>2. pos < Wire
    <2>1. CASE pos < got
      BY <1>1, <2>1, OnTheWire
    <2>2. CASE ~(pos < got)
      <3>1. n \in Reads(1)
        BY <2>2 DEF LineUnits
      <3>2. n \in Int /\ n > 0 /\ got + n <= Wire
        BY <1>1, <2>2, <3>1, OnTheWire, ReadsOK
      <3> QED
        BY <1>1, <3>2, OnTheWire
    <2> QED
      BY <2>1, <2>2
  <1> QED
    BY <1>1, <1>2, BodyFacts, OnTheWire

LEMMA LineBody ==
  ASSUME AnswersFramed, IInv, BodyOK, Line
  PROVE  BodyOK'
  <1>1. /\ pc = "line" /\ pc \in Writing /\ pc \in Answered
        /\ resp \in Responses /\ resp.framing = "chunked" /\ Done \in Nat /\ pos \in Nat
        /\ resp.head \in Nat /\ pos = resp.head + Done
        /\ Len(out) = DataUpTo(resp.body, Done) /\ Begins(out, Payload)
        /\ \A s \in SizePlaces(resp.body) : s <= Done => s + resp.body[s].n <= Done
    BY OnTheWire, BodyFacts DEF BodyOK, Ahead, Line, Answered, Writing
  <1>2. CASE HangUp("io")
    BY <1>1, <1>2, BodyBroken DEF HangUp, Exit, outVars
  <1>3. ASSUME NEW n \in LineUnits, n > 0 \/ pos < got, pos' = pos + 1,
               UNCHANGED <<peer, resp, out>>,
               \/ Token(pos + 1).kind = "eol" /\ Goto("line")
               \/ Token(pos + 1).kind = "size" /\ Token(pos + 1).n > 0
                    /\ left' = Token(pos + 1).n /\ Goto("chunk")
               \/ /\ \/ Token(pos + 1).kind = "data"
                     \/ Token(pos + 1).kind = "size" /\ Token(pos + 1).n = 0
                  /\ pc' = "exit"
        PROVE  BodyOK'
    <2>1. Done + 1 <= Len(resp.body)
      BY <1>1, <1>3, LineTaken
    <2>2. ~IsData(resp.body[Done + 1])
      BY <1>1, <2>1, LineNoData
    <2>3. Token(pos + 1) = resp.body[Done + 1]
      <3>1. (pos + 1) - resp.head = Done + 1
        BY <1>1
      <3> QED
        BY <3>1 DEF Token
    <2>4. (Len(out) = DataUpTo(resp.body, Done) /\ Begins(out, Payload))' /\ Done' = Done + 1
      <3>1. DataUpTo(resp.body, Done + 1) = DataUpTo(resp.body, Done)
        BY <1>1, <2>1, <2>2, BodyFacts, DataSkip
      <3>2. Done' = Done + 1
        BY <1>1, <1>3 DEF Done
      <3> QED
        BY <1>1, <1>3, <3>1, <3>2 DEF Begins, Payload
    <2>5. \A s \in SizePlaces(resp.body) : s \in Nat /\ resp.body[s].n \in Nat
      BY SizeFacts
    <2>6. CASE Token(pos + 1).kind = "eol" /\ Goto("line")
      <3>1. Done + 1 \notin SizePlaces(resp.body)
        BY <2>3, <2>6 DEF SizePlaces
      <3>2. (\A s \in SizePlaces(resp.body) : s <= Done => s + resp.body[s].n <= Done)'
        BY <1>1, <1>3, <2>4, <2>5, <3>1
      <3>3. Ahead' = 0 /\ Done' \in Nat /\ pc' = "line"
        BY <1>1, <2>4, <2>6 DEF Goto, Ahead
      <3> QED
        BY <1>1, <1>3, <2>4, <3>2, <3>3 DEF BodyOK, Writing
    <2>7. CASE /\ Token(pos + 1).kind = "size" /\ Token(pos + 1).n > 0
               /\ left' = Token(pos + 1).n /\ Goto("chunk")
      <3>1. Done + 1 \in SizePlaces(resp.body)
        BY <1>1, <2>1, <2>3, <2>7, BodyFacts DEF SizePlaces
      <3>2. left' = resp.body[Done + 1].n /\ left' \in Nat /\ left' > 0
        BY <2>3, <2>5, <2>7, <3>1
      <3>3. (\A s \in SizePlaces(resp.body) : s <= Done => s + resp.body[s].n <= Done + left)'
        <4>1. ASSUME NEW s \in SizePlaces(resp.body), s <= Done + 1
              PROVE  s + resp.body[s].n <= Done + 1 + left'
          <5>1. CASE s = Done + 1
            BY <1>1, <3>2, <5>1
          <5>2. CASE s # Done + 1
            <6>1. s <= Done /\ s + resp.body[s].n <= Done
              BY <1>1, <2>1, <2>5, <4>1, <5>2
            <6> QED
              BY <1>1, <2>5, <3>2, <6>1
          <5> QED
            BY <5>1, <5>2
        <4> QED
          BY <1>3, <2>4, <4>1
      <3>4. (\E s \in SizePlaces(resp.body) : s <= Done /\ s + resp.body[s].n = Done + left)'
        <4>1. Done + 1 <= Done' /\ (Done + 1) + resp.body[Done + 1].n = Done' + left'
          BY <1>1, <2>4, <3>2
        <4> QED
          BY <1>3, <3>1, <4>1
      <3>5. Ahead' = left' /\ pc' = "chunk"
        BY <2>7 DEF Goto, Ahead
      <3> QED
        BY <1>1, <1>3, <2>4, <3>2, <3>3, <3>4, <3>5 DEF BodyOK, Writing
    <2>8. CASE /\ Token(pos + 1).kind = "data" \/ (Token(pos + 1).kind = "size" /\ Token(pos + 1).n = 0)
               /\ pc' = "exit"
      <3>1. Done + 1 \in SizePlaces(resp.body) /\ resp.body[Done + 1].n = 0
        BY <1>1, <2>1, <2>2, <2>3, <2>8, BodyFacts DEF SizePlaces, IsData
      <3>2. \A q \in DataPlaces(resp.body) : q \in Nat /\ q < Done + 1
        BY <1>1, <3>1, BodyFacts DEF AnswersFramed, Framed, DataPlaces
      <3>3. out = Payload
        BY <1>1, <3>2, WholeWritten
      <3> QED
        BY <1>1, <1>3, <2>8, <3>3, BodyEnds
    <2> QED
      BY <1>3, <2>6, <2>7, <2>8
  <1> QED
    BY <1>2, <1>3, Zenon DEF Line, outVars

LEMMA ChunkBody ==
  ASSUME AnswersFramed, IInv, BodyOK, Chunk
  PROVE  BodyOK'
  <1>1. /\ pc = "chunk" /\ pc \in Writing /\ pc \in Answered
        /\ resp.framing = "chunked" /\ left \in Int /\ left > 0
        /\ got \in Nat /\ pos \in Nat /\ pos <= got /\ got <= Wire /\ Wire \in Nat
        /\ IoBuf \in Nat /\ FetchInv /\ Ahead = left
    BY OnTheWire DEF BodyOK, Ahead, Chunk, Answered, Writing
  <1>2. PICK n \in IF pos < got THEN {Least(got - pos, Least(left, IoBuf))}
                                ELSE Reads(Least(left, IoBuf)) :
          \/ /\ n > 0 /\ left' = left - n /\ Write(n)
             /\ Goto(IF left = n THEN "line" ELSE "chunk")
          \/ n > 0 /\ WriteFails(n)
          \/ HangUp("io")
    BY <1>1, Zenon DEF Chunk
  <1>3. n \in Int /\ (n > 0 => n <= left /\ pos + n <= Wire)
    <2>1. Least(left, IoBuf) \in Int /\ Least(left, IoBuf) <= left
      BY <1>1 DEF Least
    <2>2. CASE pos < got
      <3>1. n = Least(got - pos, Least(left, IoBuf))
        BY <2>2, <1>2
      <3> QED
        BY <1>1, <2>1, <2>2, <3>1 DEF Least
    <2>3. CASE ~(pos < got)
      <3>1. n \in Reads(Least(left, IoBuf))
        BY <2>3, <1>2
      <3>2. n \in Int /\ (n > 0 => n <= Least(left, IoBuf) /\ got + n <= Wire)
        BY <1>1, <2>1, <3>1, ReadsOK
      <3> QED
        BY <1>1, <2>1, <2>3, <3>2
    <2> QED
      BY <2>2, <2>3
  <1>4. n > 0 => /\ n \in Nat /\ Done + n <= Len(resp.body)
                 /\ \A q \in Done + 1 .. Done + n : IsData(resp.body[q])
    <2>1. Done \in Nat /\ pos = resp.head + Done /\ Wire = resp.head + Len(resp.body)
          /\ resp.head \in Nat /\ Len(resp.body) \in Nat
      BY <1>1, BodyFacts
    <2>2. n > 0 => n \in Nat /\ Done + n <= Len(resp.body)
      BY <1>3, <2>1
    <2>3. ASSUME n > 0, NEW q \in Done + 1 .. Done + n
          PROVE  q \in 1 .. Len(resp.body) /\ Done < q /\ q <= Done + left
      BY <1>1, <1>3, <2>1, <2>2, <2>3
    <2> QED
      BY <1>1, <2>2, <2>3, ChunkData
  <1>5. CASE HangUp("io")
    BY <1>1, <1>5, BodyBroken DEF HangUp, Exit, outVars
  <1>6. CASE n > 0 /\ WriteFails(n)
    BY <1>1, <1>3, <1>4, <1>6, WritesBroken
  <1>7. CASE /\ n > 0 /\ left' = left - n /\ Write(n)
             /\ Goto(IF left = n THEN "line" ELSE "chunk")
    <2>1. /\ (Len(out) = DataUpTo(resp.body, Done) /\ Begins(out, Payload))'
          /\ Done' = Done + n /\ resp' = resp
      BY <1>1, <1>4, <1>7, Writes
    <2>2. Done \in Int /\ Done' + left' = Done + left /\ Ahead' = left' /\ Done <= Done'
      <3>1. Done \in Int
        BY <1>1, BodyFacts
      <3>2. Ahead' = left'
        BY <1>1, <1>3, <1>7 DEF Goto, Ahead
      <3> QED
        BY <1>1, <1>3, <1>7, <2>1, <3>1, <3>2
    <2>3. ASSUME NEW s \in SizePlaces(resp.body), s <= Done'
          PROVE  s + resp.body[s].n <= Done' + left'
      <3>1. s \in 1 .. Len(resp.body) /\ ~IsData(resp.body[s])
        BY BodyFacts DEF SizePlaces, IsData
      <3>2. ~(s \in Done + 1 .. Done + n)
        BY <1>4, <1>7, <3>1
      <3>3. s <= Done
        BY <1>3, <2>1, <2>2, <2>3, <3>1, <3>2
      <3> QED
        BY <1>1, <2>2, <3>3 DEF BodyOK
    <2>4. CASE left = n
      <3>1. pc' = "line"
        BY <1>7, <2>4 DEF Goto
      <3> QED
        BY <1>1, <2>1, <2>2, <2>3, <3>1 DEF BodyOK, Writing
    <2>5. CASE left # n
      <3>1. pc' = "chunk" /\ left' > 0
        BY <1>1, <1>3, <1>7, <2>5 DEF Goto
      <3>2. PICK s \in SizePlaces(resp.body) : s <= Done /\ s + resp.body[s].n = Done + left
        BY <1>1 DEF BodyOK
      <3>3. s \in Nat
        BY BodyFacts DEF SizePlaces
      <3>4. s <= Done' /\ s + resp.body[s].n = Done' + left'
        BY <2>2, <2>1, <1>3, <1>7, <3>2, <3>3
      <3>5. (\E r \in SizePlaces(resp.body) : r <= Done /\ r + resp.body[r].n = Done + left)'
        BY <2>1, <3>2, <3>4
      <3> QED
        BY <1>1, <2>1, <2>2, <2>3, <3>1, <3>5 DEF BodyOK, Writing
    <2> QED
      BY <2>4, <2>5
  <1> QED
    BY <1>2, <1>5, <1>6, <1>7

LEMMA InitBody ==
  Init => BodyOK
  BY DEF Init, BodyOK, Writing

\* The steps before the body either leave the output alone or end with an error.
LEMMA StepBody ==
  ASSUME AnswersFramed, IInv, BodyOK, [Next]_vars
  PROVE  BodyOK'
  <1>1. CASE UNCHANGED vars \/ TlsRetry \/ Exited
    <2>1. UNCHANGED <<pc, peer, resp, left, pos, out, rc>>
      BY <1>1 DEF TlsRetry, Exited, vars, inVars, outVars
    <2> QED
      BY <2>1 DEF BodyOK, Begins, Payload, OkIsWhole, Done, Ahead, Wire
  <1>2. CASE PeerStops
    <2>1. pc # "exit" /\ UNCHANGED <<pc, resp, left, pos, out>>
      BY <1>2 DEF PeerStops, inVars, outVars
    <2> QED
      BY <2>1 DEF BodyOK, Begins, Payload, Done, Ahead, Wire
  <1>3. CASE Connecting \/ Network \/ Connected
    <2>1. pc = "connect" /\ pc' \in {"connect", "tls", "request"} /\ out' = out
      BY <1>3 DEF Connecting, Network, Connected, outVars
    <2> QED
      BY <2>1, BodyBefore DEF Writing
  <1>4. CASE Parse \/ Unconnected
    <2>1. \/ pc' = "connect" /\ out' = out
          \/ pc' = "exit" /\ rc' # "ok" /\ UNCHANGED <<resp, out>>
      BY <1>4 DEF Parse, Unconnected, Exit, outVars
    <2>2. pc \in {"parse", "connect"}
      BY <1>4 DEF Parse, Unconnected
    <2> QED
      BY <2>1, <2>2, BodyBefore, BodyBroken DEF Writing
  <1>5. CASE SetUpTls \/ Handshake \/ Request \/ ReadHeader \/ ParseHeader \/ Redirect
    <2>1. \/ /\ pc' \in {"parse", "handshake", "request", "headers", "decide"}
             /\ out' = out
          \/ pc' = "exit" /\ rc' # "ok" /\ UNCHANGED <<resp, out>>
      BY <1>5 DEF SetUpTls, Handshake, Request, ReadHeader, ParseHeader, Redirect, Goto,
         HangUp, Exit, outVars
    <2>2. pc \in {"tls", "handshake", "request", "headers", "decide"}
      BY <1>5 DEF SetUpTls, Handshake, Request, ReadHeader, ParseHeader, Redirect
    <2> QED
      BY <2>1, <2>2, BodyBefore, BodyBroken DEF Writing
  <1>6. CASE ServerError \/ OpenOutput
    BY <1>6, BodyOpened
  <1>7. CASE PlainPending \/ PlainRead \/ PlainDone
    BY <1>7, PlainBody
  <1>8. CASE Line \/ Chunk
    BY <1>8, LineBody, ChunkBody
  <1> QED
    BY <1>1, <1>2, <1>3, <1>4, <1>5, <1>6, <1>7, <1>8, Zenon DEF Next, Client

----------------------------------------------------------------------------
(* The steps of a fetch are finitely many.                                 *)

\* How far along its way to the exit a hop is, ...
Stage ==
  CASE pc = "parse" -> 13
    [] pc = "connect" /\ cstep = "resolve" -> 12
    [] pc = "connect" /\ cstep = "connecting" -> 11
    [] pc = "connect" /\ cstep \in {"polling", "scanning"} -> 10
    [] pc = "connect" /\ cstep = "closing" -> 9
    [] pc = "connect" /\ cstep \in {"idle", "connected", "unresolved", "unconnected"} -> 8
    [] pc = "tls" -> 7
    [] pc = "handshake" -> 6
    [] pc = "request" -> 5
    [] pc = "headers" -> 4
    [] pc = "decide" -> 3
    [] pc = "pending" -> 2
    [] pc \in {"plain", "line", "chunk"} -> 1
    [] pc = "exit" -> 0

\* ... and what is left to do where it goes round in a loop.
Work ==
  CASE pc = "connect" /\ cstep = "connecting" -> Cardinality(Race!Selected) - isel
    [] pc = "connect" /\ cstep = "scanning" -> Len(pfd) + 2 - i
    [] pc = "headers" -> Wire - got
    [] pc \in {"plain", "line", "chunk"} -> Wire - pos
    [] OTHER -> 0

InState(s) == {a \in Race!Addresses : sock[a] = s}

\* What the network and the peer may still do.
Events ==
  2 * Cardinality(InState("trying")) + Cardinality(InState("up"))
    + (IF peer = "talking" THEN 1 ELSE 0)

Hops == MaxRedirects + 1 - depth

\* The redirects left, the stage, the slices of the budget, the work and the events.
Measure == <<Hops, Stage, deadline, Work, Events>>

\* The lexicographic order, in which nothing descends for ever.
Below(m, n) ==
  \E k \in 1 .. 5 : m[k] < n[k] /\ \A j \in 1 .. k - 1 : m[j] = n[j]

LEMMA ByHops ==
  ASSUME depth \in Int, depth' = depth + 1
  PROVE  Below(Measure', Measure)
  <1>1. Hops' < Hops
    <2>1. MaxRedirects \in Int
      BY HgetAssumption
    <2> QED
      BY <2>1 DEF Hops
  <1>2. Measure'[1] < Measure[1]
    BY <1>1 DEF Measure
  <1> QED
    BY <1>2 DEF Below

LEMMA ByStage ==
  ASSUME UNCHANGED depth, Stage' < Stage
  PROVE  Below(Measure', Measure)
  <1>1. Measure'[2] < Measure[2] /\ Measure'[1] = Measure[1]
    BY DEF Measure, Hops
  <1> QED
    BY <1>1 DEF Below

LEMMA ByRounds ==
  ASSUME UNCHANGED <<depth, Stage>>, deadline' < deadline
  PROVE  Below(Measure', Measure)
  <1>1. Measure'[3] < Measure[3] /\ Measure'[1] = Measure[1] /\ Measure'[2] = Measure[2]
    BY DEF Measure, Hops
  <1> QED
    BY <1>1 DEF Below

LEMMA ByWork ==
  ASSUME UNCHANGED <<depth, Stage, deadline>>, Work' < Work
  PROVE  Below(Measure', Measure)
  <1>1. /\ Measure'[4] < Measure[4]
        /\ Measure'[1] = Measure[1] /\ Measure'[2] = Measure[2] /\ Measure'[3] = Measure[3]
    BY DEF Measure, Hops
  <1> QED
    BY <1>1 DEF Below

LEMMA ByEvents ==
  ASSUME UNCHANGED <<depth, Stage, deadline, Work>>, Events' < Events
  PROVE  Below(Measure', Measure)
  <1>1. /\ Measure'[5] < Measure[5]
        /\ Measure'[1] = Measure[1] /\ Measure'[2] = Measure[2]
        /\ Measure'[3] = Measure[3] /\ Measure'[4] = Measure[4]
    BY DEF Measure, Hops
  <1> QED
    BY <1>1 DEF Below

LEMMA MeasureOK ==
  ASSUME IInv
  PROVE  Measure \in Nat \X Nat \X Nat \X Nat \X Nat
  <1>1. RaceInv /\ FetchInv /\ Wire \in Nat
    BY Halves, WireOK DEF FetchInv, FetchTypeOK
  <1>2. Hops \in Nat
    <2>1. MaxRedirects \in Nat /\ depth \in 0 .. MaxRedirects + 1
      BY <1>1, HgetAssumption DEF FetchInv, FetchTypeOK
    <2> QED
      BY <2>1 DEF Hops
  <1>3. Stage \in Nat
    BY <1>1 DEF Stage, FetchInv, FetchTypeOK, Steps, RaceInv, Race!ConnectTypeOK, Race!ConnectSteps
  <1>4. deadline \in Nat
    BY <1>1, ConnectAssumption DEF RaceInv, Race!ConnectTypeOK
  <1>5. Work \in Nat
    <2>1. cstep = "connecting" => Cardinality(Race!Selected) - isel \in Nat
      BY <1>1, CandidateOK, ConnectAssumption DEF RaceInv, RaceOK, Race!ConnectTypeOK
    <2>2. cstep = "scanning" => Len(pfd) + 2 - i \in Nat
      <3>1. Len(pfd) \in Nat /\ i \in Int /\ (cstep = "scanning" => i <= Len(pfd) + 1)
        BY <1>1, ConnectAssumption DEF RaceInv, RaceOK, Race!ConnectTypeOK
      <3> QED
        BY <3>1
    <2>3. Wire - got \in Nat /\ Wire - pos \in Nat
      BY <1>1 DEF FetchInv, FetchTypeOK
    <2> QED
      BY <2>1, <2>2, <2>3 DEF Work
  <1>6. Events \in Nat
    <2>1. \A s : Cardinality(InState(s)) \in Nat
      BY FiniteAddresses DEF InState
    <2>2. Cardinality(InState("trying")) \in Nat /\ Cardinality(InState("up")) \in Nat
      BY <2>1
    <2> QED
      BY <2>2 DEF Events
  <1> QED
    BY <1>2, <1>3, <1>4, <1>5, <1>6 DEF Measure

\* A turn of a loop of the race, or its next step.
LEMMA RaceDescends ==
  ASSUME IInv, Connecting
  PROVE  Below(Measure', Measure)
  <1>1. /\ pc = "connect" /\ pc' = "connect" /\ UNCHANGED depth /\ RaceInv /\ Race!ConnectStep
    BY Halves DEF Connecting, hopVars
  <1>2. Len(pfd) \in Nat /\ i \in Int /\ deadline \in Int /\ isel \in Int
    BY <1>1, ConnectAssumption DEF RaceInv, Race!ConnectTypeOK
  <1>3. CASE \/ Race!Resolve \/ Race!Connected \/ Race!ScanWin \/ Race!PollFailed
             \/ Race!GiveUp \/ Race!CloseLosers
    <2>1. Stage' < Stage
      BY <1>1, <1>3
      DEF Stage, Race!Resolve, Race!Connected, Race!ScanWin, Race!PollFailed, Race!GiveUp,
          Race!Polling,
          Race!CloseLosers
    <2> QED
      BY <1>1, <2>1, ByStage
  <1>4. CASE Race!Connect
    <2>1. /\ cstep = "connecting" /\ cstep' \in {"connecting", "closing"}
          /\ isel' = isel + 1 /\ UNCHANGED <<resolved, deadline>>
      BY <1>4 DEF Race!Connect
    <2>2. CASE cstep' = "closing"
      BY <1>1, <2>1, <2>2, ByStage DEF Stage
    <2>3. CASE cstep' = "connecting"
      <3>1. Cardinality(Race!Selected)' = Cardinality(Race!Selected)
        BY <2>1 DEF Race!Selected, Race!Resolved, Race!Rank
      <3>2. Cardinality(Race!Selected) \in Nat
        BY CandidateOK
      <3>3. Work = Cardinality(Race!Selected) - isel
        BY <1>1, <2>1 DEF Work
      <3>4. Work' = Cardinality(Race!Selected)' - isel'
        BY <1>1, <2>3 DEF Work
      <3>5. Stage' = Stage
        BY <1>1, <2>1, <2>3 DEF Stage
      <3> QED
        BY <1>1, <1>2, <2>1, <3>1, <3>2, <3>3, <3>4, <3>5, ByWork
    <2> QED
      BY <2>1, <2>2, <2>3
  <1>5. CASE Race!PollReady \/ Race!PollSlept \/ Race!PollWoken
    <2>1. deadline' = deadline - 1 /\ cstep = "polling" /\ cstep' \in {"polling", "scanning"}
      BY <1>5 DEF Race!PollReady, Race!PollSlept, Race!PollWoken, Race!Polling
    <2>2. Stage' = Stage
      BY <1>1, <2>1 DEF Stage
    <2> QED
      BY <1>1, <1>2, <2>1, <2>2, ByRounds
  <1>6. CASE Race!ScanSkip \/ Race!ScanDrop
    <2>1. cstep = "scanning" /\ cstep' = "scanning" /\ UNCHANGED deadline
      BY <1>6 DEF Race!ScanSkip, Race!ScanDrop
    <2>2. Len(pfd') - i' < Len(pfd) - i /\ Len(pfd') \in Int /\ i' \in Int
      <3>1. CASE Race!ScanSkip
        BY <1>2, <3>1 DEF Race!ScanSkip
      <3>2. CASE Race!ScanDrop
        <4>1. i' = i /\ pfd' = Race!SwapRemove(pfd, i) /\ Len(pfd) > 0
          <5>1. i > 0 /\ i <= Len(pfd)
            BY <1>1, <3>2, ConnectAssumption DEF Race!ScanDrop, RaceInv, Race!ConnectTypeOK
          <5> QED
            BY <1>2, <3>2, <5>1 DEF Race!ScanDrop
        <4>2. Len(pfd') = Len(pfd) - 1
          BY <1>2, <4>1 DEF Race!SwapRemove
        <4> QED
          BY <1>2, <4>1, <4>2
      <3> QED
        BY <1>6, <3>1, <3>2
    <2>3. Stage' = Stage /\ Work = Len(pfd) + 2 - i /\ Work' = Len(pfd') + 2 - i'
      BY <1>1, <2>1 DEF Stage, Work
    <2> QED
      BY <1>1, <1>2, <2>1, <2>2, <2>3, ByWork
  <1>7. CASE Race!ScanEnd
    <2>1. cstep = "scanning" /\ cstep' = "polling" /\ UNCHANGED deadline
      BY <1>7 DEF Race!ScanEnd
    <2>2. Len(pfd) + 2 - i > 0
      BY <1>1, <1>2, <2>1 DEF RaceInv, RaceOK
    <2>3. Stage' = Stage /\ Work = Len(pfd) + 2 - i /\ Work' = 0
      BY <1>1, <2>1 DEF Stage, Work, Writing
    <2> QED
      BY <1>1, <2>1, <2>2, <2>3, ByWork
  <1> QED
    BY <1>1, <1>3, <1>4, <1>5, <1>6, <1>7, Zenon DEF Race!ConnectStep

LEMMA LessLeft ==
  ASSUME NEW w \in Int, NEW a \in Int, NEW b \in Int, a < b
  PROVE  w - b < w - a
  OBVIOUS

\* Each step of a hop is the last of its stage, ...
LEMMA HopDescends ==
  ASSUME IInv,
         \/ Parse \/ Connected \/ Unconnected \/ SetUpTls \/ Handshake \/ Request
         \/ ParseHeader \/ ServerError \/ OpenOutput \/ PlainPending \/ PlainDone
  PROVE  Below(Measure', Measure)
  <1>1. UNCHANGED depth /\ Stage' < Stage
    <2>1. CASE Parse
      BY <2>1 DEF Parse, Race!Begin, Exit, hopVars, Stage
    <2>2. CASE Connected \/ Unconnected
      <3>1. /\ pc = "connect" /\ cstep \in {"connected", "unresolved", "unconnected"}
            /\ pc' \in {"tls", "request", "exit"} /\ UNCHANGED depth
        BY <2>2 DEF Connected, Unconnected, Exit, hopVars
      <3> QED
        BY <3>1 DEF Stage
    <2>3. CASE SetUpTls \/ Handshake \/ Request
      BY <2>3 DEF SetUpTls, Handshake, Request, HangUp, Exit, Goto, hopVars, Stage
    <2>4. CASE ParseHeader \/ ServerError
      BY <2>4 DEF ParseHeader, ServerError, HangUp, Exit, Goto, hopVars, Stage
    <2>5. CASE OpenOutput
      BY <2>5 DEF OpenOutput, HangUp, Exit, Goto, hopVars, Stage
    <2>6. CASE PlainPending \/ PlainDone
      BY <2>6 DEF PlainPending, PlainDone, Write, WriteFails, HangUp, Exit, Goto, hopVars, Stage
    <2> QED
      BY <2>1, <2>2, <2>3, <2>4, <2>5, <2>6
  <1> QED
    BY <1>1, ByStage

\* ... or takes something of the answer, ...
LEMMA ReadDescends ==
  ASSUME IInv, ReadHeader \/ PlainRead \/ Line \/ Chunk
  PROVE  Below(Measure', Measure)
  <1>1. /\ pc \in Answered /\ pc \in {"headers", "plain", "line", "chunk"}
        /\ got \in Nat /\ pos \in Nat /\ Wire \in Nat /\ cstep = "idle" /\ HdrBuf \in Int
        /\ left \in Int /\ IoBuf \in Int /\ FetchInv
    BY OnTheWire DEF ReadHeader, PlainRead, Line, Chunk, Answered, Writing
  <1>2. CASE pc' = "exit" /\ UNCHANGED depth
    <2>1. Stage' < Stage
      BY <1>1, <1>2 DEF Stage
    <2> QED
      BY <1>2, <2>1, ByStage
  <1>3. CASE /\ pc = "headers" /\ pc' = pc /\ UNCHANGED <<depth, deadline, resp>>
             /\ got' \in Int /\ got < got'
    <2>1. Stage' = Stage /\ Work = Wire - got /\ Work' = Wire - got'
      BY <1>3 DEF Stage, Work, Wire
    <2>2. Wire \in Int /\ got \in Int
      BY <1>1
    <2>3. Wire - got' < Wire - got
      BY <1>3, <2>2, LessLeft, Zenon
    <2>4. Work' < Work
      BY <2>1, <2>3
    <2> QED
      BY <1>3, <2>1, <2>4, ByWork
  <1>4. CASE /\ pc \in {"plain", "line", "chunk"} /\ pc' \in {"plain", "line", "chunk"}
             /\ UNCHANGED <<depth, deadline, resp>> /\ pos' \in Int /\ pos < pos'
    <2>1. Stage' = Stage /\ Work = Wire - pos /\ Work' = Wire - pos'
      BY <1>4 DEF Stage, Work, Wire
    <2>2. Wire \in Int /\ pos \in Int
      BY <1>1
    <2>3. Wire - pos' < Wire - pos
      BY <1>4, <2>2, LessLeft, Zenon
    <2>4. Work' < Work
      BY <2>1, <2>3
    <2> QED
      BY <1>4, <2>1, <2>4, ByWork
  <1>5. CASE ReadHeader
    <2>1. ASSUME NEW n \in Reads(HdrBuf - got), n > 0 PROVE n \in Int
      BY <1>1, ReadsOK
    <2> QED
      BY <1>1, <1>2, <1>3, <1>5, <2>1
      DEF ReadHeader, HangUp, Exit, Goto, hopVars, tlsVars, raceVars
  <1>6. CASE PlainRead
    <2> DEFINE m == IF left > 0 THEN Least(left, IoBuf) ELSE IoBuf
    <2>1. PICK n \in Reads(m) :
            \/ n > 0 /\ Write(n) /\ Goto("plain")
            \/ WriteFails(n) \/ HangUp("ok") \/ HangUp("io")
      BY <1>6 DEF PlainRead
    <2>2. m \in Int
      BY <1>1 DEF Least
    <2> HIDE DEF m
    <2>3. n \in Int
      BY <1>1, <2>2, ReadsOK
    <2>4. pc = "plain"
      BY <1>6 DEF PlainRead
    <2> QED
      BY <1>1, <1>2, <1>4, <2>1, <2>3, <2>4
      DEF Write, WriteFails, HangUp, Exit, Goto, hopVars, tlsVars, raceVars
  <1>7. CASE Line
    <2>1. \/ pos' = pos + 1 /\ pc' \in {"line", "chunk"} /\ UNCHANGED <<hopVars, resp, raceVars>>
          \/ pc' = "exit" /\ UNCHANGED hopVars
      BY <1>7 DEF Line, Goto, HangUp, Exit
    <2>2. pc = "line"
      BY <1>7 DEF Line
    <2> QED
      BY <1>1, <1>2, <1>4, <2>1, <2>2 DEF hopVars, raceVars
  <1>8. CASE Chunk
    <2>1. PICK n \in IF pos < got THEN {Least(got - pos, Least(left, IoBuf))}
                                  ELSE Reads(Least(left, IoBuf)) :
            \/ n > 0 /\ Write(n) /\ Goto(IF left = n THEN "line" ELSE "chunk")
            \/ WriteFails(n) \/ HangUp("io")
      BY <1>8, Zenon DEF Chunk
    <2>2. n \in Int
      <3>1. Least(left, IoBuf) \in Int
        BY <1>1 DEF Least
      <3>2. CASE pos < got
        BY <1>1, <2>1, <3>1, <3>2 DEF Least
      <3>3. CASE ~(pos < got)
        BY <1>1, <2>1, <3>1, <3>3, ReadsOK
      <3> QED
        BY <3>2, <3>3
    <2>3. pc = "chunk"
      BY <1>8 DEF Chunk
    <2> QED
      BY <1>1, <1>2, <1>4, <2>1, <2>2, <2>3
      DEF Write, WriteFails, HangUp, Exit, Goto, hopVars, tlsVars, raceVars
  <1> QED
    BY <1>5, <1>6, <1>7, <1>8

\* ... or is the hop's last.
LEMMA RedirectDescends ==
  ASSUME IInv, Redirect
  PROVE  Below(Measure', Measure)
  <1>1. depth \in Int /\ pc = "decide"
    <2>1. MaxRedirects \in Nat
      BY HgetAssumption
    <2> QED
      BY <2>1, Halves DEF FetchInv, FetchTypeOK, Redirect
  <1>2. CASE HangUp("redirect")
    <2>1. UNCHANGED depth /\ pc' = "exit"
      BY <1>2 DEF HangUp, Exit, hopVars
    <2>2. Stage' < Stage
      BY <1>1, <2>1 DEF Stage
    <2> QED
      BY <2>1, <2>2, ByStage
  <1>3. CASE depth' = depth + 1
    BY <1>1, <1>3, ByHops
  <1> QED
    BY <1>2, <1>3 DEF Redirect

\* The peer falls silent once, the network answers each connect and breaks it at most
\* once.
LEMMA EventDescends ==
  ASSUME IInv, PeerStops \/ Network
  PROVE  Below(Measure', Measure)
  <1>1. UNCHANGED <<depth, deadline, Stage, Work>>
    <2>1. /\ UNCHANGED <<pc, depth, deadline, cstep, isel, resolved, pfd, i, resp, got, pos>>
      BY DEF PeerStops, Network, Race!Network, Race!Answer, hopVars, inVars, raceVars
    <2>2. Stage' = Stage
      BY <2>1 DEF Stage
    <2>3. Cardinality(Race!Selected)' = Cardinality(Race!Selected) /\ Wire' = Wire
      BY <2>1 DEF Race!Selected, Race!Resolved, Race!Rank, Wire
    <2>4. Work' = Work
      BY <2>1, <2>3 DEF Work
    <2> QED
      BY <2>1, <2>2, <2>4
  <1>2. \A s : IsFiniteSet(InState(s)) /\ Cardinality(InState(s)) \in Nat
    BY FiniteAddresses DEF InState
  <1>3. CASE PeerStops
    <2>1. /\ InState("trying")' = InState("trying") /\ InState("up")' = InState("up")
          /\ peer = "talking" /\ peer' # "talking"
      BY <1>3 DEF PeerStops, raceVars, InState
    <2>2. Cardinality(InState("trying")) \in Nat /\ Cardinality(InState("up")) \in Nat
      BY <1>2
    <2>3. Events' < Events
      BY <2>1, <2>2 DEF Events
    <2> QED
      BY <1>1, <2>3, ByEvents
  <1>4. CASE Network
    <2>1. PICK a \in Race!Addresses : Race!Answer(a)
      BY <1>4 DEF Network, Race!Network
    <2>2. sock \in [Race!Addresses -> {"none", "refused", "trying", "up", "down", "closed"}]
      BY Halves DEF RaceInv, Race!ConnectTypeOK
    <2> DEFINE T == InState("trying")
               U == InState("up")
    <2>3. /\ IsFiniteSet(T) /\ IsFiniteSet(U)
          /\ Cardinality(T) \in Nat /\ Cardinality(U) \in Nat
      BY <1>2
    <2>4. PICK p \in 0 .. 1 :
            /\ Events = 2 * Cardinality(T) + Cardinality(U) + p
            /\ Events' = 2 * Cardinality(T') + Cardinality(U') + p
      <3>1. peer' = peer
        BY <1>4 DEF Network
      <3> QED
        BY <3>1 DEF Events
    <2>5. CASE sock[a] = "trying" /\ sock' = [sock EXCEPT ![a] = "up"]
      <3>1. T' = T \ {a} /\ U' = U \cup {a} /\ a \in T /\ a \notin U
        BY <2>2, <2>5 DEF InState
      <3> HIDE DEF T, U
      <3>2. Cardinality(T') = Cardinality(T) - 1 /\ Cardinality(U') = Cardinality(U) + 1
        BY <2>3, <3>1, FS_RemoveElement, FS_AddElement
      <3>3. Events' < Events
        BY <2>3, <2>4, <3>2
      <3> QED
        BY <1>1, <3>3, ByEvents
    <2>6. CASE sock[a] = "trying" /\ sock' = [sock EXCEPT ![a] = "down"]
      <3>1. T' = T \ {a} /\ U' = U /\ a \in T
        BY <2>2, <2>6 DEF InState
      <3> HIDE DEF T, U
      <3>2. Cardinality(T') = Cardinality(T) - 1 /\ Cardinality(U') = Cardinality(U)
        BY <2>3, <3>1, FS_RemoveElement
      <3>3. Events' < Events
        BY <2>3, <2>4, <3>2
      <3> QED
        BY <1>1, <3>3, ByEvents
    <2>7. CASE sock[a] = "up" /\ sock' = [sock EXCEPT ![a] = "down"]
      <3>1. T' = T /\ U' = U \ {a} /\ a \in U
        BY <2>2, <2>7 DEF InState
      <3> HIDE DEF T, U
      <3>2. Cardinality(T') = Cardinality(T) /\ Cardinality(U') = Cardinality(U) - 1
        BY <2>3, <3>1, FS_RemoveElement
      <3>3. Events' < Events
        BY <2>3, <2>4, <3>2
      <3> QED
        BY <1>1, <3>3, ByEvents
    <2> QED
      BY <2>1, <2>5, <2>6, <2>7 DEF Race!Answer
  <1> QED
    BY <1>3, <1>4

LEMMA StepDescends ==
  ASSUME IInv, [Next]_vars
  PROVE  [Below(Measure', Measure)]_vars
  <1>1. CASE Client
    BY <1>1, RaceDescends, HopDescends, ReadDescends, RedirectDescends, Zenon DEF Client
  <1>2. CASE PeerStops \/ Network
    BY <1>2, EventDescends
  <1>3. CASE TlsRetry \/ Exited \/ UNCHANGED vars
    BY <1>3 DEF TlsRetry, Exited
  <1> QED
    BY <1>1, <1>2, <1>3, Zenon DEF Next

----------------------------------------------------------------------------

\* The inductive invariant holds throughout.
THEOREM Safety ==
  Spec => []IInv
  BY InitIInv, StepIInv, PTL DEF Spec

\* tcp_connect (hget.c) and the functions of a fetch keep every variable, the race's
\* included, in its type: no place of the poll set or of the answer is overrun.
THEOREM TypeCorrect ==
  Spec => []TypeOK
  <1>1. IInv => TypeOK
    BY DEF IInv
  <1> QED
    BY <1>1, Safety, PTL

\* For any number of addresses and places, tcp_connect loses no socket and closes none
\* twice, and the one it returns is up and blocking.
THEOREM Survivor ==
  Spec => []OneSurvivor
  <1>1. IInv => OneSurvivor
    BY DEF IInv
  <1> QED
    BY <1>1, Safety, PTL

\* However many addresses the resolver returns and however few places MAX_ADDRS gives,
\* each family has its half of them, or all its addresses: what alternates comes no
\* later than its slot and its family say.
THEOREM Fair ==
  Spec => []FamiliesShare
  <1>1. IInv => FamiliesShare
    BY Shares DEF IInv, TypeOK, FamiliesShare
  <1> QED
    BY <1>1, Safety, PTL

\* For every timeout, unless poll itself failed, tcp_connect gives an unanswered
\* address up only once each slice of the budget was waited out, or until a signal
\* came, or paid for an address that had failed.
THEOREM Patient ==
  Spec => []GivesUpLate
  <1>1. IInv => GivesUpLate
    <2> SUFFICES ASSUME IInv, cstep = "closing", winner = Race!NoFd, ~polls.failed,
                        NEW a \in Race!Addresses, sock[a] = "trying"
                 PROVE  Waited + Race!Cardinality({b \in Race!Addresses :
                                                     sock[b] \in {"down", "closed"}}) >= Timeout
      BY DEF GivesUpLate, Race!GivesUpLate, Waited
    <2> DEFINE F == {b \in Race!Addresses : sock[b] \in {"down", "closed"}}
    <2>1. Race!InRace(a)
      BY NoFdApart DEF IInv, OneSurvivor, Race!OneSurvivor, Race!IsOpen
    <2>2. pfd # <<>>
      BY <2>1 DEF Race!InRace
    <2>3. Paid(0) /\ deadline = 0
      BY <2>2 DEF IInv, PaidOK
    <2>4. Closed \in SUBSET F /\ F \in SUBSET Race!Addresses
      BY DEF Closed
    <2> HIDE DEF F
    <2>5. Cardinality(Closed) <= Cardinality(F) /\ Cardinality(F) \in Nat
      BY <2>4, FiniteAddresses, FS_Subset
    <2>6. polls \in Polls
      BY DEF IInv, TypeOK, Race!ConnectTypeOK, Polls
    <2>7. Waited + Cardinality(F) >= Timeout
      BY <2>3, <2>5, <2>6, ClosedFinite, NoneWaited, ConnectAssumption DEF Paid
    <2> QED
      BY <2>7, SameCardinality DEF F
  <1> QED
    BY <1>1, Safety, PTL

\* No hop of a redirect and no exit of fetch, whatever failed, leaves a connection open.
THEOREM AllClosed ==
  Spec => []NothingLeft
  <1>1. IInv => NothingLeft
    <2> SUFFICES ASSUME IInv, pc \in {"parse", "exit"}, NEW a \in Race!Addresses
                 PROVE  ~Race!IsOpen(a)
      BY DEF NothingLeft
    <2>1. cstep = "idle" /\ winner = Race!NoFd
      BY DEF IInv, FetchOK
    <2>2. sock[a] = "none"
      BY <2>1, NoFdApart DEF IInv, RaceOK, AtRest
    <2> QED
      BY <2>2 DEF Race!IsOpen
  <1> QED
    BY <1>1, Safety, PTL

\* Whatever a server answers, fetch opens, and so truncates, the output file only when
\* a body comes: after any other failure the old file is there.
THEOREM OldFileKept ==
  Spec => []FileKept
  <1>1. IInv => FileKept
    BY DEF IInv, PolicyOK, FileKept, Writing
  <1> QED
    BY <1>1, Safety, PTL

\* On every hop of any number of redirects, a request goes over TLS only to a server
\* whose certificate was good, or with -k.
THEOREM Verified ==
  Spec => []NeverUnverified
  <1>1. IInv => NeverUnverified
    BY DEF IInv, PolicyOK
  <1> QED
    BY <1>1, Safety, PTL

\* With servers that frame their answers as they should: the output and what is left to
\* parse fit together at every step of body_plain and body_chunked.
THEOREM BodyCounted ==
  ASSUME AnswersFramed
  PROVE  Spec => []BodyOK
  <1>1. Init => BodyOK
    BY InitBody
  <1>2. IInv /\ BodyOK /\ [Next]_vars => BodyOK'
    BY StepBody
  <1> QED
    BY <1>1, <1>2, Safety, PTL DEF Spec

\* However an answer is cut into reads, and for every size of hdrbuf and iobuf, what
\* hget writes is a beginning of the body: no framing, nothing twice, nothing lost.
THEOREM PrefixWritten ==
  ASSUME AnswersFramed
  PROVE  Spec => []OutputIsPrefix
  <1>1. IInv /\ BodyOK => OutputIsPrefix
    <2> SUFFICES ASSUME IInv, BodyOK
                 PROVE  OutputIsPrefix
      OBVIOUS
    <2>1. Begins(out, Payload)
      BY NothingBegins DEF BodyOK
    <2>2. out \in Seq(Nat) /\ out = [k \in 1 .. Len(out) |-> out[k]]
      BY BodyFacts
    <2>3. SubSeq(Payload, 1, Len(out)) = [k \in 1 .. Len(out) |-> Payload[k]]
      BY <2>2
    <2> QED
      BY <2>1, <2>2, <2>3 DEF OutputIsPrefix, Begins
  <1> QED
    BY <1>1, BodyCounted, Safety, PTL

\* Exit code 0 means the whole body is written, but for the server closing the connection
\* of a body that is not chunked.
THEOREM WholeBody ==
  ASSUME AnswersFramed
  PROVE  Spec => []OkIsWhole
  <1>1. BodyOK => OkIsWhole
    BY DEF BodyOK, OkIsWhole
  <1> QED
    BY <1>1, BodyCounted, PTL

\* Every step of tcp_connect and of fetch, of the network and of the peer spends something
\* that is finite: redirects left, stages of a hop, slices of the budget, candidates,
\* sockets to look at and units of the answer to read.  No redirect loop, no poll and no
\* body keeps hget taking steps for ever; waiting for a silent TLS peer is not a step.
THEOREM EveryStepSpends ==
  Spec => /\ [](Measure \in Nat \X Nat \X Nat \X Nat \X Nat)
          /\ [][Below(Measure', Measure)]_vars
  <1>1. IInv => Measure \in Nat \X Nat \X Nat \X Nat \X Nat
    BY MeasureOK
  <1>2. IInv /\ [Next]_vars => [Below(Measure', Measure)]_vars
    BY StepDescends
  <1> QED
    BY <1>1, <1>2, Safety, PTL DEF Spec
=============================================================================
