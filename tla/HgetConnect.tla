---------------------------- MODULE HgetConnect ----------------------------
(***************************************************************************)
(* hget's connect (board/hget/hget.c, tcp_connect): every address of the   *)
(* host is connected to at once, without blocking, and the first to finish *)
(* wins.  One poll covers at most one second of the -T budget, and takes a *)
(* whole second of it however early it returns, and whatever made it.      *)
(*                                                                         *)
(* The network answers the pending connects in any order, meanwhile, and a *)
(* connection that is up may be reset before anyone has looked at it.      *)
(***************************************************************************)
EXTENDS Integers, Sequences, FiniteSets

CONSTANTS
  MaxAddrs,     \* MAX_ADDRS: sockets in one race
  Timeout,      \* opt_timeout, in seconds: main makes it positive
  MaxResolved   \* addresses of a family the resolver returns: bounds the model

\* The two lists tcp_connect sorts the answers into: AF_INET6, and the rest.
Families == 0 .. 1

\* The address in a place of one of the lists stands for its socket, too.
Addresses == [fam : Families, slot : 0 .. MaxResolved - 1]

NoFd == [fam |-> -1, slot |-> -1]

VARIABLES
  cstep,     \* where tcp_connect is
  resolved,  \* how many addresses of each family getaddrinfo returned
  isel,      \* the candidate it is about to open
  sock,      \* the state of each address's socket
  blocking,  \* the sockets without O_NONBLOCK
  pfd,       \* the poll set, nfd long
  revents,   \* the sockets the last poll reported
  i,         \* the entry being looked at
  winner,    \* the connection
  deadline,  \* what is left of the budget
  polls      \* history: polls that time ended, that a signal did, and a failed one

connectVars ==
  <<cstep, resolved, isel, sock, blocking, pfd, revents, i, winner, deadline, polls>>

NoPolls == [slept |-> 0, woken |-> 0, failed |-> FALSE]

----------------------------------------------------------------------------

\* What it must not be: the order the resolver returns them in.
ComesBeforeByFamily(a, b) ==
  a.fam < b.fam \/ (a.fam = b.fam /\ a.slot < b.slot)

\* Candidates alternate between the families ...
ComesBefore(a, b) ==
  a.slot < b.slot \/ (a.slot = b.slot /\ a.fam < b.fam)

Resolved == {a \in Addresses : a.slot < resolved[a.fam]}

Rank(a) == Cardinality({b \in Resolved : ComesBefore(b, a)})

\* ... and the list ends when it is full.
Selected == {a \in Resolved : Rank(a) < MaxAddrs}

Candidate == CHOOSE a \in Selected : Rank(a) = isel

IsOpen(a) == sock[a] \in {"trying", "up", "down"}

InRace(a) == \E k \in DOMAIN pfd : pfd[k] = a

\* pfd[k] = pfd[nfd - 1], nfd--
SwapRemove(s, k) ==
  [j \in 1 .. Len(s) - 1 |-> IF j = k THEN s[Len(s)] ELSE s[j]]

----------------------------------------------------------------------------

ConnectInit ==
  /\ cstep = "idle"
  /\ resolved = [f \in Families |-> 0] /\ isel = 0
  /\ sock = [a \in Addresses |-> "none"] /\ blocking = {}
  /\ pfd = <<>> /\ revents = {} /\ i = 1
  /\ winner = NoFd /\ deadline = Timeout /\ polls = NoPolls

Begin ==
  /\ cstep = "idle"
  /\ cstep' = "resolve"
  /\ UNCHANGED <<resolved, isel, sock, blocking, pfd, revents, i, winner, deadline, polls>>

Resolve ==
  /\ cstep = "resolve"
  /\ \/ /\ cstep' = "unresolved"
        /\ UNCHANGED resolved
     \/ /\ resolved' \in [Families -> 0 .. MaxResolved]
        /\ \E f \in Families : resolved'[f] > 0
        /\ cstep' = "connecting"
  /\ UNCHANGED <<isel, sock, blocking, pfd, revents, i, winner, deadline, polls>>

\* One candidate: no socket, connected on the spot, refused, or pending.
Connect ==
  /\ cstep = "connecting" /\ isel < Cardinality(Selected)
  /\ isel' = isel + 1
  /\ \/ UNCHANGED <<cstep, sock, blocking, pfd, winner>>
     \/ /\ sock' = [sock EXCEPT ![Candidate] = "up"]
        /\ blocking' = blocking \cup {Candidate}
        /\ winner' = Candidate
        /\ cstep' = "closing"
        /\ UNCHANGED pfd
     \/ /\ sock' = [sock EXCEPT ![Candidate] = "refused"]
        /\ UNCHANGED <<cstep, blocking, pfd, winner>>
     \/ /\ sock' = [sock EXCEPT ![Candidate] = "trying"]
        /\ pfd' = Append(pfd, Candidate)
        /\ UNCHANGED <<cstep, blocking, winner>>
  /\ UNCHANGED <<resolved, revents, i, deadline, polls>>

Connected ==
  /\ cstep = "connecting" /\ isel = Cardinality(Selected)
  /\ cstep' = "polling"
  /\ UNCHANGED <<resolved, isel, sock, blocking, pfd, revents, i, winner, deadline, polls>>

----------------------------------------------------------------------------
(* The race.                                                               *)

Polling == cstep = "polling" /\ pfd # <<>> /\ deadline > 0

Ready == {a \in Addresses : InRace(a) /\ sock[a] \in {"up", "down"}}

PollReady ==
  /\ Polling /\ Ready # {}
  /\ deadline' = deadline - 1
  /\ revents' = Ready
  /\ i' = 1 /\ cstep' = "scanning"
  /\ UNCHANGED <<resolved, isel, sock, blocking, pfd, winner, polls>>

\* Nothing answered for a whole slice.
PollSlept ==
  /\ Polling /\ Ready = {}
  /\ deadline' = deadline - 1
  /\ polls' = [polls EXCEPT !.slept = @ + 1]
  /\ UNCHANGED <<cstep, resolved, isel, sock, blocking, pfd, revents, i, winner>>

\* A signal ended the wait, and what was left of the slice with it.
PollWoken ==
  /\ Polling /\ Ready = {}
  /\ deadline' = deadline - 1
  /\ polls' = [polls EXCEPT !.woken = @ + 1]
  /\ UNCHANGED <<cstep, resolved, isel, sock, blocking, pfd, revents, i, winner>>

\* poll itself failed: the race is over, whatever is left of the budget.
PollFailed ==
  /\ Polling
  /\ deadline' = deadline - 1
  /\ polls' = [polls EXCEPT !.failed = TRUE]
  /\ cstep' = "closing"
  /\ UNCHANGED <<resolved, isel, sock, blocking, pfd, revents, i, winner>>

ScanSkip ==
  /\ cstep = "scanning" /\ i <= Len(pfd) /\ pfd[i] \notin revents
  /\ i' = i + 1
  /\ UNCHANGED <<cstep, resolved, isel, sock, blocking, pfd, revents, winner, deadline, polls>>

\* What it must not be: the winner stays in the poll set and is closed with the losers.
ScanWinKept ==
  /\ cstep = "scanning" /\ i <= Len(pfd) /\ pfd[i] \in revents
  /\ sock[pfd[i]] = "up"
  /\ winner' = pfd[i]
  /\ cstep' = "closing"
  /\ UNCHANGED <<resolved, isel, sock, blocking, pfd, revents, i, deadline, polls>>

\* SO_ERROR is what decides, and it is read now, not when poll returned.
ScanWin ==
  /\ cstep = "scanning" /\ i <= Len(pfd) /\ pfd[i] \in revents
  /\ sock[pfd[i]] = "up"
  /\ winner' = pfd[i]
  /\ blocking' = blocking \cup {pfd[i]}
  /\ pfd' = [pfd EXCEPT ![i] = NoFd]
  /\ cstep' = "closing"
  /\ UNCHANGED <<resolved, isel, sock, revents, i, deadline, polls>>

\* What it must not be: the failed one is left in the set: poll returns at once, for ever.
ScanDropNot ==
  /\ cstep = "scanning" /\ i <= Len(pfd) /\ pfd[i] \in revents
  /\ sock[pfd[i]] = "down"
  /\ i' = i + 1
  /\ UNCHANGED <<cstep, resolved, isel, sock, blocking, pfd, revents, winner, deadline, polls>>

\* The last entry takes the place of the failed one and is looked at next.
ScanDrop ==
  /\ cstep = "scanning" /\ i <= Len(pfd) /\ pfd[i] \in revents
  /\ sock[pfd[i]] = "down"
  /\ sock' = [sock EXCEPT ![pfd[i]] = "closed"]
  /\ pfd' = SwapRemove(pfd, i)
  /\ UNCHANGED <<cstep, resolved, isel, blocking, revents, i, winner, deadline, polls>>

ScanEnd ==
  /\ cstep = "scanning" /\ i > Len(pfd)
  /\ cstep' = "polling"
  /\ UNCHANGED <<resolved, isel, sock, blocking, pfd, revents, i, winner, deadline, polls>>

GiveUp ==
  /\ cstep = "polling" /\ ~Polling
  /\ cstep' = "closing"
  /\ UNCHANGED <<resolved, isel, sock, blocking, pfd, revents, i, winner, deadline, polls>>

\* The losers are closed and tcp_connect returns: all it leaves behind is the
\* winner, if there is one.
CloseLosers ==
  /\ cstep = "closing"
  /\ sock' = [a \in Addresses |->
                IF IsOpen(a) /\ (a = winner \/ ~InRace(a)) THEN sock[a] ELSE "none"]
  /\ cstep' = IF winner = NoFd THEN "unconnected" ELSE "connected"
  /\ resolved' = [f \in Families |-> 0] /\ isel' = 0
  /\ pfd' = <<>> /\ revents' = {} /\ i' = 1
  /\ deadline' = Timeout /\ polls' = NoPolls
  /\ UNCHANGED <<blocking, winner>>

----------------------------------------------------------------------------

\* Its caller goes on.
Returned ==
  /\ cstep' = "idle"
  /\ UNCHANGED <<resolved, isel, sock, blocking, pfd, revents, i, winner, deadline, polls>>

\* External: the network answers a pending connect, or resets it.
Answer(a) ==
  /\ cstep \in {"connecting", "polling", "scanning"}
  /\ \/ /\ sock[a] = "trying"
        /\ \E s \in {"up", "down"} : sock' = [sock EXCEPT ![a] = s]
     \/ /\ sock[a] = "up"
        /\ sock' = [sock EXCEPT ![a] = "down"]
  /\ UNCHANGED <<cstep, resolved, isel, blocking, pfd, revents, i, winner, deadline, polls>>

ConnectStep ==
  \/ Resolve \/ Connect \/ Connected
  \/ PollReady \/ PollSlept \/ PollWoken \/ PollFailed
  \/ ScanSkip \/ ScanWin \/ ScanDrop \/ ScanEnd
  \/ GiveUp \/ CloseLosers

Network == \E a \in Addresses : Answer(a)

----------------------------------------------------------------------------

ConnectSteps == {"idle", "resolve", "connecting", "polling", "scanning", "closing",
                 "connected", "unresolved", "unconnected"}

ConnectTypeOK ==
  /\ cstep \in ConnectSteps
  /\ resolved \in [Families -> 0 .. MaxResolved] /\ isel \in 0 .. MaxAddrs
  /\ sock \in [Addresses -> {"none", "refused", "trying", "up", "down", "closed"}]
  /\ blocking \subseteq Addresses /\ revents \subseteq Addresses
  /\ pfd \in Seq(Addresses \cup {NoFd}) /\ Len(pfd) <= MaxAddrs
  /\ i \in 1 .. MaxAddrs + 1 /\ winner \in Addresses \cup {NoFd}
  /\ deadline \in 0 .. Timeout
  /\ polls \in [slept : 0 .. Timeout, woken : 0 .. Timeout, failed : BOOLEAN]

\* The open sockets are those the poll set or the winner still names, once
\* each, so that closing the losers closes all of them and nothing twice and
\* tcp_connect leaves nothing open but its answer, and the connection it
\* returns is up and blocks as it did at first.
OneSurvivor ==
  /\ \A a \in Addresses :
       IsOpen(a) <=> InRace(a) \/ winner = a
  /\ \A j, k \in DOMAIN pfd : j # k => pfd[j] # pfd[k]
  /\ winner # NoFd => sock[winner] = "up" /\ winner \in blocking

\* A cap on the number of sockets never leaves a whole family out of the
\* race: with both resolved, each has at least half of the places or all of
\* its addresses in it.
FamiliesShare ==
  \A f \in Families :
    LET mine == Cardinality({a \in Selected : a.fam = f})
    IN mine >= MaxAddrs \div 2 \/ mine = resolved[f]

\* How early tcp_connect may give up on an address that has not answered: unless
\* poll itself failed, each slice of the budget was waited out, or was cut short
\* by a signal or by an address that had failed, which no poll reports twice.
GivesUpLate ==
  (cstep = "closing" /\ winner = NoFd /\ ~polls.failed
     /\ \E a \in Addresses : sock[a] = "trying") =>
    polls.slept + polls.woken
      + Cardinality({a \in Addresses : sock[a] \in {"down", "closed"}}) >= Timeout

\* hget.c:182: polling "keeps -T honest"; and hget.c:203: a family that fails
\* "now costs nothing".  So an address that has not answered is given up only
\* after all of -T, signals and failures of poll itself aside.
HonestTimeout ==
  (cstep = "closing" /\ winner = NoFd /\ ~polls.failed /\ polls.woken = 0
     /\ \E a \in Addresses : sock[a] = "trying") =>
    polls.slept >= Timeout
=============================================================================
