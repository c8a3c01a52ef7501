---------------------------- MODULE ProcessProofs ----------------------------
(***************************************************************************)
(* The processes beside the editor: the daemon that serves it, and the     *)
(* terminals it drives.                                                    *)
(*                                                                         *)
(* For every number of clients, daemons and versions: as long as the spawn *)
(* lock is not undermined, the socket file leads to the daemon that        *)
(* serves, so there is at most one.                                        *)
(*                                                                         *)
(* For every number of sessions, and channels of any capacity: what a      *)
(* session printed lies in one line, what the owner has got, the events,   *)
(* the batch, the chunks and what is left on the terminal, each piece      *)
(* starting where the one before it ends.  And for every stream of         *)
(* queries, however it is cut: what is kept of the chunks before is long   *)
(* enough for the longest query, so each is matched once, when its last    *)
(* byte is read.                                                           *)
(***************************************************************************)
EXTENDS Lifecycle, Mux, NumberProofs

-----------------------------------------------------------------------------
(* The daemon.                                                             *)


\* A daemon is no client, and Nobody neither.
LEMMA LifeDistinct ==
    /\ Daemons \subseteq Nat /\ Nobody \notin Daemons /\ Nobody \notin Clients
    /\ 1 \in Daemons
BY LifeAssumption DEF Daemons

LEMMA InitLifeInv == LifeInit => LifeInv
<1> SUFFICES ASSUME LifeInit PROVE LifeInv
  OBVIOUS
<1> USE LifeDistinct DEF LifeInit
<1>1. PICK first \in {NoDaemon, Gone} \cup [pc : {"serving"}, ver : Versions] :
         /\ daemon = [d \in Daemons |-> IF d = 1 THEN first ELSE NoDaemon]
         /\ path = IF first = NoDaemon THEN Nobody ELSE 1
  OBVIOUS
<1>2. first \in [pc : DaemonPc, ver : Versions \cup {Nobody}] /\ NoDaemon \in [pc : DaemonPc, ver : Versions \cup {Nobody}]
  BY DEF NoDaemon, Gone, DaemonPc, Serving
<1>3. LifeTypeOK
  <2>1. client \in [Clients -> [pc : ClientPc, ver : Versions \cup {Nobody},
                                next : {"dial", "last"}, to : Daemons \cup {Nobody}]]
    BY DEF NoClient, ClientPc
  <2>2. \A c \in Clients : client[c].pc = "new"
    BY DEF NoClient
  <2>. QED BY <1>1, <1>2, <2>1, <2>2 DEF LifeTypeOK
<1>4. \A d \in Daemons : daemon[d].pc \in {"none", "gone", "serving"}
  BY <1>1 DEF NoDaemon, Gone
<1>5. FileLeadsToTheDaemon
  <2>1. \A d \in Daemons : daemon[d].pc = "serving" => d = 1 /\ path = 1
    BY <1>1 DEF NoDaemon, Gone
  <2>. QED BY <1>4, <2>1 DEF FileLeadsToTheDaemon, Up, Serving
<1>6. StartersAreAwaited /\ AwaitedAreKnown
  BY <1>4 DEF StartersAreAwaited, AwaitedAreKnown, Starting, NoClient
<1>. QED BY <1>3, <1>5, <1>6 DEF LifeInv

-----------------------------------------------------------------------------
(* A step of a client that starts no daemon.                                *)

\* A client step that changes neither the file nor a daemon, and leaves a daemon
\* that is still starting to the one who awaits it.
LEMMA ClientStep ==
    ASSUME LifeInv, LifeTypeOK', AwaitedAreKnown',
           path' = path, daemon' = daemon, torn => torn',
           ~torn' => \A d \in Daemons : daemon[d].pc \in Starting =>
               \A c \in Clients : client[c].pc = "await" /\ client[c].to = d =>
                   client'[c].pc = "await" /\ client'[c].to = d
    PROVE  LifeInv'
<1>1. FileLeadsToTheDaemon'
  BY DEF LifeInv, FileLeadsToTheDaemon, Up
<1>2. StartersAreAwaited'
  BY DEF LifeInv, StartersAreAwaited, Up
<1>. QED BY <1>1, <1>2 DEF LifeInv

-----------------------------------------------------------------------------
(* The clients.                                                             *)

ClientRec == [pc : ClientPc, ver : Versions \cup {Nobody}, next : {"dial", "last"}, to : Daemons \cup {Nobody}]

\* A client that neither gets nor gives up the spawn lock goes elsewhere.
LEMMA ClientMoves ==
    ASSUME LifeInv, NEW c \in Clients, NEW r \in ClientRec,
           client' = [client EXCEPT ![c] = r], UNCHANGED <<path, flock, daemon, torn>>,
           client[c].pc \notin {"ping", "await"}, r.pc \notin {"ping", "await"},
           r.pc = "hello" => r.to \in Daemons
    PROVE  LifeInv'
<1>1. /\ client' \in [Clients -> ClientRec]
      /\ \A b \in Clients : client'[b] = IF b = c THEN r ELSE client[b]
  BY DEF LifeInv, LifeTypeOK, ClientRec
<1>2. LifeTypeOK'
  BY <1>1 DEF LifeInv, LifeTypeOK, ClientRec
<1>3. AwaitedAreKnown'
  BY <1>1 DEF LifeInv, AwaitedAreKnown
<1>. QED BY <1>1, <1>2, <1>3, ClientStep

\* Every process before it asks for the lock, and after it.
LEMMA MovesStep ==
    ASSUME LifeInv, NEW c \in Clients,
           \/ \E v \in Versions : Begin(c, v)
           \/ Ensure(c) \/ WaitGone(c) \/ Dial(c) \/ DialAgain(c) \/ Redial(c)
    PROVE  LifeInv'
<1> USE LifeDistinct
<1>0. client \in [Clients -> ClientRec] /\ client[c] \in ClientRec /\ path \in Daemons \cup {Nobody}
  BY DEF LifeInv, LifeTypeOK, ClientRec
<1>1. ASSUME NEW v \in Versions, Begin(c, v) PROVE LifeInv'
  <2> DEFINE r == [NoClient EXCEPT !.pc = "ensure", !.ver = v]
  <2>1. r \in ClientRec /\ r.pc = "ensure"
    BY DEF ClientRec, ClientPc, NoClient
  <2>2. client' = [client EXCEPT ![c] = r] /\ client[c].pc = "new"
        /\ UNCHANGED <<path, flock, daemon, torn>>
    BY <1>1 DEF Begin
  <2>. QED BY <2>1, <2>2, ClientMoves
<1>2. CASE Ensure(c)
  <2> DEFINE r == IF Answers THEN [client[c] EXCEPT !.pc = "hello", !.to = path]
                  ELSE [client[c] EXCEPT !.pc = "lock"]
  <2>1. r \in ClientRec /\ r.pc \in {"hello", "lock"} /\ (r.pc = "hello" => r.to \in Daemons)
    BY <1>0 DEF ClientRec, ClientPc, Answers
  <2>2. client' = [client EXCEPT ![c] = r] /\ client[c].pc = "ensure"
        /\ UNCHANGED <<path, flock, daemon, torn>>
    BY <1>2 DEF Ensure
  <2>. QED BY <2>1, <2>2, ClientMoves
<1>3. CASE WaitGone(c)
  <2>1. PICK l \in {"remove", "lock"} : Go(c, l) /\ client[c].pc = "wait"
                                        /\ UNCHANGED <<path, flock, daemon, torn>>
    BY <1>3 DEF WaitGone
  <2>2. [client[c] EXCEPT !.pc = l] \in ClientRec /\ [client[c] EXCEPT !.pc = l].pc = l
    BY <1>0 DEF ClientRec, ClientPc
  <2>. QED BY <2>1, <2>2, ClientMoves DEF Go
<1>4. CASE Dial(c)
  <2> DEFINE r == IF Agrees(c) THEN [client[c] EXCEPT !.pc = "on", !.to = path]
                  ELSE [client[c] EXCEPT !.pc = "lock", !.next = "last"]
  <2>1. r \in ClientRec /\ r.pc \in {"on", "lock"}
    BY <1>0 DEF ClientRec, ClientPc
  <2>2. client' = [client EXCEPT ![c] = r] /\ client[c].pc = "dial"
        /\ UNCHANGED <<path, flock, daemon, torn>>
    BY <1>4 DEF Dial
  <2>. QED BY <2>1, <2>2, ClientMoves
<1>5. CASE DialAgain(c)
  <2> DEFINE r == IF Agrees(c) THEN [client[c] EXCEPT !.pc = "on", !.to = path]
                  ELSE [client[c] EXCEPT !.pc = "cut"]
  <2>1. r \in ClientRec /\ r.pc \in {"on", "cut"}
    BY <1>0 DEF ClientRec, ClientPc
  <2>2. client' = [client EXCEPT ![c] = r] /\ client[c].pc = "last"
        /\ UNCHANGED <<path, flock, daemon, torn>>
    BY <1>5 DEF DialAgain
  <2>. QED BY <2>1, <2>2, ClientMoves
<1>6. CASE Redial(c)
  <2>1. [client[c] EXCEPT !.pc = "dial"] \in ClientRec /\ [client[c] EXCEPT !.pc = "dial"].pc = "dial"
    BY <1>0 DEF ClientRec, ClientPc
  <2>. QED BY <1>6, <2>1, ClientMoves DEF Redial, Go
<1>. QED BY <1>1, <1>2, <1>3, <1>4, <1>5, <1>6

\* At most one daemon is starting, the one that the holder of the lock waits for.
LEMMA OneStarts ==
    ASSUME LifeInv, ~torn, NEW d \in Daemons, daemon[d].pc \in Starting
    PROVE  /\ \E c \in Clients : flock = c /\ client[c].pc = "await" /\ client[c].to = d
           /\ \A e \in Daemons : daemon[e].pc \in Starting => e = d
           /\ \A e \in Daemons : daemon[e].pc \notin Serving
           /\ ~Answers
BY LifeDistinct DEF LifeInv, LifeTypeOK, StartersAreAwaited, Up, Answers

\* The client asks an old daemon to leave.
LEMMA HelloStep == \A c \in Clients : LifeInv /\ Hello(c) => LifeInv'
<1> SUFFICES ASSUME NEW c \in Clients, LifeInv, Hello(c) PROVE LifeInv'
  OBVIOUS
<1> USE LifeDistinct
<1>0. client \in [Clients -> ClientRec] /\ client[c] \in ClientRec
  BY DEF LifeInv, LifeTypeOK, ClientRec
<1>1. PICK l \in {"dial", "wait"} : Away(c, l)
  BY DEF Hello
<1> DEFINE r == [client[c] EXCEPT !.pc = l, !.to = Nobody]
<1>2. r \in ClientRec /\ r.pc = l
  BY <1>0 DEF ClientRec, ClientPc
<1>3. client' = [client EXCEPT ![c] = r] /\ client[c].pc = "hello" /\ UNCHANGED <<path, flock, torn>>
  BY <1>1 DEF Hello, Away
<1>4. CASE UNCHANGED daemon
  BY <1>2, <1>3, <1>4, ClientMoves
<1>5. ASSUME NEW d \in Daemons, daemon[d].pc \in Serving, Turn(d, "leaving") PROVE LifeInv'
  <2>1. /\ daemon' \in [Daemons -> [pc : DaemonPc, ver : Versions \cup {Nobody}]]
        /\ \A e \in Daemons : daemon'[e].pc = IF e = d THEN "leaving" ELSE daemon[e].pc
    BY <1>5 DEF Turn, LifeInv, LifeTypeOK, DaemonPc, Serving
  <2>2. /\ client' \in [Clients -> ClientRec]
        /\ \A b \in Clients : client'[b] = IF b = c THEN r ELSE client[b]
    BY <1>0, <1>2, <1>3
  <2>3. LifeTypeOK'
    BY <1>2, <1>3, <2>1, <2>2 DEF LifeInv, LifeTypeOK, ClientRec
  <2>4. \A e \in Daemons : /\ daemon'[e].pc \in Serving <=> daemon[e].pc \in Serving
                           /\ daemon'[e].pc \in Starting <=> daemon[e].pc \in Starting
    BY <1>5, <2>1 DEF Serving, Starting
  <2>5. FileLeadsToTheDaemon'
    BY <1>3, <2>4 DEF LifeInv, FileLeadsToTheDaemon, Up
  <2>6. StartersAreAwaited'
    BY <1>2, <1>3, <2>2, <2>4 DEF LifeInv, StartersAreAwaited, Up
  <2>7. AwaitedAreKnown'
    BY <1>2, <2>2 DEF LifeInv, AwaitedAreKnown
  <2>. QED BY <2>3, <2>5, <2>6, <2>7 DEF LifeInv
<1>6. client[c].to \in Daemons
  BY <1>3 DEF LifeInv, AwaitedAreKnown
<1>. QED BY <1>4, <1>5, <1>6 DEF Hello

\* The file of a daemon that leaves, or of the one that has come up since.
LEMMA RemoveStep == \A c \in Clients : LifeInv /\ RemoveFile(c) => LifeInv'
<1> SUFFICES ASSUME NEW c \in Clients, LifeInv, RemoveFile(c) PROVE LifeInv'
  OBVIOUS
<1> USE LifeDistinct
<1>0. client \in [Clients -> ClientRec] /\ client[c] \in ClientRec
  BY DEF LifeInv, LifeTypeOK, ClientRec
<1> DEFINE r == [client[c] EXCEPT !.pc = "lock"]
<1>1. r \in ClientRec /\ r.pc = "lock" /\ client' = [client EXCEPT ![c] = r] /\ client[c].pc = "remove"
      /\ path' = Nobody /\ torn' = (torn \/ Answers) /\ UNCHANGED <<flock, daemon>>
  BY <1>0 DEF ClientRec, ClientPc, RemoveFile, Go
<1>2. /\ client' \in [Clients -> ClientRec]
      /\ \A b \in Clients : client'[b] = IF b = c THEN r ELSE client[b]
  BY <1>0, <1>1
<1>3. LifeTypeOK'
  BY <1>1, <1>2 DEF LifeInv, LifeTypeOK, ClientRec
<1>4. FileLeadsToTheDaemon'
  <2>1. CASE Answers
    BY <1>1, <2>1 DEF FileLeadsToTheDaemon
  <2>2. CASE ~Answers
    BY <1>1, <2>2 DEF LifeInv, FileLeadsToTheDaemon, Up, Answers
  <2>. QED BY <2>1, <2>2
<1>5. StartersAreAwaited'
  BY <1>1, <1>2 DEF LifeInv, StartersAreAwaited, Up
<1>6. AwaitedAreKnown'
  BY <1>1, <1>2 DEF LifeInv, AwaitedAreKnown
<1>. QED BY <1>3, <1>4, <1>5, <1>6 DEF LifeInv

\* A client takes the spawn lock that is free.
LEMMA LockStep == \A c \in Clients : LifeInv /\ Lock(c) => LifeInv'
<1> SUFFICES ASSUME NEW c \in Clients, LifeInv, Lock(c) PROVE LifeInv'
  OBVIOUS
<1> USE LifeDistinct
<1>0. client \in [Clients -> ClientRec] /\ client[c] \in ClientRec
  BY DEF LifeInv, LifeTypeOK, ClientRec
<1> DEFINE r == [client[c] EXCEPT !.pc = "ping"]
<1>1. r \in ClientRec /\ r.pc = "ping" /\ client' = [client EXCEPT ![c] = r] /\ client[c].pc = "lock"
      /\ flock = Nobody /\ flock' = c /\ UNCHANGED <<path, daemon, torn>>
  BY <1>0 DEF ClientRec, ClientPc, Lock, Free, Go
<1>2. /\ client' \in [Clients -> ClientRec]
      /\ \A b \in Clients : client'[b] = IF b = c THEN r ELSE client[b]
  BY <1>0, <1>1
<1>3. LifeTypeOK'
  BY <1>1, <1>2 DEF LifeInv, LifeTypeOK, ClientRec
<1>4. AwaitedAreKnown'
  BY <1>1, <1>2 DEF LifeInv, AwaitedAreKnown
<1>. QED BY <1>1, <1>2, <1>3, <1>4, ClientStep

\* The holder of the spawn lock gives it up, and the daemon it waited for, if
\* any, is not on its way any more, or the lock is undermined.
LEMMA ReleaseStep ==
    ASSUME LifeInv, NEW c \in Clients, NEW r \in ClientRec, flock = c, flock' = Nobody,
           client' = [client EXCEPT ![c] = r], r.pc \notin {"ping", "await", "hello"},
           UNCHANGED <<path, daemon>>, torn' \in BOOLEAN, torn => torn',
           ~torn' /\ client[c].pc = "await" => daemon[client[c].to].pc \notin Starting
    PROVE  LifeInv'
<1> USE LifeDistinct
<1>1. /\ client' \in [Clients -> ClientRec]
      /\ \A b \in Clients : client'[b] = IF b = c THEN r ELSE client[b]
  BY DEF LifeInv, LifeTypeOK, ClientRec
<1>2. LifeTypeOK'
  BY <1>1 DEF LifeInv, LifeTypeOK, ClientRec
<1>3. AwaitedAreKnown'
  BY <1>1 DEF LifeInv, AwaitedAreKnown
<1>. QED BY <1>1, <1>2, <1>3, ClientStep

\* The holder finds a daemon up, starts none, or is done waiting.
LEMMA SpawnEndsStep ==
    \A c \in Clients : LifeInv /\ (FoundUp(c) \/ StartFails(c) \/ ComesUp(c) \/ GivesUp(c)) => LifeInv'
<1> SUFFICES ASSUME NEW c \in Clients, LifeInv, FoundUp(c) \/ StartFails(c) \/ ComesUp(c) \/ GivesUp(c)
             PROVE  LifeInv'
  OBVIOUS
<1> USE LifeDistinct
<1>0. /\ client \in [Clients -> ClientRec] /\ client[c] \in ClientRec /\ NoClient \in ClientRec
      /\ torn \in BOOLEAN
  BY DEF LifeInv, LifeTypeOK, ClientRec, NoClient, ClientPc
<1>1. client[c].pc \in {"ping", "await"} /\ UNCHANGED <<path, daemon>>
  BY DEF FoundUp, StartFails, ComesUp, GivesUp
<1>2. flock = c /\ flock' = Nobody
  BY <1>1 DEF LifeInv, LifeTypeOK, FoundUp, StartFails, ComesUp, GivesUp, Unlock
<1> DEFINE onward == [client[c] EXCEPT !.pc = client[c].next]
           arrived == [client[c] EXCEPT !.pc = client[c].next, !.to = Nobody]
           failed == IF client[c].next = "last" THEN [client[c] EXCEPT !.pc = "cut", !.to = Nobody] ELSE NoClient
<1>3. /\ onward \in ClientRec /\ arrived \in ClientRec /\ failed \in ClientRec
      /\ onward.pc \in {"dial", "last"} /\ arrived.pc \in {"dial", "last"} /\ failed.pc \in {"cut", "off"}
  BY <1>0 DEF ClientRec, ClientPc, NoClient
<1>4. CASE FoundUp(c)
  <2>1. client' = [client EXCEPT ![c] = onward] /\ torn' = torn /\ client[c].pc = "ping"
    BY <1>4 DEF FoundUp, Go
  <2>. QED BY <1>0, <1>1, <1>2, <1>3, <2>1, ReleaseStep
<1>5. CASE StartFails(c)
  <2>1. client' = [client EXCEPT ![c] = failed] /\ torn' = torn /\ client[c].pc = "ping"
    BY <1>5 DEF StartFails, Fail
  <2>. QED BY <1>0, <1>1, <1>2, <1>3, <2>1, ReleaseStep
<1>6. CASE ComesUp(c)
  <2>1. client' = [client EXCEPT ![c] = arrived] /\ torn' = torn /\ Answers
    BY <1>6 DEF ComesUp
  <2>2. ASSUME ~torn, client[c].pc = "await" PROVE daemon[client[c].to].pc \notin Starting
    <3>1. client[c].to \in Daemons
      BY <2>2 DEF LifeInv, AwaitedAreKnown
    <3>. QED BY <2>1, <2>2, <3>1, OneStarts
  <2>. QED BY <1>0, <1>1, <1>2, <1>3, <2>1, <2>2, ReleaseStep
<1>7. CASE GivesUp(c)
  <2>1. /\ client' = [client EXCEPT ![c] = failed]
        /\ torn' = (torn \/ daemon[client[c].to].pc \in Starting)
    BY <1>7 DEF GivesUp, Fail
  <2>. QED BY <1>0, <1>1, <1>2, <1>3, <2>1, ReleaseStep
<1>. QED BY <1>4, <1>5, <1>6, <1>7

\* A client ends; what it had locked is unlocked.
LEMMA ProcessEndsStep == \A c \in Clients : LifeInv /\ ProcessEnds(c) => LifeInv'
<1> SUFFICES ASSUME NEW c \in Clients, LifeInv, ProcessEnds(c) PROVE LifeInv'
  OBVIOUS
<1> USE LifeDistinct
<1>0. /\ NoClient \in ClientRec /\ NoClient.pc = "off" /\ torn \in BOOLEAN
  BY DEF LifeInv, LifeTypeOK, ClientRec, NoClient, ClientPc
<1>1. /\ client' = [client EXCEPT ![c] = NoClient] /\ UNCHANGED <<path, daemon>>
      /\ torn' = (torn \/ (client[c].pc = "await" /\ daemon[client[c].to].pc \in Starting))
      /\ flock' = IF flock = c THEN Nobody ELSE flock
  BY DEF ProcessEnds
<1>2. CASE flock = c
  BY <1>0, <1>1, <1>2, ReleaseStep
<1>3. CASE flock # c
  <2>1. client[c].pc \notin {"ping", "await"}
    BY <1>3 DEF LifeInv, LifeTypeOK
  <2>2. UNCHANGED <<path, flock, daemon, torn>>
    BY <1>0, <1>1, <1>3, <2>1
  <2>. QED BY <1>0, <1>1, <2>1, <2>2, ClientMoves
<1>. QED BY <1>2, <1>3

\* The holder starts a daemon: none is starting, and none serves.
LEMMA StartStep == \A c \in Clients : LifeInv /\ StartDaemon(c) => LifeInv'
<1> SUFFICES ASSUME NEW c \in Clients, LifeInv, StartDaemon(c) PROVE LifeInv'
  OBVIOUS
<1> USE LifeDistinct
<1>0. client \in [Clients -> ClientRec] /\ client[c] \in ClientRec
  BY DEF LifeInv, LifeTypeOK, ClientRec
<1>1. PICK d \in Daemons :
         /\ daemon' = [daemon EXCEPT ![d] = [pc |-> "boot", ver |-> client[c].ver]]
         /\ client' = [client EXCEPT ![c].pc = "await", ![c].to = d]
  BY DEF StartDaemon
<1>2. client[c].pc = "ping" /\ ~Answers /\ UNCHANGED <<path, flock, torn>>
  BY DEF StartDaemon
<1>3. /\ daemon' \in [Daemons -> [pc : DaemonPc, ver : Versions \cup {Nobody}]]
      /\ \A e \in Daemons : daemon'[e].pc = IF e = d THEN "boot" ELSE daemon[e].pc
  BY <1>0, <1>1 DEF LifeInv, LifeTypeOK, ClientRec, DaemonPc, Starting
<1>4. /\ client' \in [Clients -> ClientRec]
      /\ \A b \in Clients : /\ client'[b].pc = IF b = c THEN "await" ELSE client[b].pc
                            /\ client'[b].to = IF b = c THEN d ELSE client[b].to
  BY <1>0, <1>1 DEF ClientRec, ClientPc
<1>5. LifeTypeOK'
  BY <1>2, <1>3, <1>4 DEF LifeInv, LifeTypeOK, ClientRec
<1>6. AwaitedAreKnown'
  BY <1>4 DEF LifeInv, AwaitedAreKnown
<1>7. ASSUME ~torn
      PROVE  \A e \in Daemons : daemon[e].pc \notin Starting /\ daemon[e].pc \notin Serving
  <2>1. \A b \in Clients : client[b].pc # "await"
    BY <1>2 DEF LifeInv, LifeTypeOK
  <2>2. \A e \in Daemons : daemon[e].pc \notin Starting
    BY <1>7, <2>1 DEF LifeInv, StartersAreAwaited
  <2>3. \A e \in Daemons : daemon[e].pc \notin Serving
    BY <1>2, <1>7 DEF LifeInv, FileLeadsToTheDaemon, Up, Answers
  <2>. QED BY <2>2, <2>3
<1>8. FileLeadsToTheDaemon' /\ StartersAreAwaited'
  BY <1>2, <1>3, <1>4, <1>7 DEF FileLeadsToTheDaemon, StartersAreAwaited, Up, Serving, Starting
<1>. QED BY <1>5, <1>6, <1>8 DEF LifeInv

-----------------------------------------------------------------------------
(* The daemons.                                                             *)

\* A daemon goes from one place to another.
LEMMA TurnEffect ==
    ASSUME LifeInv, NEW d \in Daemons, NEW l \in DaemonPc, Turn(d, l)
    PROVE  /\ daemon' \in [Daemons -> [pc : DaemonPc, ver : Versions \cup {Nobody}]]
           /\ \A e \in Daemons : daemon'[e].pc = IF e = d THEN l ELSE daemon[e].pc
BY DEF Turn, Gone, LifeInv, LifeTypeOK

\* The daemon's connections are closed; who waits or asks for one is not touched.
LEMMA HangupEffect ==
    ASSUME LifeInv, NEW d \in Daemons, Hangup(d)
    PROVE  /\ client' \in [Clients -> ClientRec]
           /\ \A c \in Clients : \/ client'[c] = client[c]
                                 \/ client[c].pc = "on" /\ client'[c].pc = "cut"
<1>1. \A c \in Clients : client'[c] = IF c \in Conns(d) /\ client[c].pc = "on"
                            THEN [client[c] EXCEPT !.pc = "cut", !.to = Nobody] ELSE client[c]
  BY DEF Hangup
<1>2. ASSUME NEW c \in Clients
      PROVE  /\ client[c] \in ClientRec
             /\ [client[c] EXCEPT !.pc = "cut", !.to = Nobody] \in ClientRec
             /\ [client[c] EXCEPT !.pc = "cut", !.to = Nobody].pc = "cut"
  <2>1. client[c] \in ClientRec
    BY DEF LifeInv, LifeTypeOK, ClientRec
  <2>. QED BY <2>1 DEF ClientRec, ClientPc
<1>3. client' = [c \in Clients |-> client'[c]]
  BY DEF Hangup
<1>. QED BY <1>1, <1>2, <1>3

\* A daemon that comes to serve has the file, and takes it from nobody who serves.
LEMMA DaemonMoves ==
    ASSUME LifeInv, NEW d \in Daemons, NEW l \in DaemonPc, Turn(d, l),
           path' \in Daemons \cup {Nobody}, UNCHANGED <<flock, torn>>, Hangup(d) \/ UNCHANGED client,
           l \in Starting => daemon[d].pc \in Starting,
           ~torn /\ l \in Serving => path' = d /\ daemon[d].pc \in Starting \cup Serving,
           ~torn /\ path' # path => \A e \in Daemons : e # d => daemon[e].pc \notin Serving
    PROVE  LifeInv'
<1> USE LifeDistinct
<1>2. /\ daemon' \in [Daemons -> [pc : DaemonPc, ver : Versions \cup {Nobody}]]
      /\ \A e \in Daemons : daemon'[e].pc = IF e = d THEN l ELSE daemon[e].pc
  BY TurnEffect
<1>4. /\ client' \in [Clients -> ClientRec]
      /\ \A c \in Clients : client'[c] = client[c] \/ (client[c].pc = "on" /\ client'[c].pc = "cut")
  BY HangupEffect DEF LifeInv, LifeTypeOK, ClientRec
<1>5. LifeTypeOK'
  BY <1>2, <1>4 DEF LifeInv, LifeTypeOK, ClientRec
<1>6. AwaitedAreKnown'
  BY <1>4 DEF LifeInv, AwaitedAreKnown
<1>7. FileLeadsToTheDaemon'
  <2> SUFFICES ASSUME ~torn, NEW e \in Daemons, daemon'[e].pc \in Serving PROVE path' = e
    BY DEF FileLeadsToTheDaemon, Up
  <2>1. CASE e = d
    BY <1>2, <2>1
  <2>2. CASE e # d
    BY <1>2, <2>2 DEF LifeInv, FileLeadsToTheDaemon, Up
  <2>. QED BY <2>1, <2>2
<1>8. StartersAreAwaited'
  <2> SUFFICES ASSUME ~torn, NEW e \in Daemons, daemon'[e].pc \in Starting
               PROVE  /\ \A f \in Daemons : daemon'[f].pc \notin Serving
                      /\ \E c \in Clients : client'[c].pc = "await" /\ client'[c].to = e
    BY DEF StartersAreAwaited, Up
  <2>1. daemon[e].pc \in Starting
    BY <1>2
  <2>2. /\ \E c \in Clients : client[c].pc = "await" /\ client[c].to = e
        /\ \A f \in Daemons : daemon[f].pc \in Starting => f = e
        /\ \A f \in Daemons : daemon[f].pc \notin Serving
    BY <2>1, OneStarts
  <2>3. l \notin Serving
    BY <1>2, <2>2 DEF Serving, Starting
  <2>. QED BY <1>2, <1>4, <2>2, <2>3
<1>. QED BY <1>5, <1>6, <1>7, <1>8 DEF LifeInv

\* Whatever a daemon does, or is done to it.
LEMMA DaemonNextStep == \A d \in Daemons : LifeInv /\ DaemonNext(d) => LifeInv'
<1> SUFFICES ASSUME NEW d \in Daemons, LifeInv, DaemonNext(d) PROVE LifeInv'
  OBVIOUS
<1> USE LifeDistinct
<1>0. path \in Daemons \cup {Nobody} /\ "gone" \in DaemonPc \ (Starting \cup Serving)
  BY DEF LifeInv, LifeTypeOK, DaemonPc, Starting, Serving
<1>1. ASSUME ~torn, daemon[d].pc \in Starting
      PROVE  \A e \in Daemons : daemon[e].pc \notin Serving
  BY <1>1, OneStarts
<1>2. CASE Prepare(d)
  <2>1. Turn(d, "bind") /\ "bind" \in DaemonPc \cap Starting /\ daemon[d].pc \in Starting /\ "bind" \notin Serving
    BY <1>2 DEF Prepare, DaemonPc, Starting, Serving
  <2>. QED BY <1>0, <1>2, <2>1, DaemonMoves DEF Prepare
<1>3. CASE Bind(d)
  <2>1. daemon[d].pc \in Starting /\ UNCHANGED <<flock, client, torn>>
    BY <1>3 DEF Bind, Starting
  <2>2. CASE path = Nobody /\ path' = d /\ Turn(d, "serving")
    <3>1. "serving" \in DaemonPc /\ "serving" \notin Starting
      BY DEF DaemonPc, Starting, Serving
    <3>. QED BY <1>0, <1>1, <2>1, <2>2, <3>1, DaemonMoves
  <2>3. CASE UNCHANGED path /\ Turn(d, "probe")
    <3>1. "probe" \in DaemonPc /\ "probe" \notin Serving
      BY DEF DaemonPc, Starting, Serving
    <3>. QED BY <1>0, <2>1, <2>3, <3>1, DaemonMoves
  <2>4. CASE UNCHANGED path /\ Turn(d, "gone")
    BY <1>0, <2>1, <2>4, DaemonMoves
  <2>. QED BY <1>3, <2>2, <2>3, <2>4 DEF Bind
<1>4. CASE Probe(d)
  <2>1. daemon[d].pc \in Starting /\ UNCHANGED <<path, flock, client, torn>>
    BY <1>4 DEF Probe, Starting
  <2>2. "unlink" \in DaemonPc /\ "unlink" \notin Serving
    BY DEF DaemonPc, Starting, Serving
  <2>3. Turn(d, "gone") \/ Turn(d, "unlink")
    BY <1>4 DEF Probe
  <2>. QED BY <1>0, <2>1, <2>2, <2>3, DaemonMoves
<1>5. CASE Unlink(d)
  <2>1. /\ daemon[d].pc \in Starting /\ UNCHANGED <<flock, client, torn>>
        /\ path' = Nobody /\ Turn(d, "rebind")
    BY <1>5 DEF Unlink, Starting
  <2>2. "rebind" \in DaemonPc /\ "rebind" \notin Serving
    BY DEF DaemonPc, Starting, Serving
  <2>. QED BY <1>0, <1>1, <2>1, <2>2, DaemonMoves
<1>6. CASE IdleExit(d)
  <2>1. /\ daemon[d].pc = "serving" /\ Turn(d, "leaving") /\ UNCHANGED <<path, flock, client, torn>>
        /\ "leaving" \in DaemonPc /\ "leaving" \notin Starting /\ "serving" \in Serving
    BY <1>6 DEF IdleExit, DaemonPc, Starting, Serving
  <2>2. ~torn => path = d
    BY <2>1 DEF LifeInv, FileLeadsToTheDaemon, Up
  <2>. QED BY <1>0, <2>1, <2>2, DaemonMoves
<1>7. CASE Close(d)
  <2>1. /\ daemon[d].pc = "leaving" /\ Turn(d, "closing") /\ path' = Nobody /\ UNCHANGED <<flock, client, torn>>
        /\ "closing" \in DaemonPc /\ "closing" \notin Starting \cup Serving /\ "leaving" \in Serving
    BY <1>7 DEF Close, DaemonPc, Starting, Serving
  <2>2. ~torn => \A e \in Daemons : e # d => daemon[e].pc \notin Serving
    BY <2>1 DEF LifeInv, FileLeadsToTheDaemon, Up
  <2>. QED BY <1>0, <2>1, <2>2, DaemonMoves
<1>8. CASE Exit(d) \/ Crash(d)
  <2>1. Turn(d, "gone") /\ Hangup(d) /\ UNCHANGED <<path, flock, torn>>
    BY <1>8 DEF Exit, Crash
  <2>. QED BY <1>0, <2>1, DaemonMoves
<1>. QED BY <1>2, <1>3, <1>4, <1>5, <1>6, <1>7, <1>8 DEF DaemonNext

-----------------------------------------------------------------------------
LEMMA NextLifeInv == LifeInv /\ [LifeNext]_lifeVars => LifeInv'
<1> SUFFICES ASSUME LifeInv, [LifeNext]_lifeVars PROVE LifeInv'
  OBVIOUS
<1>1. CASE UNCHANGED lifeVars
  BY <1>1 DEF lifeVars, LifeInv, LifeTypeOK, FileLeadsToTheDaemon, StartersAreAwaited, AwaitedAreKnown, Up
<1>2. ASSUME NEW c \in Clients, ClientNext(c) PROVE LifeInv'
  BY <1>2, MovesStep, HelloStep, RemoveStep, LockStep, SpawnEndsStep, StartStep, ProcessEndsStep
     DEF ClientNext, Spawning
<1>3. ASSUME NEW d \in Daemons, DaemonNext(d) PROVE LifeInv'
  BY <1>3, DaemonNextStep
<1>. QED BY <1>1, <1>2, <1>3 DEF LifeNext

\* Whatever is killed and whichever builds meet, the socket file leads to the
\* daemon that serves, until the spawn lock is undermined (client.go:93).
THEOREM DaemonIsAlwaysFound == LifeSpec => []DaemonIsFound
<1>1. LifeInv => DaemonIsFound
  BY DEF DaemonIsFound
<1>. QED BY <1>1, InitLifeInv, NextLifeInv, PTL DEF LifeSpec

\* Two daemons own the database only after the spawn lock has been undermined.
THEOREM TwoDaemonsOnlyWhenTorn == LifeSpec => [](torn \/ OneDaemon)
<1>1. LifeInv => torn \/ OneDaemon
  BY DEF LifeInv, FileLeadsToTheDaemon, OneDaemon, Up
<1>. QED BY <1>1, InitLifeInv, NextLifeInv, PTL DEF LifeSpec


-----------------------------------------------------------------------------
(* The bytes of a session lie in one line: what the owner has got, the      *)
(* events, the batch, the chunks, what is left on the terminal.             *)

\* d is what was printed from byte x + 1 to byte y.
Spans(d, x, y) == d \in Seq(Nat) /\ Len(d) = y - x /\ \A k \in 1 .. Len(d) : d[k] = x + k
\* The pieces of s are, one behind the other.
Chain(s, x, y) ==
    \E c \in [0 .. Len(s) -> Nat] :
        c[0] = x /\ c[Len(s)] = y /\ \A k \in 1 .. Len(s) : Spans(s[k], c[k - 1], c[k])
DataOf(events) == [k \in 1 .. Len(events) |-> events[k].data]

Event == [done : BOOLEAN, data : Seq(Nat)]
MuxRec == [id : MuxIds, process : BOOLEAN, printed : Nat, pty : Seq(Nat), reader : BOOLEAN, chunks : Seq(Seq(Nat)),
           batch : Seq(Nat), collector : {"collect", "flush", "wait", "done", "closed"}, alive : BOOLEAN,
           events : Seq(Event), exited : BOOLEAN, cancelled : BOOLEAN, got : Seq(Nat), ended : BOOLEAN]

Collecting(m) == m.collector \in {"collect", "flush"}
\* Nothing is lost but what comes behind a kill.
InLine(m, x, y, z) ==
    /\ Spans(m.got, 0, Len(m.got)) /\ Chain(DataOf(m.events), Len(m.got), x)
    /\ Collecting(m) => Spans(m.batch, x, y) /\ Chain(m.chunks, y, z) /\ Spans(m.pty, z, m.printed)
    /\ ~Collecting(m) /\ ~m.cancelled => x = m.printed
\* Who has left, and why.
Leaving(m) ==
    /\ ~m.cancelled /\ ~m.reader => ~m.process /\ m.pty = <<>>
    /\ ~m.cancelled /\ ~Collecting(m) => ~m.reader
    /\ m.exited <=> m.collector \in {"done", "closed"}
    /\ m.exited => ~m.process
    /\ ~m.alive => m.cancelled
    /\ \A k \in 1 .. Len(m.events) : m.events[k].done => k = Len(m.events) /\ m.collector = "closed"
    /\ m.ended => m.events = <<>> /\ m.collector = "closed"
MuxSound(m) == m \in MuxRec /\ Leaving(m) /\ \E x, y, z \in Nat : InLine(m, x, y, z)

LEMMA NothingSpans == ASSUME NEW x \in Nat PROVE Spans(<<>>, x, x)
BY DEF Spans

LEMMA SpansJoin ==
    ASSUME NEW x \in Nat, NEW y \in Nat, NEW z \in Nat, NEW d, NEW e, Spans(d, x, y), Spans(e, y, z)
    PROVE  Spans(d \o e, x, z)
BY DEF Spans

LEMMA SpansSplit ==
    ASSUME NEW x \in Nat, NEW z \in Nat, NEW d, Spans(d, x, z), NEW n \in 1 .. Len(d)
    PROVE  /\ x + n \in Nat /\ Spans(SubSeq(d, 1, n), x, x + n)
           /\ Spans(SubSeq(d, n + 1, Len(d)), x + n, z)
BY DEF Spans

LEMMA SpansGrows ==
    ASSUME NEW x \in Nat, NEW z \in Nat, NEW d, Spans(d, x, z)
    PROVE  Spans(Append(d, z + 1), x, z + 1)
BY DEF Spans

LEMMA SpansIsPlace ==
    ASSUME NEW x \in Nat, NEW z \in Nat, Spans(<<>>, x, z)
    PROVE  x = z
BY DEF Spans

LEMMA ChainEnds ==
    ASSUME NEW s, NEW x, NEW y, s \in Seq(Seq(Nat)), Chain(s, x, y)
    PROVE  x \in Nat /\ y \in Nat /\ (s = <<>> => x = y)
BY DEF Chain

LEMMA NothingChains == ASSUME NEW x \in Nat PROVE Chain(<<>>, x, x)
<1> DEFINE c == [k \in 0 .. 0 |-> x]
<1>1. Len(<<>>) = 0 /\ c \in [0 .. 0 -> Nat] /\ c[0] = x
  OBVIOUS
<1>2. \A k \in 1 .. 0 : FALSE
  OBVIOUS
<1> HIDE DEF c
<1>. QED BY <1>1, <1>2 DEF Chain

LEMMA ChainGrows ==
    ASSUME NEW s \in Seq(Seq(Nat)), NEW d \in Seq(Nat), NEW x, NEW y, NEW z \in Nat, Chain(s, x, y), Spans(d, y, z)
    PROVE  Chain(Append(s, d), x, z)
<1>1. PICK c \in [0 .. Len(s) -> Nat] : c[0] = x /\ c[Len(s)] = y /\ \A k \in 1 .. Len(s) : Spans(s[k], c[k - 1], c[k])
  BY DEF Chain
<1> DEFINE n == Len(s)
           e == [k \in 0 .. n + 1 |-> IF k = n + 1 THEN z ELSE c[k]]
<1>2. n \in Nat /\ Len(Append(s, d)) = n + 1 /\ Append(s, d)[n + 1] = d /\ \A k \in 1 .. n : Append(s, d)[k] = s[k]
  OBVIOUS
<1>3. e \in [0 .. n + 1 -> Nat] /\ e[n + 1] = z /\ \A k \in 0 .. n : e[k] = c[k]
  BY <1>2
<1> HIDE DEF e
<1>4. \A k \in 1 .. n : k \in 0 .. n /\ k - 1 \in 0 .. n
  BY <1>2
<1>5. \A k \in 1 .. n : Spans(Append(s, d)[k], e[k - 1], e[k])
  BY <1>1, <1>2, <1>3, <1>4
<1>6. Spans(Append(s, d)[n + 1], e[(n + 1) - 1], e[n + 1])
  <2>1. (n + 1) - 1 = n /\ n \in 0 .. n
    BY <1>2
  <2>2. e[n] = c[n] /\ c[n] = y
    BY <1>1, <1>3, <2>1
  <2>3. Spans(d, e[n], e[n + 1])
    BY <1>3, <2>2
  <2>. QED BY <1>2, <2>1, <2>3
<1>7. \A k \in 1 .. n + 1 : k \in 1 .. n \/ k = n + 1
  BY <1>2
<1>8. \A k \in 1 .. n + 1 : Spans(Append(s, d)[k], e[k - 1], e[k])
  BY <1>5, <1>6, <1>7
<1>9. e[0] = x
  BY <1>1, <1>2, <1>3
<1>. QED BY <1>2, <1>3, <1>8, <1>9 DEF Chain

LEMMA ChainShrinks ==
    ASSUME NEW s \in Seq(Seq(Nat)), s # <<>>, NEW x, NEW y, Chain(s, x, y)
    PROVE  \E z \in Nat : Spans(Head(s), x, z) /\ Chain(Tail(s), z, y)
<1>1. PICK c \in [0 .. Len(s) -> Nat] : c[0] = x /\ c[Len(s)] = y /\ \A k \in 1 .. Len(s) : Spans(s[k], c[k - 1], c[k])
  BY DEF Chain
<1> DEFINE n == Len(s) - 1
           e == [k \in 0 .. n |-> c[k + 1]]
<1>2. n \in Nat /\ Len(s) = n + 1 /\ Len(Tail(s)) = n /\ Head(s) = s[1] /\ \A k \in 1 .. n : Tail(s)[k] = s[k + 1]
  OBVIOUS
<1>3. e \in [0 .. n -> Nat] /\ \A k \in 0 .. n : e[k] = c[k + 1]
  BY <1>2
<1> HIDE DEF e
<1>4. \A k \in 1 .. n : k \in 0 .. n /\ k - 1 \in 0 .. n /\ (k - 1) + 1 = k /\ (k + 1) - 1 = k /\ k + 1 \in 1 .. Len(s)
  BY <1>2
<1>5. ASSUME NEW k \in 1 .. n PROVE Spans(Tail(s)[k], e[k - 1], e[k])
  <2>1. Spans(s[k + 1], c[(k + 1) - 1], c[k + 1])
    BY <1>1, <1>4
  <2>2. e[k - 1] = c[k] /\ e[k] = c[k + 1] /\ Tail(s)[k] = s[k + 1] /\ (k + 1) - 1 = k
    BY <1>2, <1>3, <1>4
  <2>. QED BY <2>1, <2>2
<1>6. Spans(Head(s), x, c[1]) /\ c[1] \in Nat
  <2>1. 1 \in 1 .. Len(s) /\ 1 \in 0 .. Len(s) /\ 1 - 1 = 0
    BY <1>2
  <2>. QED BY <1>1, <1>2, <2>1
<1>7. e[0] = c[1] /\ e[n] = y
  BY <1>1, <1>2, <1>3
<1>8. Chain(Tail(s), c[1], y)
  BY <1>2, <1>3, <1>5, <1>7 DEF Chain
<1>. QED BY <1>6, <1>8

LEMMA DataMoves ==
    ASSUME NEW ev \in Seq(Event)
    PROVE  /\ DataOf(ev) \in Seq(Seq(Nat)) /\ (ev = <<>> <=> DataOf(ev) = <<>>)
           /\ \A e \in Event : DataOf(Append(ev, e)) = Append(DataOf(ev), e.data)
           /\ ev # <<>> => /\ Head(ev) \in Event /\ Tail(ev) \in Seq(Event)
                           /\ Head(DataOf(ev)) = Head(ev).data /\ DataOf(Tail(ev)) = Tail(DataOf(ev))
<1>1. ASSUME NEW k \in 1 .. Len(ev) PROVE ev[k].data \in Seq(Nat)
  <2>1. ev[k] \in Event
    OBVIOUS
  <2>. QED BY <2>1 DEF Event
<1>2. DataOf(ev) \in Seq(Seq(Nat)) /\ Len(DataOf(ev)) = Len(ev)
  BY <1>1 DEF DataOf
<1>3. ASSUME NEW e \in Event PROVE DataOf(Append(ev, e)) = Append(DataOf(ev), e.data)
  <2>1. e.data \in Seq(Nat)
    BY DEF Event
  <2>2. Len(Append(ev, e)) = Len(ev) + 1 /\ \A k \in 1 .. Len(ev) + 1 : Append(ev, e)[k] = IF k = Len(ev) + 1 THEN e ELSE ev[k]
    OBVIOUS
  <2>3. DataOf(Append(ev, e)) = [k \in 1 .. Len(ev) + 1 |-> IF k = Len(ev) + 1 THEN e.data ELSE ev[k].data]
    BY <2>2 DEF DataOf
  <2>4. Append(DataOf(ev), e.data) = [k \in 1 .. Len(ev) + 1 |-> IF k = Len(ev) + 1 THEN e.data ELSE ev[k].data]
    BY <1>2, <2>1 DEF DataOf
  <2>. QED BY <2>3, <2>4
<1>4. ASSUME ev # <<>>
      PROVE  /\ Head(ev) \in Event /\ Tail(ev) \in Seq(Event)
             /\ Head(DataOf(ev)) = Head(ev).data /\ DataOf(Tail(ev)) = Tail(DataOf(ev))
  <2>1. Len(ev) >= 1 /\ Head(ev) = ev[1] /\ Len(Tail(ev)) = Len(ev) - 1 /\ \A k \in 1 .. Len(ev) - 1 : Tail(ev)[k] = ev[k + 1]
    BY <1>4
  <2>2. Head(DataOf(ev)) = Head(ev).data
    BY <1>2, <2>1 DEF DataOf
  <2>3. DataOf(Tail(ev)) = [k \in 1 .. Len(ev) - 1 |-> ev[k + 1].data]
    BY <2>1 DEF DataOf
  <2>4. Tail(DataOf(ev)) = [k \in 1 .. Len(ev) - 1 |-> ev[k + 1].data]
    BY <1>2, <2>1 DEF DataOf
  <2>5. Head(ev) \in Event /\ Tail(ev) \in Seq(Event)
    BY <1>4, <2>1
  <2>. QED BY <2>2, <2>3, <2>4, <2>5
<1>5. ev = <<>> <=> DataOf(ev) = <<>>
  BY <1>2
<1>. QED BY <1>2, <1>3, <1>4, <1>5
-----------------------------------------------------------------------------
(* What a step of a session, and a kill, do to it.                          *)

LEMMA DataOfNothing == <<>> \in Seq(Event) /\ DataOf(<<>>) = <<>> /\ Len(<<>>) = 0
<1>1. <<>> \in Seq(Event) /\ Len(<<>>) = 0
  OBVIOUS
<1>. QED BY <1>1, DataMoves

\* A session that has just started, or failed to.
LEMMA StartsSound ==
    ASSUME NEW id \in MuxIds
    PROVE  /\ MuxSound(NewSession(id)) /\ MuxSound(FailedSession(id))
           /\ NewSession(id).id = id /\ FailedSession(id).id = id
<1>1. MuxSound(NewSession(id)) /\ NewSession(id).id = id
  <2> DEFINE m == NewSession(id)
  <2>1. m \in MuxRec /\ m.id = id /\ m.got = <<>> /\ m.events = <<>> /\ m.batch = <<>> /\ m.chunks = <<>> /\ m.pty = <<>>
        /\ m.printed = 0 /\ m.collector = "collect" /\ m.reader /\ ~m.exited /\ m.alive /\ ~m.ended /\ ~m.cancelled
    BY DEF NewSession, MuxRec
  <2> HIDE DEF m
  <2>2. DataOf(<<>>) = <<>> /\ Len(<<>>) = 0
    BY DataOfNothing
  <2>3. Leaving(m)
    BY <2>1, <2>2 DEF Leaving, Collecting
  <2>4. Spans(<<>>, 0, 0) /\ Chain(<<>>, 0, 0)
    BY NothingSpans, NothingChains
  <2>5. InLine(m, 0, 0, 0)
    <3>1. Spans(m.got, 0, Len(m.got)) /\ Chain(DataOf(m.events), Len(m.got), 0)
      BY <2>1, <2>2, <2>4
    <3>2. Spans(m.batch, 0, 0) /\ Chain(m.chunks, 0, 0) /\ Spans(m.pty, 0, m.printed)
      BY <2>1, <2>4
    <3>. QED BY <2>1, <3>1, <3>2 DEF InLine, Collecting
  <2>. QED BY <2>1, <2>3, <2>5 DEF MuxSound, m
<1>2. MuxSound(FailedSession(id)) /\ FailedSession(id).id = id
  <2> DEFINE m == FailedSession(id)
             e == [done |-> FALSE, data |-> <<>>]
             d == [done |-> TRUE, data |-> <<>>]
  <2>0. <<>> \in Seq(Nat) /\ <<>> \in Seq(Seq(Nat)) /\ e \in Event /\ d \in Event /\ <<e, d>> \in Seq(Event)
        /\ e.data = <<>> /\ d.data = <<>> /\ ~e.done /\ d.done
    <3>1. e \in Event /\ d \in Event /\ e.data = <<>> /\ d.data = <<>> /\ ~e.done /\ d.done
      BY DEF Event
    <3> HIDE DEF e, d
    <3>. QED BY <3>1
  <2>1. m \in MuxRec /\ m.id = id /\ m.got = <<>> /\ m.events = <<e, d>> /\ m.pty = <<>> /\ ~m.process
        /\ m.printed = 0 /\ m.collector = "closed" /\ ~m.reader /\ m.exited /\ m.alive /\ ~m.ended /\ ~m.cancelled
    <3>1. m = [id |-> id, process |-> FALSE, printed |-> 0, pty |-> <<>>, reader |-> FALSE, chunks |-> <<>>, batch |-> <<>>,
               collector |-> "closed", alive |-> TRUE, events |-> <<e, d>>, exited |-> TRUE, cancelled |-> FALSE,
               got |-> <<>>, ended |-> FALSE]
      <4> DEFINE n == NewSession(id)
      <4>1. n = [id |-> id, process |-> TRUE, printed |-> 0, pty |-> <<>>, reader |-> TRUE, chunks |-> <<>>, batch |-> <<>>,
                 collector |-> "collect", alive |-> TRUE, events |-> <<>>, exited |-> FALSE, cancelled |-> FALSE,
                 got |-> <<>>, ended |-> FALSE]
        BY DEF NewSession
      <4>2. m = [n EXCEPT !.process = FALSE, !.reader = FALSE, !.collector = "closed", !.exited = TRUE, !.events = <<e, d>>]
        BY DEF FailedSession
      <4> HIDE DEF m, n, e, d
      <4>. QED BY <4>1, <4>2
    <3> HIDE DEF m, e, d
    <3>. QED BY <2>0, <3>1 DEF MuxRec
  <2> HIDE DEF m, e, d
  <2>2. e \in Event /\ d \in Event /\ m.events = Append(Append(<<>>, e), d) /\ e.data = <<>> /\ d.data = <<>>
    BY <2>0, <2>1
  <2>3. DataOf(<<>>) = <<>> /\ DataOf(Append(<<>>, e)) = Append(<<>>, <<>>)
        /\ DataOf(m.events) = Append(Append(<<>>, <<>>), <<>>)
    <3>1. <<>> \in Seq(Event) /\ Append(<<>>, e) \in Seq(Event)
      BY <2>2
    <3>2. DataOf(<<>>) = <<>>
      BY DataOfNothing
    <3>3. DataOf(Append(<<>>, e)) = Append(<<>>, <<>>)
      BY <2>2, <3>1, <3>2, DataMoves
    <3>. QED BY <2>2, <3>1, <3>2, <3>3, DataMoves
  <2>4. Leaving(m)
    <3>1. Len(m.events) = 2 /\ m.events[1] = e /\ m.events[2] = d
      BY <2>1
    <3>. QED BY <2>0, <2>1, <3>1 DEF Leaving, Collecting
  <2>5. Chain(DataOf(m.events), 0, 0)
    <3>1. Spans(<<>>, 0, 0) /\ Chain(<<>>, 0, 0) /\ <<>> \in Seq(Nat) /\ <<>> \in Seq(Seq(Nat))
      BY NothingSpans, NothingChains
    <3>2. Chain(Append(<<>>, <<>>), 0, 0)
      BY <3>1, ChainGrows, 0 \in Nat
    <3>3. Append(<<>>, <<>>) \in Seq(Seq(Nat))
      BY <3>1
    <3>4. Chain(Append(Append(<<>>, <<>>), <<>>), 0, 0)
      BY <3>1, <3>2, <3>3, ChainGrows, 0 \in Nat
    <3>. QED BY <2>3, <3>4
  <2>6. InLine(m, 0, 0, 0)
    <3>1. Spans(<<>>, 0, 0) /\ Len(<<>>) = 0
      BY NothingSpans
    <3>2. Spans(m.got, 0, Len(m.got)) /\ Chain(DataOf(m.events), Len(m.got), 0)
      BY <2>1, <2>5, <3>1
    <3>. QED BY <2>1, <3>2 DEF InLine, Collecting
  <2>. QED BY <2>1, <2>4, <2>6 DEF MuxSound, m
<1>. QED BY <1>1, <1>2

\* A kill: what is lost from now on has an excuse.
LEMMA KillSound ==
    ASSUME NEW m, MuxSound(m), ~m.exited
    PROVE  MuxSound([m EXCEPT !.cancelled = TRUE])
<1> DEFINE r == [m EXCEPT !.cancelled = TRUE]
<1>1. PICK x, y, z \in Nat : InLine(m, x, y, z)
  BY DEF MuxSound
<1>2. m \in MuxRec /\ Leaving(m)
  BY DEF MuxSound
<1>3. /\ r \in MuxRec /\ r.cancelled
      /\ \A f \in {"id", "process", "printed", "pty", "reader", "chunks", "batch", "collector", "alive", "events", "exited", "got", "ended"} : r[f] = m[f]
  BY <1>2 DEF MuxRec
<1> HIDE DEF r
<1>4. Leaving(r)
  BY <1>2, <1>3 DEF Leaving, Collecting
<1>5. InLine(r, x, y, z)
  BY <1>1, <1>3 DEF InLine, Collecting
<1>. QED BY <1>3, <1>4, <1>5 DEF MuxSound, r

\* The process prints a byte.
LEMMA PrintSound ==
    ASSUME NEW m, MuxSound(m), m.process
    PROVE  MuxSound([m EXCEPT !.printed = @ + 1, !.pty = Append(@, m.printed + 1)])
<1> DEFINE r == [m EXCEPT !.printed = @ + 1, !.pty = Append(@, m.printed + 1)]
<1>1. PICK x, y, z \in Nat : InLine(m, x, y, z)
  BY DEF MuxSound
<1>2. m \in MuxRec /\ Leaving(m)
  BY DEF MuxSound
<1>3. /\ r \in MuxRec /\ r.printed = m.printed + 1 /\ r.pty = Append(m.pty, m.printed + 1) /\ m.printed \in Nat
      /\ r.process = m.process /\ r.reader = m.reader /\ r.chunks = m.chunks /\ r.batch = m.batch /\ r.collector = m.collector
      /\ r.alive = m.alive /\ r.events = m.events /\ r.exited = m.exited /\ r.cancelled = m.cancelled /\ r.got = m.got /\ r.ended = m.ended
  <2>1. m.printed \in Nat /\ m.printed + 1 \in Nat /\ m.pty \in Seq(Nat)
    BY <1>2 DEF MuxRec
  <2>2. Append(m.pty, m.printed + 1) \in Seq(Nat)
    BY <2>1
  <2>. QED BY <1>2, <2>1, <2>2 DEF MuxRec
<1> HIDE DEF r
<1>4. ~m.cancelled => m.reader /\ Collecting(m)
  BY <1>2 DEF Leaving
<1>5. Leaving(r)
  BY <1>2, <1>3, <1>4 DEF Leaving, Collecting
<1>6. Spans(m.pty, z, m.printed) => Spans(r.pty, z, r.printed)
  BY <1>3, SpansGrows
<1>7. InLine(r, x, y, z)
  BY <1>1, <1>3, <1>4, <1>6 DEF InLine, Collecting
<1>. QED BY <1>3, <1>5, <1>7 DEF MuxSound, r

\* The process ends.
LEMMA EndSound ==
    ASSUME NEW m, MuxSound(m)
    PROVE  MuxSound([m EXCEPT !.process = FALSE])
<1> DEFINE r == [m EXCEPT !.process = FALSE]
<1>1. PICK x, y, z \in Nat : InLine(m, x, y, z)
  BY DEF MuxSound
<1>2. m \in MuxRec /\ Leaving(m)
  BY DEF MuxSound
<1>3. /\ r \in MuxRec /\ ~r.process /\ r.printed = m.printed /\ r.pty = m.pty
      /\ r.reader = m.reader /\ r.chunks = m.chunks /\ r.batch = m.batch /\ r.collector = m.collector
      /\ r.alive = m.alive /\ r.events = m.events /\ r.exited = m.exited /\ r.cancelled = m.cancelled /\ r.got = m.got /\ r.ended = m.ended
  BY <1>2 DEF MuxRec
<1> HIDE DEF r
<1>4. Leaving(r)
  BY <1>2, <1>3 DEF Leaving, Collecting
<1>5. InLine(r, x, y, z)
  BY <1>1, <1>3 DEF InLine, Collecting
<1>. QED BY <1>3, <1>4, <1>5 DEF MuxSound, r

\* The reader hands a chunk on.
LEMMA ReadSound ==
    ASSUME NEW m, MuxSound(m), m.reader, NEW n \in 1 .. Len(m.pty)
    PROVE  MuxSound([m EXCEPT !.chunks = Append(@, SubSeq(m.pty, 1, n)), !.pty = SubSeq(@, n + 1, Len(@))])
<1> DEFINE r == [m EXCEPT !.chunks = Append(@, SubSeq(m.pty, 1, n)), !.pty = SubSeq(@, n + 1, Len(@))]
<1>1. PICK x, y, z \in Nat : InLine(m, x, y, z)
  BY DEF MuxSound
<1>2. m \in MuxRec /\ Leaving(m)
  BY DEF MuxSound
<1>3. m.pty \in Seq(Nat) /\ m.chunks \in Seq(Seq(Nat)) /\ m.printed \in Nat
  BY <1>2 DEF MuxRec
<1>4. SubSeq(m.pty, 1, n) \in Seq(Nat) /\ SubSeq(m.pty, n + 1, Len(m.pty)) \in Seq(Nat)
  BY <1>3
<1>5. /\ r \in MuxRec /\ r.printed = m.printed /\ r.pty = SubSeq(m.pty, n + 1, Len(m.pty)) /\ r.chunks = Append(m.chunks, SubSeq(m.pty, 1, n))
      /\ r.process = m.process /\ r.reader = m.reader /\ r.batch = m.batch /\ r.collector = m.collector
      /\ r.alive = m.alive /\ r.events = m.events /\ r.exited = m.exited /\ r.cancelled = m.cancelled /\ r.got = m.got /\ r.ended = m.ended
  <2>1. Append(m.chunks, SubSeq(m.pty, 1, n)) \in Seq(Seq(Nat))
    BY <1>3, <1>4
  <2>. QED BY <1>2, <1>4, <2>1 DEF MuxRec
<1> HIDE DEF r
<1>6. Leaving(r)
  BY <1>2, <1>5 DEF Leaving, Collecting
<1>7. InLine(r, x, y, z + n)
  <2>1. Spans(m.pty, z, m.printed) => Spans(SubSeq(m.pty, 1, n), z, z + n) /\ Spans(r.pty, z + n, r.printed)
    BY <1>3, <1>5, SpansSplit
  <2>2. Spans(m.pty, z, m.printed) /\ Chain(m.chunks, y, z) => Chain(r.chunks, y, z + n)
    <3>1. z + n \in Nat
      OBVIOUS
    <3>. QED BY <1>3, <1>4, <1>5, <2>1, <3>1, ChainGrows
  <2>. QED BY <1>1, <1>2, <1>5, <2>1, <2>2 DEF InLine, Collecting, Leaving
<1>8. z + n \in Nat
  OBVIOUS
<1>. QED BY <1>5, <1>6, <1>7, <1>8 DEF MuxSound, r

\* The reader leaves.
LEMMA HangUpSound ==
    ASSUME NEW m, MuxSound(m), CanHangUp(m)
    PROVE  MuxSound([m EXCEPT !.reader = FALSE])
<1> DEFINE r == [m EXCEPT !.reader = FALSE]
<1>1. PICK x, y, z \in Nat : InLine(m, x, y, z)
  BY DEF MuxSound
<1>2. m \in MuxRec /\ Leaving(m)
  BY DEF MuxSound
<1>3. /\ r \in MuxRec /\ ~r.reader /\ r.printed = m.printed /\ r.pty = m.pty
      /\ r.process = m.process /\ r.chunks = m.chunks /\ r.batch = m.batch /\ r.collector = m.collector
      /\ r.alive = m.alive /\ r.events = m.events /\ r.exited = m.exited /\ r.cancelled = m.cancelled /\ r.got = m.got /\ r.ended = m.ended
  BY <1>2 DEF MuxRec
<1> HIDE DEF r
<1>4. Leaving(r)
  BY <1>2, <1>3 DEF Leaving, Collecting, CanHangUp
<1>5. InLine(r, x, y, z)
  BY <1>1, <1>3 DEF InLine, Collecting
<1>. QED BY <1>3, <1>4, <1>5 DEF MuxSound, r
\* A chunk joins the batch.
LEMMA TakeSound ==
    ASSUME NEW m, MuxSound(m), CanTake(m), NEW c \in {"collect", "flush"}
    PROVE  MuxSound([m EXCEPT !.batch = @ \o Head(m.chunks), !.chunks = Tail(@), !.collector = c])
<1> DEFINE r == [m EXCEPT !.batch = @ \o Head(m.chunks), !.chunks = Tail(@), !.collector = c]
<1>1. PICK x, y, z \in Nat : InLine(m, x, y, z)
  BY DEF MuxSound
<1>2. m \in MuxRec /\ Leaving(m) /\ m.collector = "collect" /\ m.chunks # <<>>
  BY DEF MuxSound, CanTake
<1>3. m.batch \in Seq(Nat) /\ m.chunks \in Seq(Seq(Nat))
  BY <1>2 DEF MuxRec
<1>4. Head(m.chunks) \in Seq(Nat) /\ Tail(m.chunks) \in Seq(Seq(Nat))
  BY <1>2, <1>3
<1>5. m.batch \o Head(m.chunks) \in Seq(Nat)
  BY <1>3, <1>4
<1>6. /\ r \in MuxRec /\ r.batch = m.batch \o Head(m.chunks) /\ r.chunks = Tail(m.chunks) /\ r.collector = c
      /\ r.process = m.process /\ r.reader = m.reader /\ r.printed = m.printed /\ r.pty = m.pty
      /\ r.alive = m.alive /\ r.events = m.events /\ r.exited = m.exited /\ r.cancelled = m.cancelled /\ r.got = m.got /\ r.ended = m.ended
  BY <1>2, <1>4, <1>5 DEF MuxRec
<1> HIDE DEF r
<1>7. Leaving(r)
  BY <1>2, <1>6 DEF Leaving, Collecting
<1>8. PICK w \in Nat : Spans(Head(m.chunks), y, w) /\ Chain(Tail(m.chunks), w, z)
  <2>1. Chain(m.chunks, y, z)
    BY <1>1, <1>2 DEF InLine, Collecting
  <2>. QED BY <1>2, <1>3, <2>1, ChainShrinks
<1>9. Spans(r.batch, x, w)
  <2>1. Spans(m.batch, x, y)
    BY <1>1, <1>2 DEF InLine, Collecting
  <2>. QED BY <1>6, <1>8, <2>1, SpansJoin
<1>10. InLine(r, x, w, z)
  BY <1>1, <1>2, <1>6, <1>8, <1>9 DEF InLine, Collecting
<1>. QED BY <1>6, <1>7, <1>10 DEF MuxSound, r

\* The timer of the batch.
LEMMA TickSound ==
    ASSUME NEW m, MuxSound(m), m.collector = "collect"
    PROVE  MuxSound([m EXCEPT !.collector = "flush"])
<1> DEFINE r == [m EXCEPT !.collector = "flush"]
<1>1. PICK x, y, z \in Nat : InLine(m, x, y, z)
  BY DEF MuxSound
<1>2. m \in MuxRec /\ Leaving(m)
  BY DEF MuxSound
<1>3. /\ r \in MuxRec /\ r.collector = "flush" /\ r.printed = m.printed /\ r.pty = m.pty
      /\ r.process = m.process /\ r.reader = m.reader /\ r.chunks = m.chunks /\ r.batch = m.batch
      /\ r.alive = m.alive /\ r.events = m.events /\ r.exited = m.exited /\ r.cancelled = m.cancelled /\ r.got = m.got /\ r.ended = m.ended
  BY <1>2 DEF MuxRec
<1> HIDE DEF r
<1>4. Leaving(r)
  BY <1>2, <1>3 DEF Leaving, Collecting
<1>5. InLine(r, x, y, z)
  BY <1>1, <1>3 DEF InLine, Collecting
<1>. QED BY <1>3, <1>4, <1>5 DEF MuxSound, r

\* A batch is sent, and the collector goes on, or waits for the process with
\* nothing left to read.
LEMMA FlushSound ==
    ASSUME NEW m, MuxSound(m), Collecting(m), NEW next \in {"collect", "wait"},
           next = "wait" => ~m.reader /\ m.chunks = <<>>
    PROVE  MuxSound(Flushes(m, next))
<1> DEFINE r == Flushes(m, next)
           e == [done |-> FALSE, data |-> m.batch]
<1>1. PICK x, y, z \in Nat : InLine(m, x, y, z)
  BY DEF MuxSound
<1>2. m \in MuxRec /\ Leaving(m)
  BY DEF MuxSound
<1>3. m.batch \in Seq(Nat) /\ m.events \in Seq(Event) /\ m.chunks \in Seq(Seq(Nat)) /\ m.got \in Seq(Nat) /\ m.pty \in Seq(Nat)
  BY <1>2 DEF MuxRec
<1>4. e \in Event /\ e.data = m.batch /\ ~e.done
  BY <1>3 DEF Event
<1>5. r = [m EXCEPT !.events = Append(@, e), !.batch = <<>>, !.collector = next]
  BY <1>2 DEF Flushes, Sends, MuxRec
<1> HIDE DEF r, e
<1>6. Append(m.events, e) \in Seq(Event)
  BY <1>3, <1>4
<1>7. /\ r \in MuxRec /\ r.batch = <<>> /\ r.events = Append(m.events, e) /\ r.collector = next
      /\ r.process = m.process /\ r.reader = m.reader /\ r.printed = m.printed /\ r.pty = m.pty /\ r.chunks = m.chunks
      /\ r.alive = m.alive /\ r.exited = m.exited /\ r.cancelled = m.cancelled /\ r.got = m.got /\ r.ended = m.ended
  <2>1. <<>> \in Seq(Nat) /\ next \in {"collect", "flush", "wait", "done", "closed"}
    OBVIOUS
  <2>. QED BY <1>2, <1>5, <1>6, <2>1 DEF MuxRec
<1>8. m.collector \in {"collect", "flush"} /\ ~m.exited /\ ~m.ended /\ \A k \in 1 .. Len(m.events) : ~m.events[k].done
  BY <1>2 DEF Leaving, Collecting
<1>9. \A k \in 1 .. Len(r.events) : ~r.events[k].done
  <2>1. \A k \in 1 .. Len(r.events) : (k \in 1 .. Len(m.events) /\ r.events[k] = m.events[k]) \/ r.events[k] = e
    BY <1>3, <1>4, <1>7
  <2>. QED BY <1>4, <1>8, <2>1
<1>10. Leaving(r)
  BY <1>2, <1>7, <1>8, <1>9 DEF Leaving, Collecting
<1>11. Chain(DataOf(m.events), Len(m.got), x) /\ Spans(m.batch, x, y)
  BY <1>1 DEF InLine
<1>12. Chain(DataOf(r.events), Len(r.got), y)
  <2>1. DataOf(r.events) = Append(DataOf(m.events), m.batch) /\ DataOf(m.events) \in Seq(Seq(Nat))
    BY <1>3, <1>4, <1>7, DataMoves
  <2>2. Chain(Append(DataOf(m.events), m.batch), Len(m.got), y)
    BY <1>3, <1>11, <2>1, ChainGrows
  <2>. QED BY <1>7, <2>1, <2>2
<1>13. Spans(r.batch, y, y)
  BY <1>7, NothingSpans
<1>14. next = "wait" /\ ~m.cancelled => y = m.printed
  <2>1. next = "wait" /\ ~m.cancelled => m.chunks = <<>> /\ m.pty = <<>>
    BY <1>2 DEF Leaving
  <2>2. Chain(m.chunks, y, z) /\ Spans(m.pty, z, m.printed)
    BY <1>1 DEF InLine
  <2>3. m.chunks = <<>> => y = z
    BY <1>3, <2>2, ChainEnds
  <2>4. m.pty = <<>> => z = m.printed
    <3>1. m.printed \in Nat
      BY <1>2 DEF MuxRec
    <3>. QED BY <2>2, <3>1, SpansIsPlace
  <2>. QED BY <2>1, <2>3, <2>4
<1>15. InLine(r, y, y, z)
  BY <1>1, <1>7, <1>12, <1>13, <1>14 DEF InLine, Collecting
<1>. QED BY <1>7, <1>10, <1>15 DEF MuxSound, r

\* The collector leaves without sending: killed, or with an empty batch and
\* nothing left to read.
LEMMA LeaveSound ==
    ASSUME NEW m, MuxSound(m), Collecting(m), NEW a \in BOOLEAN, ~a => m.cancelled,
           m.cancelled \/ (~m.reader /\ m.chunks = <<>> /\ m.batch = <<>>)
    PROVE  /\ MuxSound([m EXCEPT !.batch = <<>>, !.alive = IF a THEN @ ELSE FALSE, !.collector = "wait"])
<1> DEFINE r == [m EXCEPT !.batch = <<>>, !.alive = IF a THEN @ ELSE FALSE, !.collector = "wait"]
<1>1. PICK x, y, z \in Nat : InLine(m, x, y, z)
  BY DEF MuxSound
<1>2. m \in MuxRec /\ Leaving(m)
  BY DEF MuxSound
<1>3. m.chunks \in Seq(Seq(Nat)) /\ m.printed \in Nat
  BY <1>2 DEF MuxRec
<1>4. /\ r \in MuxRec /\ r.collector = "wait" /\ r.printed = m.printed /\ r.alive = (IF a THEN m.alive ELSE FALSE)
      /\ r.process = m.process /\ r.reader = m.reader /\ r.pty = m.pty
      /\ r.events = m.events /\ r.exited = m.exited /\ r.cancelled = m.cancelled /\ r.got = m.got /\ r.ended = m.ended
  <2>1. <<>> \in Seq(Nat) /\ m.alive \in BOOLEAN
    BY <1>2 DEF MuxRec
  <2>2. (IF a THEN m.alive ELSE FALSE) \in BOOLEAN
    BY <2>1
  <2>. QED BY <1>2, <2>1, <2>2 DEF MuxRec
<1> HIDE DEF r
<1>5. Leaving(r)
  BY <1>2, <1>4 DEF Leaving, Collecting
<1>6. ~m.cancelled => x = m.printed
  <2>1. ~m.cancelled => m.chunks = <<>> /\ m.pty = <<>> /\ m.batch = <<>>
    BY <1>2 DEF Leaving
  <2>2. Spans(m.batch, x, y) /\ Chain(m.chunks, y, z) /\ Spans(m.pty, z, m.printed)
    BY <1>1 DEF InLine
  <2>3. m.chunks = <<>> => y = z
    BY <1>3, <2>2, ChainEnds
  <2>4. (m.pty = <<>> => z = m.printed) /\ (m.batch = <<>> => x = y)
    BY <1>3, <2>2, SpansIsPlace
  <2>. QED BY <2>1, <2>3, <2>4
<1>7. InLine(r, x, y, z)
  BY <1>1, <1>4, <1>6 DEF InLine, Collecting
<1>. QED BY <1>4, <1>5, <1>7 DEF MuxSound, r

\* The process has been waited for.
LEMMA ReapSound ==
    ASSUME NEW m, MuxSound(m), CanReap(m)
    PROVE  MuxSound([m EXCEPT !.exited = TRUE, !.collector = IF m.alive THEN "done" ELSE "closed"])
<1> DEFINE r == [m EXCEPT !.exited = TRUE, !.collector = IF m.alive THEN "done" ELSE "closed"]
<1>1. PICK x, y, z \in Nat : InLine(m, x, y, z)
  BY DEF MuxSound
<1>2. m \in MuxRec /\ Leaving(m) /\ m.collector = "wait" /\ ~m.process
  BY DEF MuxSound, CanReap
<1>3. /\ r \in MuxRec /\ r.collector \in {"done", "closed"} /\ r.printed = m.printed /\ r.pty = m.pty /\ r.exited
      /\ r.process = m.process /\ r.reader = m.reader /\ r.chunks = m.chunks /\ r.batch = m.batch
      /\ r.alive = m.alive /\ r.events = m.events /\ r.cancelled = m.cancelled /\ r.got = m.got /\ r.ended = m.ended
  BY <1>2 DEF MuxRec
<1> HIDE DEF r
<1>4. Leaving(r)
  BY <1>2, <1>3 DEF Leaving, Collecting
<1>5. InLine(r, x, y, z)
  BY <1>1, <1>2, <1>3 DEF InLine, Collecting
<1>. QED BY <1>3, <1>4, <1>5 DEF MuxSound, r

\* The channel is closed, after the end was sent or, in a session that was
\* killed, without.
LEMMA CloseSound ==
    ASSUME NEW m, MuxSound(m), m.collector = "done"
    PROVE  /\ MuxSound([Sends(m, [done |-> TRUE, data |-> <<>>]) EXCEPT !.collector = "closed"])
           /\ MuxSound([m EXCEPT !.collector = "closed"])
<1>1. PICK x, y, z \in Nat : InLine(m, x, y, z)
  BY DEF MuxSound
<1>2. m \in MuxRec /\ Leaving(m)
  BY DEF MuxSound
<1>3. MuxSound([m EXCEPT !.collector = "closed"])
  <2> DEFINE r == [m EXCEPT !.collector = "closed"]
  <2>1. /\ r \in MuxRec /\ r.collector = "closed" /\ r.printed = m.printed /\ r.pty = m.pty /\ r.exited = m.exited
        /\ r.process = m.process /\ r.reader = m.reader /\ r.chunks = m.chunks /\ r.batch = m.batch
        /\ r.alive = m.alive /\ r.events = m.events /\ r.cancelled = m.cancelled /\ r.got = m.got /\ r.ended = m.ended
    BY <1>2 DEF MuxRec
  <2> HIDE DEF r
  <2>2. Leaving(r)
    BY <1>2, <2>1 DEF Leaving, Collecting
  <2>3. InLine(r, x, y, z)
    BY <1>1, <2>1 DEF InLine, Collecting
  <2>. QED BY <2>1, <2>2, <2>3 DEF MuxSound, r
<1>4. MuxSound([Sends(m, [done |-> TRUE, data |-> <<>>]) EXCEPT !.collector = "closed"])
  <2> DEFINE e == [done |-> TRUE, data |-> <<>>]
             r == [Sends(m, e) EXCEPT !.collector = "closed"]
  <2>1. m.events \in Seq(Event) /\ m.got \in Seq(Nat)
    BY <1>2 DEF MuxRec
  <2>2. e \in Event /\ e.data = <<>> /\ e.done
    BY DEF Event
  <2>3. r = [m EXCEPT !.events = Append(@, e), !.collector = "closed"]
    BY <1>2 DEF Sends, MuxRec
  <2> HIDE DEF r, e
  <2>4. Append(m.events, e) \in Seq(Event)
    BY <2>1, <2>2
  <2>5. /\ r \in MuxRec /\ r.collector = "closed" /\ r.printed = m.printed /\ r.pty = m.pty /\ r.exited = m.exited
        /\ r.process = m.process /\ r.reader = m.reader /\ r.chunks = m.chunks /\ r.batch = m.batch
        /\ r.alive = m.alive /\ r.events = Append(m.events, e) /\ r.cancelled = m.cancelled /\ r.got = m.got /\ r.ended = m.ended
    BY <1>2, <2>3, <2>4 DEF MuxRec
  <2>6. ~m.ended /\ \A k \in 1 .. Len(m.events) : ~m.events[k].done
    BY <1>2 DEF Leaving
  <2>7. \A k \in 1 .. Len(r.events) : r.events[k].done => k = Len(r.events)
    <3>1. \A k \in 1 .. Len(r.events) : k = Len(r.events) \/ (k \in 1 .. Len(m.events) /\ r.events[k] = m.events[k])
      BY <2>1, <2>2, <2>5
    <3>. QED BY <2>6, <3>1
  <2>8. Leaving(r)
    BY <1>2, <2>5, <2>6, <2>7 DEF Leaving, Collecting
  <2>9. Chain(DataOf(r.events), Len(r.got), x)
    <3>1. DataOf(r.events) = Append(DataOf(m.events), <<>>) /\ DataOf(m.events) \in Seq(Seq(Nat))
      BY <2>1, <2>2, <2>5, DataMoves
    <3>2. Chain(DataOf(m.events), Len(m.got), x) /\ Spans(<<>>, x, x) /\ <<>> \in Seq(Nat)
      BY <1>1, NothingSpans DEF InLine
    <3>3. Chain(Append(DataOf(m.events), <<>>), Len(m.got), x)
      BY <3>1, <3>2, ChainGrows
    <3>. QED BY <2>5, <3>1, <3>3
  <2>10. InLine(r, x, y, z)
    BY <1>1, <2>5, <2>9 DEF InLine, Collecting
  <2>. QED BY <2>5, <2>8, <2>10 DEF MuxSound, r, e
<1>. QED BY <1>3, <1>4

\* The owner takes an event.
LEMMA DrainSound ==
    ASSUME NEW m, MuxSound(m), m.events # <<>>
    PROVE  MuxSound([m EXCEPT !.events = Tail(@), !.got = @ \o Head(m.events).data, !.ended = @ \/ Head(m.events).done])
<1> DEFINE r == [m EXCEPT !.events = Tail(@), !.got = @ \o Head(m.events).data, !.ended = @ \/ Head(m.events).done]
           h == Head(m.events)
<1>1. PICK x, y, z \in Nat : InLine(m, x, y, z)
  BY DEF MuxSound
<1>2. m \in MuxRec /\ Leaving(m)
  BY DEF MuxSound
<1>3. m.events \in Seq(Event) /\ m.got \in Seq(Nat) /\ m.ended \in BOOLEAN
  BY <1>2 DEF MuxRec
<1>4. h \in Event /\ h.data \in Seq(Nat) /\ h.done \in BOOLEAN /\ Tail(m.events) \in Seq(Event)
  <2>1. h \in Event /\ Tail(m.events) \in Seq(Event)
    BY <1>3, DataMoves
  <2> HIDE DEF h
  <2>. QED BY <2>1 DEF Event
<1>5. m.got \o h.data \in Seq(Nat) /\ (m.ended \/ h.done) \in BOOLEAN
  BY <1>3, <1>4
<1>6. /\ r \in MuxRec /\ r.events = Tail(m.events) /\ r.got = m.got \o h.data /\ r.ended = (m.ended \/ h.done)
      /\ r.process = m.process /\ r.reader = m.reader /\ r.printed = m.printed /\ r.pty = m.pty /\ r.chunks = m.chunks
      /\ r.batch = m.batch /\ r.collector = m.collector
      /\ r.alive = m.alive /\ r.exited = m.exited /\ r.cancelled = m.cancelled
  BY <1>2, <1>4, <1>5 DEF MuxRec
<1>7. h = m.events[1] /\ Len(m.events) >= 1 /\ Len(Tail(m.events)) = Len(m.events) - 1
      /\ \A k \in 1 .. Len(Tail(m.events)) : k + 1 \in 1 .. Len(m.events) /\ Tail(m.events)[k] = m.events[k + 1]
  BY <1>3
<1> HIDE DEF r, h
<1>8. Leaving(r)
  <2>1. \A k \in 1 .. Len(m.events) : m.events[k].done => k = Len(m.events) /\ m.collector = "closed"
    BY <1>2 DEF Leaving
  <2>2. \A k \in 1 .. Len(r.events) : r.events[k].done => k = Len(r.events) /\ r.collector = "closed"
    BY <1>3, <1>6, <1>7, <2>1
  <2>3. h.done => m.collector = "closed" /\ Tail(m.events) = <<>>
    <3> DEFINE l == Len(m.events)
               u == Tail(m.events)
    <3>1. l \in Nat /\ 1 \in 1 .. l /\ u \in Seq(Event) /\ Len(u) = l - 1
      BY <1>3, <1>4, <1>7
    <3>2. h.done => 1 = l /\ m.collector = "closed"
      BY <1>7, <2>1, <3>1
    <3> HIDE DEF l, u
    <3>3. l = 1 => Len(u) = 0
      BY <3>1
    <3>4. l = 1 => u = <<>>
      BY <3>1, <3>3
    <3>. QED BY <3>2, <3>4 DEF u
  <2>4. ~m.ended
    BY <1>2 DEF Leaving
  <2>5. r.ended => r.events = <<>> /\ r.collector = "closed"
    BY <1>6, <2>3, <2>4
  <2>. QED BY <1>2, <1>6, <2>2, <2>5 DEF Leaving, Collecting
<1>9. DataOf(m.events) \in Seq(Seq(Nat)) /\ DataOf(m.events) # <<>> /\ Head(DataOf(m.events)) = h.data
      /\ DataOf(r.events) = Tail(DataOf(m.events))
  BY <1>3, <1>6, DataMoves DEF h
<1>10. Chain(DataOf(m.events), Len(m.got), x) /\ Spans(m.got, 0, Len(m.got))
  BY <1>1 DEF InLine
<1>11. PICK w \in Nat : Spans(h.data, Len(m.got), w) /\ Chain(DataOf(r.events), w, x)
  BY <1>9, <1>10, ChainShrinks
<1>12. Len(m.got) \in Nat /\ Len(r.got) = w
  <2>1. Len(r.got) = Len(m.got) + Len(h.data) /\ Len(m.got) \in Nat
    BY <1>3, <1>4, <1>6
  <2>2. Len(h.data) = w - Len(m.got)
    BY <1>11 DEF Spans
  <2>. QED BY <2>1, <2>2
<1>13. Spans(r.got, 0, w)
  BY <1>6, <1>10, <1>11, <1>12, SpansJoin
<1>14. InLine(r, x, y, z)
  BY <1>1, <1>6, <1>11, <1>12, <1>13 DEF InLine, Collecting
<1>. QED BY <1>6, <1>8, <1>14 DEF MuxSound, r, h
-----------------------------------------------------------------------------
(* All sessions, and where the manager files them.                          *)

MuxesInv ==
    /\ muxes \in Seq(MuxRec) /\ \A i \in DOMAIN muxes : MuxSound(muxes[i])
    /\ filedMux \in [MuxIds -> {NoSession} \cup Nat]
    /\ \A id \in MuxIds : filedMux[id] # NoSession => filedMux[id] \in DOMAIN muxes
    /\ NoneRunsUnknown

\* One session has changed, and keeps its id and what ends it.
LEMMA AtKeeps ==
    ASSUME MuxesInv, NEW i \in DOMAIN muxes, NEW r, MuxSound(r), r.id = muxes[i].id,
           ~r.exited /\ ~r.cancelled => ~muxes[i].exited /\ ~muxes[i].cancelled, At(i, r)
    PROVE  MuxesInv'
<1>1. muxes' = [muxes EXCEPT ![i] = r] /\ filedMux' = filedMux
  BY DEF At
<1>2. r \in MuxRec /\ muxes \in Seq(MuxRec)
  BY DEF MuxSound, MuxesInv
<1>3. muxes' \in Seq(MuxRec) /\ DOMAIN muxes' = DOMAIN muxes /\ \A j \in DOMAIN muxes : muxes'[j] = IF j = i THEN r ELSE muxes[j]
  BY <1>1, <1>2
<1>4. \A j \in DOMAIN muxes' : MuxSound(muxes'[j])
  BY <1>3 DEF MuxesInv
<1>5. NoneRunsUnknown'
  BY <1>1, <1>3 DEF MuxesInv, NoneRunsUnknown
<1>. QED BY <1>1, <1>3, <1>4, <1>5 DEF MuxesInv

LEMMA SessionKeeps ==
    ASSUME MuxesInv, NEW i \in DOMAIN muxes, OfSession(i)
    PROVE  MuxesInv'
<1> DEFINE m == muxes[i]
<1>1. MuxSound(m) /\ m \in MuxRec
  BY DEF MuxesInv, MuxSound
<1>2. CASE ProgramPrints(i)
  <2> DEFINE r == [m EXCEPT !.printed = @ + 1, !.pty = Append(@, m.printed + 1)]
  <2>1. m.process /\ At(i, r)
    BY <1>2 DEF ProgramPrints
  <2>2. r.id = m.id /\ r.exited = m.exited /\ r.cancelled = m.cancelled
    BY <1>1 DEF MuxRec
  <2>3. MuxSound(r)
    BY <1>1, <2>1, PrintSound
  <2> HIDE DEF r
  <2>. QED BY <2>1, <2>2, <2>3, AtKeeps
<1>3. CASE ProgramEnds(i)
  <2> DEFINE r == [m EXCEPT !.process = FALSE]
  <2>1. At(i, r)
    BY <1>3 DEF ProgramEnds
  <2>2. r.id = m.id /\ r.exited = m.exited /\ r.cancelled = m.cancelled
    BY <1>1 DEF MuxRec
  <2>3. MuxSound(r)
    BY <1>1, EndSound
  <2> HIDE DEF r
  <2>. QED BY <2>1, <2>2, <2>3, AtKeeps
<1>4. CASE Reads1(i)
  <2>1. m.reader
    BY <1>4 DEF Reads1, CanRead
  <2>2. PICK n \in 1 .. Len(m.pty) : At(i, [m EXCEPT !.chunks = Append(@, SubSeq(m.pty, 1, n)), !.pty = SubSeq(@, n + 1, Len(@))])
    BY <1>4 DEF Reads1
  <2> DEFINE r == [m EXCEPT !.chunks = Append(@, SubSeq(m.pty, 1, n)), !.pty = SubSeq(@, n + 1, Len(@))]
  <2>3. r.id = m.id /\ r.exited = m.exited /\ r.cancelled = m.cancelled
    BY <1>1 DEF MuxRec
  <2>4. MuxSound(r)
    BY <1>1, <2>1, ReadSound
  <2>5. At(i, r)
    BY <2>2
  <2> HIDE DEF r
  <2>. QED BY <2>3, <2>4, <2>5, AtKeeps
<1>5. CASE ReaderLeaves(i)
  <2> DEFINE r == [m EXCEPT !.reader = FALSE]
  <2>1. CanHangUp(m) /\ At(i, r)
    BY <1>5 DEF ReaderLeaves
  <2>2. r.id = m.id /\ r.exited = m.exited /\ r.cancelled = m.cancelled
    BY <1>1 DEF MuxRec
  <2>3. MuxSound(r)
    BY <1>1, <2>1, HangUpSound
  <2> HIDE DEF r
  <2>. QED BY <2>1, <2>2, <2>3, AtKeeps
<1>6. CASE TakeChunk(i)
  <2> DEFINE full == [m EXCEPT !.batch = @ \o Head(m.chunks), !.chunks = Tail(@)]
             c == IF Len(full.batch) >= BatchCap THEN "flush" ELSE "collect"
             r == [m EXCEPT !.batch = @ \o Head(m.chunks), !.chunks = Tail(@), !.collector = c]
  <2>1. CanTake(m) /\ At(i, [full EXCEPT !.collector = c])
    BY <1>6 DEF TakeChunk
  <2>2. c \in {"collect", "flush"}
    OBVIOUS
  <2> HIDE DEF c
  <2>3. [full EXCEPT !.collector = c] = r
    BY <1>1 DEF MuxRec
  <2>4. r.id = m.id /\ r.exited = m.exited /\ r.cancelled = m.cancelled
    BY <1>1 DEF MuxRec
  <2>5. MuxSound(r)
    BY <1>1, <2>1, <2>2, TakeSound
  <2>6. At(i, r)
    BY <2>1, <2>3
  <2> HIDE DEF r, full
  <2>. QED BY <2>4, <2>5, <2>6, AtKeeps
<1>7. CASE TickFlush(i)
  <2> DEFINE r == [m EXCEPT !.collector = "flush"]
  <2>1. m.collector = "collect" /\ At(i, r)
    BY <1>7 DEF TickFlush, CanTick
  <2>2. r.id = m.id /\ r.exited = m.exited /\ r.cancelled = m.cancelled
    BY <1>1 DEF MuxRec
  <2>3. MuxSound(r)
    BY <1>1, <2>1, TickSound
  <2> HIDE DEF r
  <2>. QED BY <2>1, <2>2, <2>3, AtKeeps
<1> DEFINE gone == [m EXCEPT !.batch = <<>>, !.alive = FALSE, !.collector = "wait"]
           left == [m EXCEPT !.batch = <<>>, !.collector = "wait"]
<1>8. ASSUME Collecting(m), NEW next \in {"collect", "wait"}, next = "wait" => NoneToCome(m), At(i, Flushes(m, next)) PROVE MuxesInv'
  <2>1. MuxSound(Flushes(m, next))
    BY <1>1, <1>8, FlushSound DEF NoneToCome
  <2>2. Flushes(m, next).id = m.id /\ Flushes(m, next).exited = m.exited /\ Flushes(m, next).cancelled = m.cancelled
    BY <1>1 DEF MuxRec, Flushes, Sends
  <2>. QED BY <1>8, <2>1, <2>2, AtKeeps
<1>9. ASSUME Collecting(m), m.cancelled, At(i, Abandons(m)) PROVE MuxesInv'
  <2> DEFINE r == [m EXCEPT !.batch = <<>>, !.alive = IF FALSE THEN @ ELSE FALSE, !.collector = "wait"]
  <2>1. r = Abandons(m) /\ r.id = m.id /\ r.exited = m.exited /\ r.cancelled = m.cancelled
    BY <1>1 DEF MuxRec, Abandons
  <2>2. MuxSound(r)
    BY <1>1, <1>9, FALSE \in BOOLEAN, LeaveSound
  <2> HIDE DEF r
  <2>. QED BY <1>9, <2>1, <2>2, AtKeeps
<1>10. ASSUME Collecting(m), m.cancelled \/ (NoneToCome(m) /\ m.batch = <<>>), At(i, left) PROVE MuxesInv'
  <2> DEFINE r == [m EXCEPT !.batch = <<>>, !.alive = IF TRUE THEN @ ELSE FALSE, !.collector = "wait"]
  <2>1. r = left /\ r.id = m.id /\ r.exited = m.exited /\ r.cancelled = m.cancelled
    BY <1>1 DEF MuxRec
  <2>2. MuxSound(r)
    BY <1>1, <1>10, TRUE \in BOOLEAN, LeaveSound DEF NoneToCome
  <2> HIDE DEF r, left
  <2>. QED BY <1>10, <2>1, <2>2, AtKeeps
<1>11. CASE Flush(i)
  <2>1. Collecting(m) /\ (At(i, Flushes(m, "collect")) \/ (m.cancelled /\ At(i, Abandons(m))))
    BY <1>11 DEF Flush, CanFlush, Collecting
  <2> HIDE DEF m
  <2>. QED BY <2>1, <1>8, <1>9
<1>12. CASE CollectorLeaves(i)
  <2>1. /\ Collecting(m)
        /\ \/ NoneToCome(m) /\ At(i, LastFlush(m))
           \/ NoneToCome(m) /\ m.cancelled /\ At(i, left)
           \/ m.cancelled /\ At(i, Abandons(m))
    BY <1>12 DEF CollectorLeaves, CanLeave, Collecting
  <2>2. LastFlush(m) = Flushes(m, "wait") \/ (m.batch = <<>> /\ LastFlush(m) = left)
    <3>1. m.batch = <<>> => left = [m EXCEPT !.collector = "wait"]
      BY <1>1 DEF MuxRec
    <3>. QED BY <3>1 DEF LastFlush
  <2> HIDE DEF m, left
  <2>. QED BY <2>1, <2>2, <1>8, <1>9, <1>10
<1>13. CASE Waits(i)
  <2> DEFINE r == [m EXCEPT !.exited = TRUE, !.collector = IF m.alive THEN "done" ELSE "closed"]
  <2>1. CanReap(m) /\ At(i, r)
    BY <1>13 DEF Waits
  <2>2. r.id = m.id /\ r.exited
    BY <1>1 DEF MuxRec
  <2>3. MuxSound(r)
    BY <1>1, <2>1, ReapSound
  <2> HIDE DEF r
  <2>. QED BY <2>1, <2>2, <2>3, AtKeeps
<1>14. CASE SendsDone(i)
  <2> DEFINE r == [Sends(m, [done |-> TRUE, data |-> <<>>]) EXCEPT !.collector = "closed"]
             q == [m EXCEPT !.collector = "closed"]
  <2>1. m.collector = "done" /\ (At(i, r) \/ At(i, q))
    BY <1>14 DEF SendsDone, CanSayDone
  <2>2. r.id = m.id /\ r.exited = m.exited /\ r.cancelled = m.cancelled
    BY <1>1 DEF MuxRec, Sends
  <2>3. q.id = m.id /\ q.exited = m.exited /\ q.cancelled = m.cancelled
    BY <1>1 DEF MuxRec
  <2>4. MuxSound(r) /\ MuxSound(q)
    BY <1>1, <2>1, CloseSound
  <2> HIDE DEF r, q
  <2>. QED BY <2>1, <2>2, <2>3, <2>4, AtKeeps
<1>15. CASE Drains(i)
  <2> DEFINE r == [m EXCEPT !.events = Tail(@), !.got = @ \o Head(m.events).data, !.ended = @ \/ Head(m.events).done]
  <2>1. m.events # <<>> /\ At(i, r)
    BY <1>15 DEF Drains
  <2>2. r.id = m.id /\ r.exited = m.exited /\ r.cancelled = m.cancelled
    BY <1>1 DEF MuxRec
  <2>3. MuxSound(r)
    BY <1>1, <2>1, DrainSound
  <2> HIDE DEF r
  <2>. QED BY <2>1, <2>2, <2>3, AtKeeps
<1>. QED BY <1>2, <1>3, <1>4, <1>5, <1>6, <1>7, <1>11, <1>12, <1>13, <1>14, <1>15 DEF OfSession, GoesOn

\* A session joins: the one its id named before is over.
LEMMA StartKeeps ==
    ASSUME MuxesInv, NEW id \in MuxIds, StartMux(id)
    PROVE  MuxesInv'
<1>1. PICK new \in {NewSession(id), FailedSession(id)} : muxes' = Append(muxes, new)
  BY DEF StartMux
<1>2. MuxSound(new) /\ new.id = id /\ new \in MuxRec
  <2>1. MuxSound(new) /\ new.id = id
    BY <1>1, StartsSound
  <2>. QED BY <2>1 DEF MuxSound
<1>3. filedMux' = [filedMux EXCEPT ![id] = Len(muxes) + 1] /\ ~LiveAt(id)
  BY DEF StartMux, NoneLives
<1>4. muxes \in Seq(MuxRec) /\ Len(muxes) \in Nat /\ NoSession \notin Nat
  BY MuxAssumption DEF MuxesInv
<1>5. /\ muxes' \in Seq(MuxRec) /\ DOMAIN muxes' = DOMAIN muxes \cup {Len(muxes) + 1} /\ muxes'[Len(muxes) + 1] = new
      /\ \A i \in DOMAIN muxes : muxes'[i] = muxes[i]
  BY <1>1, <1>2, <1>4
<1>6. \A i \in DOMAIN muxes' : MuxSound(muxes'[i])
  BY <1>2, <1>5 DEF MuxesInv
<1>7. filedMux' \in [MuxIds -> {NoSession} \cup Nat] /\ \A k \in MuxIds : filedMux'[k] = IF k = id THEN Len(muxes) + 1 ELSE filedMux[k]
  <2>1. filedMux \in [MuxIds -> {NoSession} \cup Nat] /\ Len(muxes) + 1 \in Nat
    BY <1>4 DEF MuxesInv
  <2>. QED BY <1>3, <2>1
<1>8. \A k \in MuxIds : filedMux'[k] # NoSession => filedMux'[k] \in DOMAIN muxes'
  BY <1>5, <1>7 DEF MuxesInv
<1>9. NoneRunsUnknown'
  <2> SUFFICES ASSUME NEW i \in DOMAIN muxes', ~muxes'[i].exited, ~muxes'[i].cancelled PROVE filedMux'[muxes'[i].id] = i
    BY DEF NoneRunsUnknown
  <2>1. CASE i = Len(muxes) + 1
    BY <1>2, <1>5, <1>7, <2>1
  <2>2. CASE i \in DOMAIN muxes
    <3>0. muxes'[i] = muxes[i] /\ muxes[i] \in MuxRec
      BY <1>5, <2>2 DEF MuxesInv, MuxSound
    <3>1. muxes'[i] = muxes[i] /\ filedMux[muxes[i].id] = i /\ muxes[i].id \in MuxIds
      BY <2>2, <3>0 DEF MuxesInv, NoneRunsUnknown, MuxRec
    <3>2. i # NoSession
      BY <1>4, <2>2
    <3>3. muxes[i].id # id
      BY <1>3, <3>1, <3>2 DEF LiveAt
    <3>. QED BY <1>7, <3>1, <3>3
  <2>. QED BY <1>5, <2>1, <2>2
<1>. QED BY <1>5, <1>6, <1>7, <1>8, <1>9 DEF MuxesInv

\* What a kill of some sessions leaves.
LEMMA KillsSound ==
    ASSUME MuxesInv, NEW S
    PROVE  /\ Killed1(S) \in Seq(MuxRec) /\ DOMAIN Killed1(S) = DOMAIN muxes
           /\ \A i \in DOMAIN muxes : /\ MuxSound(Killed1(S)[i]) /\ Killed1(S)[i].id = muxes[i].id
                                      /\ Killed1(S)[i].exited = muxes[i].exited
                                      /\ ~Killed1(S)[i].exited /\ ~Killed1(S)[i].cancelled => i \notin S /\ ~muxes[i].cancelled
<1>1. muxes \in Seq(MuxRec) /\ DOMAIN muxes = 1 .. Len(muxes) /\ Len(muxes) \in Nat
  BY DEF MuxesInv
<1>2. ASSUME NEW i \in DOMAIN muxes
      PROVE  /\ MuxSound(Killed1(S)[i]) /\ Killed1(S)[i] \in MuxRec /\ Killed1(S)[i].id = muxes[i].id
             /\ Killed1(S)[i].exited = muxes[i].exited
             /\ ~Killed1(S)[i].exited /\ ~Killed1(S)[i].cancelled => i \notin S /\ ~muxes[i].cancelled
  <2> DEFINE m == muxes[i]
             r == [m EXCEPT !.cancelled = TRUE]
  <2>1. MuxSound(m) /\ m \in MuxRec
    BY DEF MuxesInv, MuxSound
  <2>2. Killed1(S)[i] = IF i \in S /\ ~m.exited THEN r ELSE m
    BY DEF Killed1
  <2>3. ~m.exited => MuxSound(r)
    BY <2>1, KillSound
  <2>4. r \in MuxRec /\ r.id = m.id /\ r.exited = m.exited /\ r.cancelled
    BY <2>1 DEF MuxRec
  <2> HIDE DEF r, m
  <2>5. CASE i \in S /\ ~m.exited
    BY <2>1, <2>2, <2>3, <2>4, <2>5 DEF m
  <2>6. CASE ~(i \in S /\ ~m.exited)
    BY <2>1, <2>2, <2>6 DEF m
  <2>. QED BY <2>5, <2>6
<1>3. Killed1(S) \in [1 .. Len(muxes) -> MuxRec] /\ DOMAIN Killed1(S) = DOMAIN muxes
  BY <1>1, <1>2 DEF Killed1
<1>4. Killed1(S) \in Seq(MuxRec)
  BY <1>1, <1>3
<1>. QED BY <1>2, <1>3, <1>4

LEMMA DropKeeps ==
    ASSUME MuxesInv, NEW id \in MuxIds, Drop(id)
    PROVE  MuxesInv'
<1>1. /\ muxes' = Killed1({filedMux[id]}) /\ filedMux' = [filedMux EXCEPT ![id] = NoSession]
  BY DEF Drop, Kills
<1>2. /\ muxes' \in Seq(MuxRec) /\ DOMAIN muxes' = DOMAIN muxes
      /\ \A i \in DOMAIN muxes : /\ MuxSound(muxes'[i]) /\ muxes'[i].id = muxes[i].id /\ muxes'[i].exited = muxes[i].exited
                                 /\ ~muxes'[i].exited /\ ~muxes'[i].cancelled => i \notin {filedMux[id]} /\ ~muxes[i].cancelled
  BY <1>1, KillsSound
<1>3. /\ filedMux' \in [MuxIds -> {NoSession} \cup Nat]
      /\ \A k \in MuxIds : filedMux'[k] = IF k = id THEN NoSession ELSE filedMux[k]
  BY <1>1 DEF MuxesInv
<1>4. NoneRunsUnknown'
  <2> SUFFICES ASSUME NEW i \in DOMAIN muxes', ~muxes'[i].exited, ~muxes'[i].cancelled PROVE filedMux'[muxes'[i].id] = i
    BY DEF NoneRunsUnknown
  <2>0. muxes[i] \in MuxRec
    BY <1>2 DEF MuxesInv, MuxSound
  <2>1. filedMux[muxes[i].id] = i /\ i # filedMux[id] /\ muxes[i].id \in MuxIds
    BY <1>2, <2>0 DEF MuxesInv, NoneRunsUnknown, MuxRec
  <2>. QED BY <1>2, <1>3, <2>1
<1>5. \A k \in MuxIds : filedMux'[k] # NoSession => filedMux'[k] \in DOMAIN muxes'
  BY <1>2, <1>3 DEF MuxesInv
<1>. QED BY <1>2, <1>3, <1>4, <1>5 DEF MuxesInv

LEMMA KillAllKeeps ==
    ASSUME MuxesInv, KillAll
    PROVE  MuxesInv'
<1> DEFINE S == {filedMux[id] : id \in {j \in MuxIds : filedMux[j] # NoSession}}
<1>1. muxes' = Killed1(S) /\ filedMux' = filedMux
  BY DEF KillAll
<1> HIDE DEF S
<1>2. /\ muxes' \in Seq(MuxRec) /\ DOMAIN muxes' = DOMAIN muxes
      /\ \A i \in DOMAIN muxes : /\ MuxSound(muxes'[i]) /\ muxes'[i].id = muxes[i].id /\ muxes'[i].exited = muxes[i].exited
                                 /\ ~muxes'[i].exited /\ ~muxes'[i].cancelled => ~muxes[i].cancelled
  BY <1>1, KillsSound
<1>3. NoneRunsUnknown'
  BY <1>1, <1>2 DEF MuxesInv, NoneRunsUnknown
<1>. QED BY <1>1, <1>2, <1>3 DEF MuxesInv

LEMMA MuxesKeep == MuxesInv /\ [MuxNext]_muxVars => MuxesInv'
<1> SUFFICES ASSUME MuxesInv, [MuxNext]_muxVars PROVE MuxesInv'
  OBVIOUS
<1>1. CASE UNCHANGED <<filedMux, muxes>>
  BY <1>1 DEF MuxesInv, NoneRunsUnknown
<1>2. CASE \E id \in MuxIds : StartMux(id) \/ Drop(id)
  BY <1>2, StartKeeps, DropKeeps
<1>3. CASE KillAll
  BY <1>3, KillAllKeeps
<1>4. CASE \E i \in DOMAIN muxes : OfSession(i)
  BY <1>4, SessionKeeps
<1>5. CASE GivesStream \/ Scans \/ UpdateStatus
  BY <1>1, <1>5 DEF GivesStream, Scans, UpdateStatus
<1>6. CASE UNCHANGED muxVars
  BY <1>1, <1>6 DEF muxVars
<1>. QED BY <1>2, <1>3, <1>4, <1>5, <1>6 DEF MuxNext

LEMMA MuxesStart == MuxInit => MuxesInv
<1> SUFFICES ASSUME MuxInit PROVE MuxesInv
  OBVIOUS
<1>1. muxes = <<>> /\ filedMux = [id \in MuxIds |-> NoSession]
  BY DEF MuxInit
<1>2. muxes \in Seq(MuxRec) /\ DOMAIN muxes = {}
  BY <1>1
<1>. QED BY <1>1, <1>2 DEF MuxesInv, NoneRunsUnknown

\* What the invariant says of the bytes, and of who can go on.
LEMMA MuxesDeliver == MuxesInv => DeliveredInFull /\ NoneRunsUnknown /\ EverySessionEnds
<1> SUFFICES ASSUME MuxesInv PROVE DeliveredInFull /\ EverySessionEnds
  BY DEF MuxesInv
<1>1. ASSUME NEW i \in DOMAIN muxes
      PROVE  /\ muxes[i].got = [k \in 1 .. Len(muxes[i].got) |-> k]
             /\ muxes[i].ended /\ ~muxes[i].cancelled => Len(muxes[i].got) = muxes[i].printed
  <2> DEFINE m == muxes[i]
  <2>1. m \in MuxRec /\ Leaving(m)
    BY DEF MuxesInv, MuxSound
  <2>2. PICK x, y, z \in Nat : InLine(m, x, y, z)
    BY DEF MuxesInv, MuxSound
  <2> HIDE DEF m
  <2>3. m.got \in Seq(Nat) /\ m.events \in Seq(Event)
    BY <2>1 DEF MuxRec
  <2>4. \A k \in 1 .. Len(m.got) : m.got[k] = 0 + k
    BY <2>2 DEF InLine, Spans
  <2>5. m.got = [k \in 1 .. Len(m.got) |-> k]
    BY <2>3, <2>4
  <2>6. ASSUME m.ended, ~m.cancelled PROVE Len(m.got) = m.printed
    <3>1. m.events = <<>> /\ ~Collecting(m)
      BY <2>1, <2>6 DEF Leaving, Collecting
    <3>2. Chain(DataOf(m.events), Len(m.got), x) /\ x = m.printed
      BY <2>2, <2>6, <3>1 DEF InLine
    <3>3. Len(m.got) = x
      BY <3>1, <3>2, DataOfNothing, ChainEnds, <<>> \in Seq(Seq(Nat))
    <3>. QED BY <3>2, <3>3
  <2>. QED BY <2>5, <2>6 DEF m
<1>2. ASSUME NEW i \in DOMAIN muxes, ~muxes[i].process, muxes[i].collector # "closed",
             muxes[i].cancelled \/ muxes[i].events = <<>>
      PROVE  CanGoOn(muxes[i])
  <2> DEFINE m == muxes[i]
  <2>1. m \in MuxRec /\ ~m.process /\ m.collector # "closed" /\ (m.cancelled \/ m.events = <<>>)
    BY <1>2 DEF MuxesInv, MuxSound
  <2> HIDE DEF m
  <2>2. EventCap \in Nat \ {0} /\ ChunkCap \in Nat \ {0}
    BY MuxAssumption
  <2>3. m.events = <<>> => HasRoom(m)
    BY <2>2 DEF HasRoom
  <2>4. m.chunks = <<>> => Len(m.chunks) < ChunkCap
    BY <2>2
  <2>5. m.collector \in {"collect", "flush", "wait", "done"}
    BY <2>1 DEF MuxRec
  <2>9. CanGoOn(m)
    <3>6. CASE m.collector = "collect" /\ m.chunks = <<>>
    BY <2>1, <2>3, <2>4, <3>6 DEF CanGoOn, CanRead, CanHangUp, CanLeave, NoneToCome
    <3>7. CASE m.collector = "collect" /\ m.chunks # <<>>
    BY <3>7 DEF CanGoOn, CanTake
    <3>8. CASE m.collector \in {"flush", "wait", "done"}
    BY <2>1, <2>3, <3>8 DEF CanGoOn, CanFlush, CanReap, CanSayDone
    <3>. QED BY <2>5, <3>6, <3>7, <3>8
  <2>. QED BY <2>9 DEF m
<1>. QED BY <1>1, <1>2 DEF DeliveredInFull, EverySessionEnds
-----------------------------------------------------------------------------
(* The status.                                                              *)

\* A candidate for idleness was noted after the last reading of work.
StatusInv ==
    /\ agentStatus \in [is : {"working", "blocked", "idle"}, candidate : {"working", "blocked", "idle"},
                        at : Nat, now : Nat, busy : Nat, seen : BOOLEAN]
    /\ agentStatus.busy <= agentStatus.now /\ agentStatus.at <= agentStatus.now
    /\ agentStatus.is # "idle" /\ agentStatus.candidate = "idle" => agentStatus.at >= agentStatus.busy
    /\ IdleIsConfirmed

LEMMA UpdateKeeps == ASSUME StatusInv, UpdateStatus PROVE StatusInv'
<1> DEFINE s == agentStatus
           t == [s EXCEPT !.now = @ + 1]
<1>1. PICK r \in Readings : s' = [Updated(t, r) EXCEPT !.busy = IF r.raw # "idle" THEN s.now + 1 ELSE @,
                                                       !.seen = (r.raw = "idle" /\ (r.visible \/ @))]
  BY DEF UpdateStatus
<1>2. r.raw \in {"working", "blocked", "idle"} /\ r.visible \in BOOLEAN
  BY DEF Readings
<1>3. s \in [is : {"working", "blocked", "idle"}, candidate : {"working", "blocked", "idle"},
             at : Nat, now : Nat, busy : Nat, seen : BOOLEAN]
      /\ s.busy <= s.now /\ s.at <= s.now /\ (s.is # "idle" /\ s.candidate = "idle" => s.at >= s.busy)
      /\ (s.is = "idle" => s.seen \/ s.now - s.busy >= IdleConfirmAfter)
  BY DEF StatusInv, IdleIsConfirmed
<1> DEFINE u == Updated(t, r)
<1>4. /\ u \in [is : {"working", "blocked", "idle"}, candidate : {"working", "blocked", "idle"},
                at : Nat, now : Nat, busy : Nat, seen : BOOLEAN]
      /\ u.now = s.now + 1 /\ u.busy = s.busy /\ u.seen = s.seen
      /\ u.is = (IF r.raw # "idle" \/ r.visible THEN r.raw
                 ELSE IF s.is = "idle" \/ (s.candidate = "idle" /\ s.now + 1 - s.at >= IdleConfirmAfter) THEN "idle" ELSE s.is)
      /\ u.candidate = r.raw
      /\ u.at = (IF r.raw = "idle" /\ ~r.visible /\ s.is # "idle" /\ s.candidate # "idle" THEN s.now + 1 ELSE s.at)
  <2>1. t \in [is : {"working", "blocked", "idle"}, candidate : {"working", "blocked", "idle"},
               at : Nat, now : Nat, busy : Nat, seen : BOOLEAN]
        /\ t.now = s.now + 1 /\ t.busy = s.busy /\ t.seen = s.seen /\ t.is = s.is /\ t.candidate = s.candidate /\ t.at = s.at
    BY <1>3
  <2> HIDE DEF t, s
  <2>2. CASE r.raw = t.is
    <3>1. u = [t EXCEPT !.candidate = r.raw]
      BY <2>2 DEF Updated, Confirmed
    <3> HIDE DEF u
    <3>. QED BY <1>2, <2>1, <2>2, <3>1
  <2>3. CASE r.raw # t.is /\ (r.visible \/ r.raw # "idle")
    <3>1. u = [t EXCEPT !.is = r.raw, !.candidate = r.raw]
      BY <2>3 DEF Updated
    <3> HIDE DEF u
    <3>. QED BY <1>2, <2>1, <2>3, <3>1
  <2>4. CASE r.raw # t.is /\ ~(r.visible \/ r.raw # "idle") /\ t.candidate # r.raw
    <3>1. u = [t EXCEPT !.candidate = r.raw, !.at = t.now]
      BY <2>4 DEF Updated
    <3> HIDE DEF u
    <3>. QED BY <1>2, <1>3, <2>1, <2>4, <3>1
  <2>5. CASE r.raw # t.is /\ ~(r.visible \/ r.raw # "idle") /\ t.candidate = r.raw
    <3>1. u = IF t.now - t.at >= IdleConfirmAfter THEN [t EXCEPT !.is = "idle"] ELSE t
      BY <2>5 DEF Updated
    <3> HIDE DEF u
    <3>2. t.now - t.at = s.now + 1 - s.at
      <4>1. t.now = s.now + 1 /\ t.at = s.at /\ s.now \in Nat /\ s.at \in Nat
        BY <1>3, <2>1
      <4>. QED BY <4>1
    <3>. QED BY <1>2, <1>3, <2>1, <2>5, <3>1, <3>2
  <2>. QED BY <2>2, <2>3, <2>4, <2>5
<1> HIDE DEF u, t
<1>5. /\ s' \in [is : {"working", "blocked", "idle"}, candidate : {"working", "blocked", "idle"},
                 at : Nat, now : Nat, busy : Nat, seen : BOOLEAN]
      /\ s'.now = u.now /\ s'.is = u.is /\ s'.candidate = u.candidate /\ s'.at = u.at
      /\ s'.busy = (IF r.raw # "idle" THEN s.now + 1 ELSE u.busy) /\ s'.seen = (r.raw = "idle" /\ (r.visible \/ u.seen))
  <2>1. s' = [u EXCEPT !.busy = IF r.raw # "idle" THEN s.now + 1 ELSE @,
                       !.seen = (r.raw = "idle" /\ (r.visible \/ @))]
    BY <1>1 DEF u
  <2>2. s.now + 1 \in Nat /\ (r.raw = "idle" /\ (r.visible \/ u.seen)) \in BOOLEAN
    BY <1>2, <1>3
  <2>. QED BY <1>4, <2>1, <2>2
<1>6. IdleConfirmAfter \in Nat
  BY MuxAssumption
<1>7. s'.busy <= s'.now /\ s'.at <= s'.now /\ (s'.is # "idle" /\ s'.candidate = "idle" => s'.at >= s'.busy)
  BY <1>2, <1>3, <1>4, <1>5
<1>8. s'.is = "idle" => s'.seen \/ s'.now - s'.busy >= IdleConfirmAfter
  BY <1>2, <1>3, <1>4, <1>5, <1>6
<1>. QED BY <1>5, <1>7, <1>8 DEF StatusInv, IdleIsConfirmed

LEMMA StatusKeeps == StatusInv /\ [MuxNext]_muxVars => StatusInv'
<1> SUFFICES ASSUME StatusInv, [MuxNext]_muxVars PROVE StatusInv'
  OBVIOUS
<1>1. CASE UpdateStatus
  BY <1>1, UpdateKeeps
<1>2. CASE UNCHANGED agentStatus
  BY <1>2 DEF StatusInv, IdleIsConfirmed
<1>3. UpdateStatus \/ UNCHANGED agentStatus
  BY DEF MuxNext, muxVars, StartMux, Drop, KillAll, OfSession, GoesOn, ProgramPrints, ProgramEnds, Reads1, ReaderLeaves, TakeChunk,
         TickFlush, Flush, CollectorLeaves, Waits, SendsDone, Drains, At, GivesStream, Scans
<1>. QED BY <1>1, <1>2, <1>3

LEMMA StatusStarts == MuxInit => StatusInv
BY DEF MuxInit, StatusInv, IdleIsConfirmed

-----------------------------------------------------------------------------
(* A stream of queries: where each lies in it.                              *)

\* Where the queries end.
Offsets(ls, f) == f \in [0 .. Len(ls) -> Nat] /\ f[0] = 0 /\ \A k \in 1 .. Len(ls) : f[k] = f[k - 1] + ls[k]
\* s is the stream of the first n queries.
Laid(ls, f, s, n) ==
    /\ s \in Seq(Nat \X Nat) /\ Len(s) = f[n]
    /\ \A p \in 1 .. f[n] : \E q \in 1 .. n : \E j \in 1 .. ls[q] : p = f[q - 1] + j /\ s[p] = <<q, j>>
    /\ \A q \in 1 .. n : f[q] <= f[n] /\ \A j \in 1 .. ls[q] : s[f[q - 1] + j] = <<q, j>>

LEMMA OffsetsExist ==
    ASSUME NEW ls \in Seq(Nat)
    PROVE  \E f : Offsets(ls, f)
<1> DEFINE n == Len(ls)
           Has(m, f) == f \in [0 .. m -> Nat] /\ f[0] = 0 /\ \A k \in 1 .. m : f[k] = f[k - 1] + ls[k]
           T == {m \in Nat : m <= n => \E f : Has(m, f)}
<1>1. 0 \in T
  <2> DEFINE g == [k \in 0 .. 0 |-> 0]
  <2>1. Has(0, g)
    OBVIOUS
  <2>. QED BY <2>1
<1>2. ASSUME NEW m \in T PROVE m + 1 \in T
  <2>0. m \in Nat /\ m + 1 \in Nat /\ (m <= n => \E f : Has(m, f)) /\ n \in Nat
    OBVIOUS
  <2> SUFFICES ASSUME m + 1 <= n PROVE \E f : Has(m + 1, f)
    BY <2>0
  <2>9. m <= n
    BY <2>0
  <2>1. PICK f : Has(m, f)
    BY <2>0, <2>9, Zenon
  <2> DEFINE g == [k \in 0 .. m + 1 |-> IF k = m + 1 THEN f[m] + ls[m + 1] ELSE f[k]]
  <2>2. f[m] \in Nat /\ ls[m + 1] \in Nat /\ m \in Nat
    BY <2>1
  <2>3. g \in [0 .. m + 1 -> Nat] /\ g[m + 1] = f[m] + ls[m + 1] /\ \A k \in 0 .. m : g[k] = f[k]
    BY <2>1, <2>2
  <2> HIDE DEF g
  <2>4. ASSUME NEW k \in 1 .. m + 1 PROVE g[k] = g[k - 1] + ls[k]
    <3>1. CASE k = m + 1
      BY <2>2, <2>3, <3>1
    <3>2. CASE k # m + 1
      <4>1. k \in 1 .. m /\ k \in 0 .. m /\ k - 1 \in 0 .. m
        BY <2>2, <3>2
      <4>. QED BY <2>1, <2>3, <4>1
    <3>. QED BY <3>1, <3>2
  <2>5. Has(m + 1, g)
    BY <2>1, <2>2, <2>3, <2>4
  <2>. QED BY <2>5
<1>3. n \in Nat
  OBVIOUS
<1> HIDE DEF Has
<1>4. T = Nat
  BY <1>1, <1>2, Induction
<1>5. \E f : Has(n, f)
  BY <1>3, <1>4
<1>. QED BY <1>5 DEF Has, Offsets

\* The function by which FlattenSeq is defined.
Flat(seqs, m, g) == g = [i \in 1 .. m |-> IF i = 1 THEN seqs[i] ELSE g[i - 1] \o seqs[i]]

LEMMA FlatsExist ==
    ASSUME NEW seqs
    PROVE  \A m \in Nat : \E g : Flat(seqs, m, g)
<1> DEFINE T == {m \in Nat : \E g : Flat(seqs, m, g)}
<1>1. 0 \in T
  <2> DEFINE g == [i \in 1 .. 0 |-> 0]
  <2>1. g = [i \in 1 .. 0 |-> IF i = 1 THEN seqs[i] ELSE g[i - 1] \o seqs[i]]
    OBVIOUS
  <2>2. Flat(seqs, 0, g)
    BY <2>1 DEF Flat
  <2>. QED BY <2>2
<1>2. ASSUME NEW m \in T PROVE m + 1 \in T
  <2>1. PICK f : Flat(seqs, m, f)
    OBVIOUS
  <2> DEFINE g == [i \in 1 .. m + 1 |-> IF i = m + 1 THEN (IF i = 1 THEN seqs[i] ELSE f[m] \o seqs[i]) ELSE f[i]]
  <2>2. \A i \in 1 .. m : f[i] = IF i = 1 THEN seqs[i] ELSE f[i - 1] \o seqs[i]
    BY <2>1, Zenon DEF Flat
  <2>3. ASSUME NEW i \in 1 .. m + 1 PROVE g[i] = IF i = 1 THEN seqs[i] ELSE g[i - 1] \o seqs[i]
    <3>1. CASE i = m + 1
      <4>1. i # 1 => i - 1 = m /\ m \in 1 .. m + 1 /\ m # m + 1
        BY <3>1
      <4>2. g[i] = (IF i = 1 THEN seqs[i] ELSE f[m] \o seqs[i]) /\ (i # 1 => g[m] = f[m])
        BY <3>1, <4>1
      <4> HIDE DEF g
      <4>. QED BY <4>1, <4>2
    <3>2. CASE i # m + 1
      <4>1. i \in 1 .. m
        BY <3>2
      <4>2. g[i] = f[i]
        BY <3>2
      <4>3. i # 1 => i - 1 \in 1 .. m + 1 /\ i - 1 # m + 1
        BY <4>1
      <4>4. i # 1 => g[i - 1] = f[i - 1]
        BY <4>3
      <4> HIDE DEF g
      <4>. QED BY <2>2, <4>1, <4>2, <4>4
    <3>. QED BY <3>1, <3>2
  <2>4. g = [i \in 1 .. m + 1 |-> IF i = 1 THEN seqs[i] ELSE g[i - 1] \o seqs[i]]
    <3>1. g = [i \in 1 .. m + 1 |-> g[i]]
      OBVIOUS
    <3> HIDE DEF g
    <3>. QED BY <2>3, <3>1
  <2>5. Flat(seqs, m + 1, g)
    BY <2>4, Zenon DEF Flat
  <2>. QED BY <2>5
<1>. QED BY <1>1, <1>2, Induction

LEMMA FlattenIsTheLast ==
    ASSUME NEW S, NEW seqs \in Seq(Seq(S)), seqs # <<>>
    PROVE  \E g : /\ g[1] = seqs[1] /\ FlattenSeq(seqs) = g[Len(seqs)]
                  /\ \A i \in 1 .. Len(seqs) : i # 1 => g[i] = g[i - 1] \o seqs[i]
<1> DEFINE n == Len(seqs)
           f == CHOOSE g : g = [i \in 1 .. n |-> IF i = 1 THEN seqs[i] ELSE g[i - 1] \o seqs[i]]
<1>1. n \in Nat /\ n # 0 /\ 1 \in 1 .. n
  OBVIOUS
<1>2. \E g : g = [i \in 1 .. n |-> IF i = 1 THEN seqs[i] ELSE g[i - 1] \o seqs[i]]
  BY <1>1, FlatsExist DEF Flat
<1>3. f = [i \in 1 .. n |-> IF i = 1 THEN seqs[i] ELSE f[i - 1] \o seqs[i]]
  BY <1>2
<1>4. FlattenSeq(seqs) = f[n]
  BY <1>1 DEF FlattenSeq
<1> HIDE DEF f
<1>5. \A i \in 1 .. n : f[i] = IF i = 1 THEN seqs[i] ELSE f[i - 1] \o seqs[i]
  BY <1>3, Zenon
<1>. QED BY <1>1, <1>4, <1>5
LEMMA FunctionIsSeq ==
    ASSUME NEW S, NEW l \in Nat, NEW d \in [1 .. l -> S]
    PROVE  d \in Seq(S) /\ Len(d) = l
OBVIOUS

LEMMA JoinIsSeq ==
    ASSUME NEW S, NEW s \in Seq(S), NEW d \in Seq(S)
    PROVE  /\ s \o d \in Seq(S) /\ Len(s \o d) = Len(s) + Len(d)
           /\ \A p \in 1 .. Len(s) : (s \o d)[p] = s[p]
           /\ \A j \in 1 .. Len(d) : (s \o d)[Len(s) + j] = d[j]
OBVIOUS

\* A piece of the stream more.
LEMMA LaidGrows ==
    ASSUME NEW ls \in Seq(Nat), NEW f, Offsets(ls, f), NEW n \in Nat, n + 1 <= Len(ls), NEW s, Laid(ls, f, s, n),
           NEW d, d = [j \in 1 .. ls[n + 1] |-> <<n + 1, j>>]
    PROVE  Laid(ls, f, s \o d, n + 1)
<1> DEFINE l == ls[n + 1]
           t == s \o d
<1>1. l \in Nat /\ n \in 0 .. Len(ls) /\ n + 1 \in 1 .. Len(ls) /\ f[n] \in Nat /\ f[n + 1] = f[n] + l /\ f[n + 1] \in Nat
  <2>1. n \in 0 .. Len(ls) /\ n + 1 \in 1 .. Len(ls) /\ n + 1 \in 0 .. Len(ls) /\ (n + 1) - 1 = n
    OBVIOUS
  <2>2. f \in [0 .. Len(ls) -> Nat] /\ \A k \in 1 .. Len(ls) : f[k] = f[k - 1] + ls[k]
    BY DEF Offsets
  <2>3. f[n] \in Nat /\ f[n + 1] \in Nat /\ f[n + 1] = f[n] + ls[n + 1]
    BY <2>1, <2>2
  <2>4. ls[n + 1] \in Nat
    BY <2>1
  <2>. QED BY <2>1, <2>3, <2>4
<1>2. d \in Seq(Nat \X Nat) /\ Len(d) = l /\ \A j \in 1 .. l : d[j] = <<n + 1, j>>
  <2>1. d \in [1 .. l -> Nat \X Nat] /\ \A j \in 1 .. l : d[j] = <<n + 1, j>>
    BY <1>1
  <2>2. d \in Seq(Nat \X Nat) /\ Len(d) = l
    BY ONLY <1>1, <2>1, FunctionIsSeq
  <2>. QED BY <2>1, <2>2
<1>3. s \in Seq(Nat \X Nat) /\ Len(s) = f[n]
  BY DEF Laid
<1>4. /\ t \in Seq(Nat \X Nat) /\ Len(t) = f[n + 1]
      /\ \A p \in 1 .. f[n] : t[p] = s[p]
      /\ \A j \in 1 .. l : t[f[n] + j] = <<n + 1, j>>
  <2>1. /\ t \in Seq(Nat \X Nat) /\ Len(t) = Len(s) + Len(d)
        /\ \A p \in 1 .. Len(s) : t[p] = s[p]
        /\ \A j \in 1 .. Len(d) : t[Len(s) + j] = d[j]
    <3>1. s \in Seq(Nat \X Nat) /\ d \in Seq(Nat \X Nat)
      BY <1>2, <1>3
    <3>. QED BY <3>1, JoinIsSeq
  <2> HIDE DEF t, l
  <2>. QED BY <1>1, <1>2, <1>3, <2>1
<1> HIDE DEF t, l
<1>5. ASSUME NEW p \in 1 .. f[n + 1] PROVE \E q \in 1 .. n + 1 : \E j \in 1 .. ls[q] : p = f[q - 1] + j /\ t[p] = <<q, j>>
  <2>1. CASE p \in 1 .. f[n]
    <3>1. PICK q \in 1 .. n : \E j \in 1 .. ls[q] : p = f[q - 1] + j /\ s[p] = <<q, j>>
      BY <2>1 DEF Laid
    <3>2. q \in 1 .. n + 1
      OBVIOUS
    <3>. QED BY <1>4, <2>1, <3>1, <3>2
  <2>2. CASE p \notin 1 .. f[n]
    <3>1. p - f[n] \in 1 .. l /\ p = f[n] + (p - f[n])
      <4> DEFINE a == f[n]
                 b == f[n + 1]
      <4>1. a \in Nat /\ l \in Nat /\ b = a + l /\ p \in 1 .. b /\ p \notin 1 .. a
        BY <1>1, <2>2 DEF l
      <4> HIDE DEF a, b
      <4>2. p - a \in 1 .. l /\ p = a + (p - a)
        BY <4>1
      <4>. QED BY <4>2 DEF a
    <3>2. n + 1 \in 1 .. n + 1 /\ (n + 1) - 1 = n
      OBVIOUS
    <3>3. t[p] = <<n + 1, p - f[n]>>
      BY <1>4, <3>1
    <3>. QED BY <3>1, <3>2, <3>3 DEF l
  <2>. QED BY <2>1, <2>2
<1>6. ASSUME NEW q \in 1 .. n + 1
      PROVE  f[q] <= f[n + 1] /\ \A j \in 1 .. ls[q] : t[f[q - 1] + j] = <<q, j>>
  <2>1. CASE q = n + 1
    <3>1. (n + 1) - 1 = n
      OBVIOUS
    <3>2. f[q] = f[n + 1] /\ f[q - 1] = f[n] /\ ls[q] = l
      BY <2>1, <3>1 DEF l
    <3>3. \A j \in 1 .. l : t[f[n] + j] = <<q, j>>
      BY <1>4, <2>1
    <3>4. f[n + 1] <= f[n + 1]
      BY <1>1
    <3>. QED BY <3>2, <3>3, <3>4
  <2>2. CASE q # n + 1
    <3>1. q \in 1 .. n /\ q \in 0 .. Len(ls) /\ q - 1 \in 0 .. Len(ls) /\ q \in 1 .. Len(ls)
      BY <2>2
    <3>2. f[q] <= f[n] /\ f[q] = f[q - 1] + ls[q] /\ f[q] \in Nat /\ f[q - 1] \in Nat /\ ls[q] \in Nat
          /\ \A j \in 1 .. ls[q] : s[f[q - 1] + j] = <<q, j>>
      <4>1. f[q] <= f[n] /\ \A j \in 1 .. ls[q] : s[f[q - 1] + j] = <<q, j>>
        BY <3>1 DEF Laid
      <4>2. f[q] = f[q - 1] + ls[q] /\ f[q] \in Nat /\ f[q - 1] \in Nat /\ ls[q] \in Nat
        <5>1. f \in [0 .. Len(ls) -> Nat] /\ \A k \in 1 .. Len(ls) : f[k] = f[k - 1] + ls[k]
          BY DEF Offsets
        <5>2. ls[q] \in Nat
          BY <3>1
        <5>. QED BY <3>1, <5>1, <5>2
      <4>. QED BY <4>1, <4>2
    <3>3. ASSUME NEW j \in 1 .. ls[q] PROVE f[q - 1] + j \in 1 .. f[n]
      <4> DEFINE a == f[q - 1]
                 b == f[n]
                 c == ls[q]
      <4>1. a \in Nat /\ b \in Nat /\ c \in Nat /\ a + c <= b /\ j \in 1 .. c
        BY <1>1, <3>2
      <4> HIDE DEF a, b, c
      <4>2. a + j \in 1 .. b
        BY <4>1
      <4>. QED BY <4>2 DEF a, b
    <3>4. \A j \in 1 .. ls[q] : t[f[q - 1] + j] = <<q, j>>
      BY <1>4, <3>2, <3>3
    <3>5. f[q] <= f[n + 1]
      <4> DEFINE a == f[q]
                 b == f[n]
                 c == f[n + 1]
      <4>1. a \in Nat /\ b \in Nat /\ c \in Nat /\ a <= b /\ b <= c
        <5>1. f[n] \in Nat /\ f[n + 1] \in Nat /\ l \in Nat /\ f[n + 1] = f[n] + l
          BY <1>1 DEF l
        <5>. QED BY <3>2, <5>1
      <4> HIDE DEF a, b, c
      <4>2. a <= c
        BY <4>1
      <4>. QED BY <4>2 DEF a, c
    <3>. QED BY <3>4, <3>5
  <2>. QED BY <2>1, <2>2
<1>. QED BY <1>4, <1>5, <1>6 DEF Laid, t

\* The stream holds the queries one behind the other.
LEMMA StreamIsLaid ==
    ASSUME NEW ls \in Seq(Nat), NEW f, Offsets(ls, f)
    PROVE  Laid(ls, f, StreamOf(ls), Len(ls))
<1> DEFINE n == Len(ls)
           piece(k) == [j \in 1 .. ls[k] |-> <<k, j>>]
           seqs == [k \in DOMAIN ls |-> piece(k)]
<1>1. n \in Nat /\ DOMAIN ls = 1 .. n /\ \A k \in 1 .. n : ls[k] \in Nat
  OBVIOUS
<1>2. \A k \in 1 .. n : piece(k) \in Seq(Nat \X Nat)
  BY <1>1
<1>3. seqs \in Seq(Seq(Nat \X Nat)) /\ Len(seqs) = n /\ \A k \in 1 .. n : seqs[k] = piece(k)
  BY <1>1, <1>2
<1>4. StreamOf(ls) = FlattenSeq(seqs)
  BY DEF StreamOf
<1>5. Laid(ls, f, <<>>, 0)
  <2>1. <<>> \in Seq(Nat \X Nat) /\ Len(<<>>) = 0 /\ f[0] = 0
    BY DEF Offsets
  <2>2. \A p \in 1 .. 0 : FALSE
    OBVIOUS
  <2>. QED BY <2>1, <2>2 DEF Laid
<1> HIDE DEF seqs
<1>6. CASE n = 0
  <2>1. seqs = <<>>
    BY <1>3, <1>6
  <2>2. FlattenSeq(seqs) = <<>>
    BY <2>1 DEF FlattenSeq
  <2>. QED BY <1>4, <1>5, <1>6, <2>2
<1>7. CASE n # 0
  <2>0. seqs # <<>>
    BY <1>1, <1>3, <1>7
  <2>1. PICK g : /\ g[1] = seqs[1] /\ FlattenSeq(seqs) = g[n]
                 /\ \A i \in 1 .. n : i # 1 => g[i] = g[i - 1] \o seqs[i]
    <3>1. \E g : /\ g[1] = seqs[1] /\ FlattenSeq(seqs) = g[Len(seqs)]
                 /\ \A i \in 1 .. Len(seqs) : i # 1 => g[i] = g[i - 1] \o seqs[i]
      BY ONLY <1>3, <2>0, FlattenIsTheLast
    <3>2. Len(seqs) = n
      BY <1>3
    <3> HIDE DEF n
    <3>. QED BY <3>1, <3>2
  <2> DEFINE T == {k \in Nat : k + 1 <= n => Laid(ls, f, g[k + 1], k + 1)}
  <2>2. 0 \in T
    <3>0. 0 \in Nat /\ 0 + 1 = 1 /\ 0 + 1 <= Len(ls) /\ 1 \in 1 .. n
      BY <1>1, <1>7
    <3>1. Laid(ls, f, <<>> \o piece(1), 0 + 1)
      <4>1. piece(1) = [j \in 1 .. ls[0 + 1] |-> <<0 + 1, j>>]
        BY <3>0
      <4>. QED BY ONLY <1>5, <3>0, <4>1, LaidGrows, ls \in Seq(Nat), Offsets(ls, f)
    <3>2. <<>> \o piece(1) = piece(1)
      BY <1>2, <3>0
    <3>3. g[1] = piece(1)
      BY <1>3, <2>1, <3>0
    <3> HIDE DEF piece
    <3>4. Laid(ls, f, g[0 + 1], 0 + 1)
      BY <3>0, <3>1, <3>2, <3>3
    <3>. QED BY <3>4
  <2>3. ASSUME NEW k \in T PROVE k + 1 \in T
    <3>1. k \in Nat /\ (k + 1 <= n => Laid(ls, f, g[k + 1], k + 1))
      OBVIOUS
    <3> SUFFICES ASSUME (k + 1) + 1 <= n PROVE Laid(ls, f, g[(k + 1) + 1], (k + 1) + 1)
      BY <3>1
    <3>2. k + 1 \in Nat /\ (k + 1) + 1 \in 1 .. n /\ (k + 1) + 1 # 1 /\ ((k + 1) + 1) - 1 = k + 1 /\ k + 1 <= n
      BY <1>1, <3>1
    <3>3. g[(k + 1) + 1] = g[k + 1] \o piece((k + 1) + 1)
      BY <1>3, <2>1, <3>2
    <3>4. Laid(ls, f, g[k + 1], k + 1)
      BY <3>1, <3>2
    <3> HIDE DEF T
    <3>. QED BY <3>2, <3>3, <3>4, LaidGrows
  <2> HIDE DEF T
  <2>4. T = Nat
    BY <2>2, <2>3, Induction DEF T
  <2>5. n - 1 \in T /\ (n - 1) + 1 = n
    BY <1>1, <1>7, <2>4
  <2>6. Laid(ls, f, g[n], n)
    BY <1>1, <2>5 DEF T
  <2>. QED BY <1>4, <2>1, <2>6
<1>. QED BY <1>6, <1>7

\* What lies behind the k-th query has the length of the stream of the rest.
LEMMA RestIsASuffix ==
    ASSUME NEW ls \in Seq(Nat), NEW f, Offsets(ls, f), NEW k \in 1 .. Len(ls)
    PROVE  Len(StreamOf(SubSeq(ls, k + 1, Len(ls)))) = f[Len(ls)] - f[k]
<1> DEFINE n == Len(ls)
           rs == SubSeq(ls, k + 1, n)
           g == [j \in 0 .. n - k |-> f[k + j] - f[k]]
<1>1. n \in Nat /\ k \in Nat /\ k <= n /\ f[k] \in Nat /\ n - k \in Nat
  BY DEF Offsets
<1>2. rs \in Seq(Nat) /\ Len(rs) = n - k /\ \A j \in 1 .. n - k : rs[j] = ls[k + j]
  BY <1>1
<1>3. \A j \in 1 .. n - k : k + j \in 1 .. n /\ (k + j) - 1 = k + (j - 1) /\ j - 1 \in 0 .. n - k /\ k + (j - 1) \in 0 .. n /\ j \in 0 .. n - k
  BY <1>1
<1>4. \A j \in 0 .. n - k : k + j \in 0 .. n /\ f[k + j] \in Nat /\ g[j] = f[k + j] - f[k]
  <2> SUFFICES ASSUME NEW j \in 0 .. n - k PROVE k + j \in 0 .. n /\ f[k + j] \in Nat /\ g[j] = f[k + j] - f[k]
    OBVIOUS
  <2>1. k + j \in 0 .. n
    BY <1>1
  <2>2. f \in [0 .. n -> Nat]
    BY DEF Offsets
  <2>. QED BY <2>1, <2>2
<1> HIDE DEF g, rs
<1>5. \A j \in 1 .. n - k : g[j] = g[j - 1] + rs[j]
  <2> SUFFICES ASSUME NEW j \in 1 .. n - k PROVE g[j] = g[j - 1] + rs[j]
    OBVIOUS
  <2>1. f[k + j] = f[(k + j) - 1] + ls[k + j]
    BY <1>3 DEF Offsets
  <2>2. f[k + j] = f[k + (j - 1)] + rs[j] /\ rs[j] \in Nat /\ f[k + (j - 1)] \in Nat
    <3>1. (k + j) - 1 = k + (j - 1) /\ rs[j] = ls[k + j] /\ j - 1 \in 0 .. n - k
      BY <1>2, <1>3
    <3>2. rs[j] \in Nat
      <4>1. j \in 1 .. Len(rs)
        BY <1>2
      <4>. QED BY <1>2, <4>1
    <3>3. f[k + (j - 1)] \in Nat
      BY <1>4, <3>1
    <3>. QED BY <2>1, <3>1, <3>2, <3>3
  <2>3. g[j] = f[k + j] - f[k] /\ g[j - 1] = f[k + (j - 1)] - f[k] /\ f[k + j] \in Nat
    BY <1>3, <1>4
  <2> DEFINE a == f[k + j]
             b == f[k + (j - 1)]
             c == f[k]
             d == rs[j]
  <2>4. a = b + d /\ a \in Nat /\ b \in Nat /\ c \in Nat /\ d \in Nat
    BY <1>1, <2>2, <2>3
  <2>5. g[j] = a - c /\ g[j - 1] = b - c
    BY <2>3
  <2> HIDE DEF a, b, c, d
  <2>6. a - c = (b - c) + d
    BY <2>4
  <2>. QED BY <2>5, <2>6 DEF d
<1>6. g[0] = 0
  BY <1>1, <1>4
<1>7. \A j \in 0 .. n - k : g[j] \in Nat
  <2> DEFINE T == {j \in Nat : j <= n - k => g[j] \in Nat}
  <2>1. 0 \in T
    BY <1>6
  <2>2. ASSUME NEW j \in T PROVE j + 1 \in T
    <3>1. j \in Nat /\ (j <= n - k => g[j] \in Nat)
      OBVIOUS
    <3> SUFFICES ASSUME j + 1 <= n - k PROVE g[j + 1] \in Nat
      BY <3>1
    <3>2. j + 1 \in 1 .. n - k /\ (j + 1) - 1 = j /\ j <= n - k
      BY <1>1, <3>1
    <3>3. g[j + 1] = g[(j + 1) - 1] + rs[j + 1] /\ rs[j + 1] \in Nat
      <4>1. rs[j + 1] \in Nat
        <5>1. j + 1 \in 1 .. Len(rs)
          BY <1>2, <3>2
        <5>. QED BY <1>2, <5>1
      <4>. QED BY <1>5, <3>2, <4>1
    <3>. QED BY <3>1, <3>2, <3>3
  <2>3. T = Nat
    BY <2>1, <2>2, Induction
  <2>. QED BY <1>1, <2>3
<1>8. Offsets(rs, g)
  <2>1. g \in [0 .. Len(rs) -> Nat]
    <3>1. g = [j \in 0 .. n - k |-> g[j]]
      BY DEF g
    <3>. QED BY <1>2, <1>7, <3>1
  <2>. QED BY <1>2, <1>5, <1>6, <2>1 DEF Offsets
<1>9. Laid(rs, g, StreamOf(rs), Len(rs))
  BY <1>2, <1>8, StreamIsLaid
<1>10. Len(StreamOf(rs)) = g[n - k]
  BY <1>2, <1>9 DEF Laid
<1>11. g[n - k] = f[n] - f[k]
  <2>1. n - k \in 0 .. n - k /\ k + (n - k) = n
    BY <1>1
  <2>. QED BY <1>4, <2>1
<1>. QED BY <1>10, <1>11 DEF rs
-----------------------------------------------------------------------------
(* The answerer.                                                            *)

\* The end of a sequence.
LEMMA RestIsSeq ==
    ASSUME NEW S, NEW s \in Seq(S), NEW m \in 1 .. Len(s) + 1
    PROVE  /\ SubSeq(s, m, Len(s)) \in Seq(S) /\ Len(SubSeq(s, m, Len(s))) = Len(s) - m + 1
           /\ \A i \in 1 .. Len(s) - m + 1 : SubSeq(s, m, Len(s))[i] = s[m - 1 + i]
OBVIOUS

StreamRec == [lengths : Seq(Replies), rest : Seq(Nat \X Nat), pend : Seq(Nat \X Nat), answers : Seq(Nat)]
\* c bytes have been scanned; what is kept of them is enough for a query that
\* is not over yet; and each query that is over has its answer.
ScannedTo(a, f, c) ==
    /\ c \in 0 .. f[Len(a.lengths)] /\ Len(a.rest) = f[Len(a.lengths)] - c
    /\ \A i \in 1 .. Len(a.rest) : a.rest[i] = StreamOf(a.lengths)[c + i]
    /\ Len(a.pend) = c \/ (Len(a.pend) = Overlap /\ Overlap <= c)
    /\ \A i \in 1 .. Len(a.pend) : a.pend[i] = StreamOf(a.lengths)[c - Len(a.pend) + i]
    /\ \A k \in 1 .. Len(a.lengths) : a.answers[k] = IF a.lengths[k] > 1 /\ f[k] <= c THEN 1 ELSE 0
QueriesInv ==
    /\ queries \in StreamRec /\ Len(queries.answers) = Len(queries.lengths)
    /\ \E f, c : Offsets(queries.lengths, f) /\ ScannedTo(queries, f, c)

\* Replies fit in what is kept, but for a byte.
LEMMA RepliesAreShort == Overlap \in Nat \ {0} /\ Replies \subseteq Nat \ {0} /\ \A r \in Replies : r <= Overlap + 1
<1>1. Overlap \in Nat \ {0}
  BY MuxAssumption
<1>2. Replies \subseteq 1 .. Overlap + 1
  BY MuxAssumption
<1>3. \A r \in 1 .. Overlap + 1 : r \in Nat \ {0} /\ r <= Overlap + 1
  BY <1>1
<1>. QED BY <1>1, <1>2, <1>3

\* A stream's lengths are numbers.
LEMMA RepliesInStream ==
    ASSUME NEW ls \in Seq(Replies)
    PROVE  ls \in Seq(Nat) /\ Len(ls) \in Nat /\ \A k \in 1 .. Len(ls) : ls[k] \in Replies
<1>1. Replies \subseteq Nat
  BY RepliesAreShort
<1>2. Len(ls) \in Nat /\ \A k \in 1 .. Len(ls) : ls[k] \in Replies
  OBVIOUS
<1>3. ls \in [1 .. Len(ls) -> Nat]
  <2>1. ls \in [1 .. Len(ls) -> Replies]
    OBVIOUS
  <2>. QED BY <1>1, <2>1
<1>4. ls \in Seq(Nat)
  BY <1>2, <1>3, FunctionIsSeq
<1>. QED BY <1>2, <1>4

\* The new matches of the k-th query.
NewOf(buf, ls, p, k) == {m \in NewMatches(Matches(buf, ls), p) : buf[m[1]][1] = k}

\* What is looked at: n bytes past the first c, and the p before them that were kept.
Looked(ls, f, c, n, p, buf) ==
    /\ ls \in Seq(Replies) /\ Offsets(ls, f) /\ c \in Nat /\ n \in Nat /\ c + n <= f[Len(ls)]
    /\ p \in Nat /\ (p = c \/ (p = Overlap /\ Overlap <= c))
    /\ buf \in Seq(Nat \X Nat) /\ Len(buf) = p + n /\ \A i \in 1 .. p + n : buf[i] = StreamOf(ls)[c - p + i]

\* The new matches of the k-th query are none, or the one where it lies.
LEMMA MatchesOfOne ==
    ASSUME NEW ls, NEW f, NEW c, NEW n, NEW p, NEW buf, Looked(ls, f, c, n, p, buf), NEW k \in 1 .. Len(ls)
    PROVE  Cardinality(NewOf(buf, ls, p, k)) =
              IF ls[k] > 1 /\ c < f[k] /\ f[k] <= c + n THEN 1 ELSE 0
<1> DEFINE M == {m \in NewMatches(Matches(buf, ls), p) : buf[m[1]][1] = k}
           s == StreamOf(ls)
           a == f[k - 1] + 1 - (c - p)
           b == f[k] - (c - p)
           N == Len(ls)
<1>g. /\ ls \in Seq(Replies) /\ Offsets(ls, f) /\ c \in Nat /\ n \in Nat /\ c + n <= f[Len(ls)]
      /\ p \in Nat /\ (p = c \/ (p = Overlap /\ Overlap <= c))
      /\ buf \in Seq(Nat \X Nat) /\ Len(buf) = p + n /\ \A i \in 1 .. p + n : buf[i] = StreamOf(ls)[c - p + i]
  BY DEF Looked
<1>1. Overlap \in Nat /\ Replies \subseteq Nat \ {0} /\ \A r \in Replies : r <= Overlap + 1
  BY RepliesAreShort
<1>2. ls \in Seq(Nat) /\ Overlap \in Nat /\ N \in Nat
  BY <1>1, <1>g, RepliesInStream
<1>3. Laid(ls, f, s, N)
  BY <1>2, <1>g, StreamIsLaid
<1>4. /\ f[k] \in Nat /\ f[k - 1] \in Nat /\ f[N] \in Nat /\ ls[k] \in Nat \ {0} /\ ls[k] <= Overlap + 1
      /\ f[k] = f[k - 1] + ls[k] /\ f[k] <= f[N]
  <2>1. k \in 0 .. N /\ k - 1 \in 0 .. N /\ N \in 0 .. N
    BY <1>2
  <2>2. f \in [0 .. N -> Nat] /\ f[k] = f[k - 1] + ls[k]
    BY <1>g DEF Offsets
  <2>3. ls[k] \in Replies
    BY <1>g
  <2>4. f[k] <= f[N]
    BY <1>3 DEF Laid
  <2>. QED BY <1>1, <2>1, <2>2, <2>3, <2>4
<1>n. c + n <= f[N] /\ c \in Nat /\ n \in Nat /\ p \in Nat /\ p <= c
  BY <1>2, <1>g
<1> HIDE DEF s, N
<1>5. DOMAIN buf = 1 .. p + n /\ \A i \in 1 .. p + n : buf[i] = s[c - p + i] /\ c - p + i \in 1 .. f[N]
  <2>1. c - p \in Nat /\ c - p + (p + n) = c + n
    BY <1>n
  <2>2. \A i \in 1 .. p + n : c - p + i \in 1 .. f[N]
    <3> SUFFICES ASSUME NEW i \in 1 .. p + n PROVE c - p + i \in 1 .. f[N]
      OBVIOUS
    <3> DEFINE e == f[N]
               d == c - p
    <3>1. d \in Nat /\ d + (p + n) = c + n /\ e \in Nat /\ c + n <= e /\ i \in Nat /\ 1 <= i /\ i <= p + n
      BY <1>4, <1>n, <2>1
    <3> HIDE DEF e, d
    <3>2. d + i \in 1 .. e
      BY <1>n, <3>1
    <3>. QED BY <3>2 DEF e, d
  <2>3. DOMAIN buf = 1 .. p + n
    BY <1>g
  <2>. QED BY <1>g, <2>2, <2>3 DEF s
<1>6. \A i \in 1 .. p + n : \E q \in 1 .. N : \E j \in 1 .. ls[q] : c - p + i = f[q - 1] + j /\ buf[i] = <<q, j>>
  <2> SUFFICES ASSUME NEW i \in 1 .. p + n
               PROVE  \E q \in 1 .. N : \E j \in 1 .. ls[q] : c - p + i = f[q - 1] + j /\ buf[i] = <<q, j>>
    OBVIOUS
  <2> DEFINE x == c - p + i
  <2>1. buf[i] = s[x] /\ x \in 1 .. f[N]
    BY <1>5
  <2> HIDE DEF x
  <2>2. \E q \in 1 .. N : \E j \in 1 .. ls[q] : x = f[q - 1] + j /\ s[x] = <<q, j>>
    BY <1>3, <2>1 DEF Laid
  <2>. QED BY <2>1, <2>2 DEF x
<1>7. \A m \in M : /\ m \in (1 .. p + n) \X (1 .. p + n) /\ buf[m[1]][2] = 1 /\ buf[m[1]][1] = k
                   /\ buf[m[2]] = <<k, ls[k]>> /\ ls[k] > 1 /\ m[2] > p
  BY <1>5 DEF NewMatches, Matches
<1>8. ASSUME NEW m \in M PROVE m = <<a, b>> /\ ls[k] > 1 /\ c < f[k] /\ f[k] <= c + n
  <2>1. m[1] \in 1 .. p + n /\ m[2] \in 1 .. p + n /\ m = <<m[1], m[2]>> /\ ls[k] > 1 /\ m[2] > p
    BY <1>7
  <2>2. c - p + m[1] = f[k - 1] + 1
    <3>1. PICK q \in 1 .. N : \E j \in 1 .. ls[q] : c - p + m[1] = f[q - 1] + j /\ buf[m[1]] = <<q, j>>
      BY <1>6, <2>1
    <3>2. PICK j \in 1 .. ls[q] : c - p + m[1] = f[q - 1] + j /\ buf[m[1]] = <<q, j>>
      BY <3>1
    <3>3. q = k /\ j = 1
      BY <1>7, <3>2
    <3>. QED BY <3>2, <3>3
  <2>3. c - p + m[2] = f[k - 1] + ls[k]
    <3>1. PICK q \in 1 .. N : \E j \in 1 .. ls[q] : c - p + m[2] = f[q - 1] + j /\ buf[m[2]] = <<q, j>>
      BY <1>6, <2>1
    <3>2. PICK j \in 1 .. ls[q] : c - p + m[2] = f[q - 1] + j /\ buf[m[2]] = <<q, j>>
      BY <3>1
    <3>3. <<q, j>> = <<k, ls[k]>>
      BY <1>7, <3>2
    <3>4. q = k /\ j = ls[k]
      BY ONLY <3>3
    <3>. QED BY <3>2, <3>4
  <2>6. c - p + m[1] = f[k - 1] + 1 /\ c - p + m[2] = f[k - 1] + ls[k]
    BY <2>2, <2>3
  <2> DEFINE x == m[1]
             y == m[2]
             fa == f[k - 1]
             fb == f[k]
             lk == ls[k]
  <2>7. /\ c - p + x = fa + 1 /\ c - p + y = fa + lk /\ fb = fa + lk /\ fa \in Nat /\ lk \in Nat
        /\ x \in 1 .. p + n /\ y \in 1 .. p + n /\ y > p
    BY <1>4, <2>1, <2>6
  <2> HIDE DEF x, y, fa, fb, lk
  <2>8. x = fa + 1 - (c - p) /\ y = fb - (c - p) /\ c < fb /\ fb <= c + n
    BY <1>n, <2>7
  <2>9. m[1] = a /\ m[2] = b /\ c < f[k] /\ f[k] <= c + n
    BY <2>8 DEF x, y, fa, fb
  <2>. QED BY <2>1, <2>9
<1>9. ASSUME ls[k] > 1, c < f[k], f[k] <= c + n PROVE <<a, b>> \in M
  <2>1. a \in 1 .. p + n /\ b \in 1 .. p + n /\ b > p /\ a <= b /\ c - p + a = f[k - 1] + 1 /\ c - p + b = f[k - 1] + ls[k]
    <3> DEFINE fa == f[k - 1]
               fb == f[k]
               lk == ls[k]
    <3>1. /\ fb = fa + lk /\ fa \in Nat /\ lk \in Nat /\ lk > 1 /\ lk <= Overlap + 1 /\ c < fb /\ fb <= c + n
          /\ p = c \/ (p = Overlap /\ Overlap <= c)
      BY <1>4, <1>9, <1>g
    <3> HIDE DEF fa, fb, lk
    <3> DEFINE x == fa + 1 - (c - p)
               y == fb - (c - p)
    <3>2. /\ x \in 1 .. p + n /\ y \in 1 .. p + n /\ y > p /\ x <= y
          /\ c - p + x = fa + 1 /\ c - p + y = fa + lk
      BY <1>2, <1>n, <3>1
    <3>. QED BY <3>2 DEF fa, fb, lk
  <2>2. \A j \in 1 .. ls[k] : s[f[k - 1] + j] = <<k, j>>
    BY <1>3 DEF Laid, N
  <2>3. 1 \in 1 .. ls[k] /\ ls[k] \in 1 .. ls[k]
    BY <1>4
  <2>4. buf[a] = <<k, 1>> /\ buf[b] = <<k, ls[k]>>
    BY <1>5, <2>1, <2>2, <2>3
  <2> DEFINE m == <<a, b>>
  <2>5. m \in (DOMAIN buf) \X (DOMAIN buf) /\ m[1] = a /\ m[2] = b
    BY <1>5, <2>1
  <2> HIDE DEF m, a, b
  <2> DEFINE u == buf[m[1]]
             v == buf[m[2]]
  <2>u. u = <<k, 1>> /\ v = <<k, ls[k]>>
    BY <2>4, <2>5
  <2> HIDE DEF u, v
  <2>v. u[1] = k /\ u[2] = 1 /\ v = <<u[1], ls[u[1]]>> /\ ls[u[1]] > 1
    BY <1>9, <2>u
  <2>6. m \in Matches(buf, ls)
    BY <2>1, <2>5, <2>v DEF Matches, u, v
  <2>. QED BY <2>1, <2>4, <2>5, <2>6 DEF NewMatches, m
<1> HIDE DEF M, a, b
<1>m. NewOf(buf, ls, p, k) = M
  BY DEF NewOf, M
<1>10. CASE ls[k] > 1 /\ c < f[k] /\ f[k] <= c + n
  <2>1. M = {<<a, b>>}
    BY <1>8, <1>9, <1>10
  <2>2. Cardinality(M) = 1
    BY <2>1, FS_Singleton
  <2>. QED BY <1>10, <1>m, <2>2
<1>11. CASE ~(ls[k] > 1 /\ c < f[k] /\ f[k] <= c + n)
  <2>1. M = {}
    BY <1>8, <1>11
  <2>2. Cardinality(M) = 0
    BY <2>1, FS_EmptySet
  <2>. QED BY <1>11, <1>m, <2>2
<1>. QED BY <1>10, <1>11

\* A chunk is scanned.
LEMMA ScanReads ==
    ASSUME NEW a \in StreamRec, Len(a.answers) = Len(a.lengths), NEW f, NEW c, Offsets(a.lengths, f), ScannedTo(a, f, c),
           NEW n \in 1 .. Len(a.rest)
    PROVE  LET r == Scan(a, SubSeq(a.rest, 1, n)) IN
           r \in StreamRec /\ r.lengths = a.lengths /\ Len(r.answers) = Len(a.answers) /\ ScannedTo(r, f, c + n)
<1> DEFINE chunk == SubSeq(a.rest, 1, n)
           buf == a.pend \o chunk
           p == Len(a.pend)
           from == IF Len(buf) > Overlap THEN Len(buf) - Overlap + 1 ELSE 1
           count(k) == Cardinality({m \in NewMatches(Matches(buf, a.lengths), p) : buf[m[1]][1] = k})
           ans == [k \in DOMAIN a.answers |-> a.answers[k] + count(k)]
           r == Scan(a, chunk)
           s == StreamOf(a.lengths)
           N == Len(a.lengths)
<1>1. /\ a.lengths \in Seq(Replies) /\ a.rest \in Seq(Nat \X Nat) /\ a.pend \in Seq(Nat \X Nat) /\ a.answers \in Seq(Nat)
      /\ N \in Nat /\ p \in Nat /\ Overlap \in Nat \ {0}
  BY RepliesAreShort DEF StreamRec
<1>2. f[N] \in Nat /\ \A k \in 1 .. N : f[k] \in Nat
  <2>1. f \in [0 .. N -> Nat]
    BY DEF Offsets
  <2>2. N \in 0 .. N /\ \A k \in 1 .. N : k \in 0 .. N
    BY <1>1
  <2>. QED BY <2>1, <2>2
<1>3. /\ c \in 0 .. f[N] /\ Len(a.rest) = f[N] - c /\ n \in Nat /\ c + n <= f[N] /\ c \in Nat
      /\ \A i \in 1 .. Len(a.rest) : a.rest[i] = s[c + i]
      /\ p = c \/ (p = Overlap /\ Overlap <= c)
      /\ \A i \in 1 .. p : a.pend[i] = s[c - p + i]
      /\ \A k \in 1 .. N : a.answers[k] = IF a.lengths[k] > 1 /\ f[k] <= c THEN 1 ELSE 0
  <2>1. /\ c \in 0 .. f[N] /\ Len(a.rest) = f[N] - c
        /\ \A i \in 1 .. Len(a.rest) : a.rest[i] = s[c + i]
        /\ p = c \/ (p = Overlap /\ Overlap <= c)
        /\ \A i \in 1 .. p : a.pend[i] = s[c - p + i]
        /\ \A k \in 1 .. N : a.answers[k] = IF a.lengths[k] > 1 /\ f[k] <= c THEN 1 ELSE 0
    BY DEF ScannedTo
  <2>2. n \in Nat /\ c + n <= f[N] /\ c \in Nat
    BY <1>2, <2>1
  <2>. QED BY <2>1, <2>2
<1>4. r = [a EXCEPT !.pend = SubSeq(buf, from, Len(buf)), !.answers = ans, !.rest = SubSeq(@, Len(chunk) + 1, Len(@))]
  BY DEF Scan
<1> HIDE DEF s, N, r
<1>5. chunk \in Seq(Nat \X Nat) /\ Len(chunk) = n /\ \A i \in 1 .. n : chunk[i] = s[c + i]
  <2>1. chunk \in Seq(Nat \X Nat) /\ Len(chunk) = n /\ \A i \in 1 .. n : chunk[i] = a.rest[i] /\ i \in 1 .. Len(a.rest)
    BY <1>1
  <2>. QED BY <1>3, <2>1
<1> HIDE DEF chunk
<1>6. buf \in Seq(Nat \X Nat) /\ Len(buf) = p + n /\ \A i \in 1 .. p + n : buf[i] = s[c - p + i]
  <2>1. /\ buf \in Seq(Nat \X Nat) /\ Len(buf) = p + n
        /\ \A i \in 1 .. p : buf[i] = a.pend[i]
        /\ \A i \in 1 .. n : buf[p + i] = chunk[i]
    <3> DEFINE P == Nat \X Nat
    <3>1. a.pend \in Seq(P) /\ chunk \in Seq(P)
      BY <1>1, <1>5
    <3> HIDE DEF P
    <3>2. /\ a.pend \o chunk \in Seq(P) /\ Len(a.pend \o chunk) = Len(a.pend) + Len(chunk)
          /\ \A i \in 1 .. Len(a.pend) : (a.pend \o chunk)[i] = a.pend[i]
          /\ \A i \in 1 .. Len(chunk) : (a.pend \o chunk)[Len(a.pend) + i] = chunk[i]
      BY ONLY <3>1, JoinIsSeq
    <3>. QED BY <1>5, <3>2 DEF P
  <2>2. ASSUME NEW i \in 1 .. p + n PROVE buf[i] = s[c - p + i]
    <3>1. CASE i \in 1 .. p
      BY <1>3, <2>1, <3>1
    <3>2. CASE i \notin 1 .. p
      <4>1. i - p \in 1 .. n /\ p + (i - p) = i /\ c - p + i = c + (i - p)
        <5>1. p \in Nat /\ n \in Nat /\ c \in Nat /\ i \in 1 .. p + n /\ i \notin 1 .. p
          BY <1>1, <1>3, <3>2
        <5> HIDE DEF p
        <5>. QED BY <5>1
      <4> HIDE DEF buf
      <4>2. buf[p + (i - p)] = chunk[i - p]
        BY <2>1, <4>1
      <4>. QED BY <1>5, <4>1, <4>2
    <3>. QED BY <3>1, <3>2
  <2>. QED BY <2>1, <2>2
<1> HIDE DEF buf, p
<1>7. \A k \in 1 .. N : count(k) = IF a.lengths[k] > 1 /\ c < f[k] /\ f[k] <= c + n THEN 1 ELSE 0
  <2> SUFFICES ASSUME NEW k \in 1 .. N PROVE count(k) = IF a.lengths[k] > 1 /\ c < f[k] /\ f[k] <= c + n THEN 1 ELSE 0
    OBVIOUS
  <2>1. /\ a.lengths \in Seq(Replies) /\ Offsets(a.lengths, f) /\ c \in Nat /\ n \in Nat /\ c + n <= f[Len(a.lengths)]
        /\ p \in Nat /\ (p = c \/ (p = Overlap /\ Overlap <= c))
        /\ buf \in Seq(Nat \X Nat) /\ Len(buf) = p + n /\ \A i \in 1 .. p + n : buf[i] = StreamOf(a.lengths)[c - p + i]
        /\ k \in 1 .. Len(a.lengths)
    BY <1>1, <1>3, <1>6 DEF N, s
  <2> DEFINE ls == a.lengths
  <2>2. count(k) = Cardinality(NewOf(buf, ls, p, k))
    BY DEF NewOf
  <2> HIDE DEF ls, count
  <2>3. Looked(ls, f, c, n, p, buf) /\ k \in 1 .. Len(ls)
    BY <2>1 DEF ls, Looked
  <2>4. Cardinality(NewOf(buf, ls, p, k)) = IF ls[k] > 1 /\ c < f[k] /\ f[k] <= c + n THEN 1 ELSE 0
    BY ONLY <2>3, MatchesOfOne
  <2>. QED BY <2>2, <2>4 DEF ls
<1>8. ans \in Seq(Nat) /\ Len(ans) = N /\ \A k \in 1 .. N : ans[k] = IF a.lengths[k] > 1 /\ f[k] <= c + n THEN 1 ELSE 0
  <2>1. DOMAIN a.answers = 1 .. N
    BY <1>1 DEF N
  <2> HIDE DEF count
  <2>2. \A k \in 1 .. N : ans[k] = a.answers[k] + count(k)
    BY <2>1
  <2>3. ASSUME NEW k \in 1 .. N PROVE ans[k] = (IF a.lengths[k] > 1 /\ f[k] <= c + n THEN 1 ELSE 0) /\ ans[k] \in Nat
    <3>1. f[k] \in Nat
      BY <1>2
    <3>2. CASE a.lengths[k] > 1 /\ f[k] <= c
      <4>1. a.answers[k] = 1 /\ count(k) = 0 /\ f[k] <= c + n
        BY <1>3, <1>7, <3>1, <3>2
      <4>. QED BY <2>2, <3>2, <4>1
    <3>3. CASE a.lengths[k] > 1 /\ ~(f[k] <= c)
      <4>1. a.answers[k] = 0 /\ count(k) = (IF f[k] <= c + n THEN 1 ELSE 0)
        BY <1>3, <1>7, <3>1, <3>3
      <4>. QED BY <2>2, <3>3, <4>1
    <3>4. CASE ~(a.lengths[k] > 1)
      <4>1. a.answers[k] = 0 /\ count(k) = 0
        BY <1>3, <1>7, <3>4
      <4>. QED BY <2>2, <3>4, <4>1
    <3>. QED BY <3>2, <3>3, <3>4
  <2>4. ans = [k \in 1 .. N |-> ans[k]]
    BY <2>1
  <2> HIDE DEF ans
  <2>5. ans \in [1 .. N -> Nat]
    BY <2>3, <2>4
  <2>6. N \in Nat
    BY <1>1
  <2>7. ans \in Seq(Nat) /\ Len(ans) = N
    BY ONLY <2>5, <2>6, FunctionIsSeq
  <2>. QED BY <2>3, <2>7
<1> HIDE DEF ans, count
<1>9. /\ SubSeq(a.rest, n + 1, Len(a.rest)) \in Seq(Nat \X Nat)
      /\ Len(SubSeq(a.rest, n + 1, Len(a.rest))) = f[N] - (c + n)
      /\ \A i \in 1 .. f[N] - (c + n) : SubSeq(a.rest, n + 1, Len(a.rest))[i] = s[(c + n) + i]
  <2>1. /\ SubSeq(a.rest, n + 1, Len(a.rest)) \in Seq(Nat \X Nat)
        /\ Len(SubSeq(a.rest, n + 1, Len(a.rest))) = Len(a.rest) - n
        /\ \A i \in 1 .. Len(a.rest) - n : SubSeq(a.rest, n + 1, Len(a.rest))[i] = a.rest[n + i] /\ n + i \in 1 .. Len(a.rest)
    <3> DEFINE P == Nat \X Nat
               rest == a.rest
    <3>1. rest \in Seq(P) /\ n + 1 \in 1 .. Len(rest) + 1
      BY <1>1, <1>3
    <3> HIDE DEF P, rest
    <3>2. /\ SubSeq(rest, n + 1, Len(rest)) \in Seq(P) /\ Len(SubSeq(rest, n + 1, Len(rest))) = Len(rest) - (n + 1) + 1
          /\ \A i \in 1 .. Len(rest) - (n + 1) + 1 : SubSeq(rest, n + 1, Len(rest))[i] = rest[n + 1 - 1 + i]
      BY ONLY <3>1, RestIsSeq
    <3>3. Len(rest) \in Nat /\ Len(rest) - (n + 1) + 1 = Len(rest) - n /\ \A i \in 1 .. Len(rest) - n : n + i \in 1 .. Len(rest) /\ n + 1 - 1 + i = n + i
      BY <1>3, <3>1
    <3>. QED BY <3>2, <3>3 DEF P, rest
  <2>2. Len(a.rest) - n = f[N] - (c + n) /\ \A i \in 1 .. Len(a.rest) - n : c + (n + i) = (c + n) + i
    BY <1>2, <1>3
  <2>3. \A i \in 1 .. Len(a.rest) - n : a.rest[n + i] = s[c + (n + i)]
    BY <1>3, <2>1
  <2>. QED BY <2>1, <2>2, <2>3
<1>10. from \in 1 .. p + n /\ (Len(buf) > Overlap => from = p + n - Overlap + 1) /\ (~(Len(buf) > Overlap) => from = 1)
  <2> DEFINE o == Overlap
             w == p + n
  <2>1. o \in Nat \ {0} /\ w \in Nat \ {0} /\ Len(buf) = w
    BY <1>1, <1>3, <1>6
  <2>3. from = IF w > o THEN w - o + 1 ELSE 1
    BY <2>1
  <2> HIDE DEF o, w, from
  <2>2. (w > o => w - o + 1 \in 1 .. w) /\ 1 \in 1 .. w
    BY <2>1
  <2>4. from \in 1 .. w /\ (w > o => from = w - o + 1) /\ (~(w > o) => from = 1)
    BY <2>1, <2>2, <2>3
  <2>5. w = p + n
    BY DEF w
  <2>6. o = Overlap
    BY DEF o
  <2>7. Len(buf) = p + n
    BY <1>6
  <2>8. from \in 1 .. p + n
    BY <2>4, <2>5
  <2>9. Len(buf) > Overlap => from = p + n - Overlap + 1
    <3>1. p \in Nat /\ n \in Nat /\ Overlap \in Nat
      BY <1>1, <1>3
    <3>. QED BY ONLY <2>1, <2>4, <2>5, <2>6, <2>7, <3>1
  <2>10. ~(Len(buf) > Overlap) => from = 1
    BY ONLY <2>1, <2>4, <2>5, <2>6, <2>7
  <2>. QED BY <2>8, <2>9, <2>10
<1> HIDE DEF from
<1> DEFINE kept == SubSeq(buf, from, Len(buf))
           l == p + n - from + 1
<1>11. /\ kept \in Seq(Nat \X Nat) /\ Len(kept) = l /\ l \in Nat
       /\ \A i \in 1 .. l : kept[i] = buf[from - 1 + i] /\ from - 1 + i \in 1 .. p + n
  <2> DEFINE P == Nat \X Nat
  <2>1. buf \in Seq(P) /\ from \in 1 .. Len(buf) + 1 /\ Len(buf) = p + n
    BY <1>1, <1>3, <1>6, <1>10
  <2> HIDE DEF P
  <2>2. /\ SubSeq(buf, from, Len(buf)) \in Seq(P) /\ Len(SubSeq(buf, from, Len(buf))) = Len(buf) - from + 1
        /\ \A i \in 1 .. Len(buf) - from + 1 : SubSeq(buf, from, Len(buf))[i] = buf[from - 1 + i]
    BY ONLY <2>1, RestIsSeq
  <2>3. l \in Nat /\ \A i \in 1 .. l : from - 1 + i \in 1 .. p + n
    BY <1>1, <1>3, <1>10
  <2>4. Len(buf) - from + 1 = l
    BY <1>1, <1>3, <1>6, <1>10
  <2>. QED BY <2>2, <2>3, <2>4 DEF P
<1>12. l = c + n \/ (l = Overlap /\ Overlap <= c + n)
  BY <1>1, <1>3, <1>6, <1>10
<1>13. \A i \in 1 .. l : kept[i] = s[(c + n) - l + i]
  <2>1. \A i \in 1 .. l : c - p + (from - 1 + i) = (c + n) - l + i
    <3> SUFFICES ASSUME NEW i \in 1 .. l PROVE c - p + (from - 1 + i) = (c + n) - l + i
      OBVIOUS
    <3>1. p \in Nat /\ n \in Nat /\ c \in Nat /\ from \in Nat /\ i \in Nat /\ l = p + n - from + 1
      BY <1>1, <1>3, <1>10, <1>11
    <3> HIDE DEF l
    <3>. QED BY <3>1
  <2>. QED BY <1>6, <1>11, <2>1
<1> HIDE DEF kept, l
<1>14. /\ r \in StreamRec /\ r.lengths = a.lengths /\ r.answers = ans /\ r.pend = kept
       /\ r.rest = SubSeq(a.rest, n + 1, Len(a.rest))
  BY <1>4, <1>5, <1>8, <1>9, <1>11 DEF StreamRec, kept
<1>15. c + n \in 0 .. f[N]
  BY <1>2, <1>3
<1>16. ScannedTo(r, f, c + n)
  BY <1>8, <1>9, <1>11, <1>12, <1>13, <1>14, <1>15 DEF ScannedTo, N, s
<1>. QED BY <1>8, <1>14, <1>16 DEF r, chunk, N
-----------------------------------------------------------------------------
\* A stream that was just given is as yet unread.
LEMMA GivenIsScanned ==
    ASSUME NEW ls \in Seq(Replies),
           NEW a, a = [lengths |-> ls, rest |-> StreamOf(ls), pend |-> <<>>, answers |-> [k \in DOMAIN ls |-> 0]]
    PROVE  a \in StreamRec /\ Len(a.answers) = Len(a.lengths) /\ \E f, c : Offsets(a.lengths, f) /\ ScannedTo(a, f, c)
<1> DEFINE zeros == [k \in DOMAIN ls |-> 0]
           N == Len(ls)
<1>1. ls \in Seq(Nat) /\ N \in Nat /\ DOMAIN ls = 1 .. N /\ \A k \in 1 .. N : ls[k] \in Nat \ {0}
  BY RepliesInStream, RepliesAreShort
<1>2. PICK f : Offsets(ls, f)
  BY <1>1, OffsetsExist
<1>3. Laid(ls, f, StreamOf(ls), N)
  BY <1>1, <1>2, StreamIsLaid
<1>4. StreamOf(ls) \in Seq(Nat \X Nat) /\ Len(StreamOf(ls)) = f[N] /\ f[N] \in Nat
  <2>1. N \in 0 .. N
    BY <1>1
  <2>. QED BY <1>2, <1>3, <2>1 DEF Offsets, Laid
<1>5. zeros \in Seq(Nat) /\ Len(zeros) = N /\ \A k \in 1 .. N : zeros[k] = 0
  <2>1. zeros \in [1 .. N -> Nat] /\ \A k \in 1 .. N : zeros[k] = 0
    BY <1>1
  <2> HIDE DEF zeros, N
  <2>2. zeros \in Seq(Nat) /\ Len(zeros) = N
    BY ONLY <1>1, <2>1, FunctionIsSeq
  <2>. QED BY <2>1, <2>2
<1>6. \A k \in 1 .. N : ~(f[k] <= 0)
  <2> SUFFICES ASSUME NEW k \in 1 .. N PROVE ~(f[k] <= 0)
    OBVIOUS
  <2>1. k \in 1 .. N /\ k - 1 \in 0 .. N
    BY <1>1
  <2>2. f[k] = f[k - 1] + ls[k] /\ f[k - 1] \in Nat
    BY <1>2, <2>1 DEF Offsets
  <2>. QED BY <1>1, <2>2
<1>7. /\ a.lengths = ls /\ a.rest = StreamOf(ls) /\ a.pend = <<>> /\ a.answers = zeros
  OBVIOUS
<1> HIDE DEF zeros
<1>8. a \in StreamRec
  <2>1. <<>> \in Seq(Nat \X Nat)
    OBVIOUS
  <2>. QED BY <1>4, <1>5, <2>1 DEF StreamRec, zeros
<1>9. ScannedTo(a, f, 0)
  <2>1. Len(a.pend) = 0 /\ 0 \in 0 .. f[N] /\ f[N] - 0 = f[N]
    BY <1>4, <1>7
  <2>2. \A i \in 1 .. Len(a.rest) : 0 + i = i
    BY <1>4, <1>7
  <2>3. \A i \in 1 .. Len(a.pend) : FALSE
    BY <2>1
  <2>. QED BY <1>4, <1>5, <1>6, <1>7, <2>1, <2>2, <2>3 DEF ScannedTo
<1>. QED BY <1>2, <1>5, <1>7, <1>8, <1>9

\* No step loses the place in the stream.
LEMMA QueriesKeep == QueriesInv /\ [MuxNext]_muxVars => QueriesInv'
<1> SUFFICES ASSUME QueriesInv, [MuxNext]_muxVars PROVE QueriesInv'
  OBVIOUS
<1>1. CASE GivesStream
  <2>1. PICK ls \in BoundedSeq(Replies, MaxQueries) :
           queries' = [lengths |-> ls, rest |-> StreamOf(ls), pend |-> <<>>, answers |-> [k \in DOMAIN ls |-> 0]]
    BY <1>1 DEF GivesStream
  <2>2. ls \in Seq(Replies)
    <3>1. PICK m \in 0 .. MaxQueries : ls \in [1 .. m -> Replies]
      BY DEF BoundedSeq, SeqOf
    <3>2. m \in Nat
      BY MuxAssumption
    <3>. QED BY ONLY <3>1, <3>2, FunctionIsSeq
  <2> DEFINE a == queries'
  <2>3. a \in StreamRec /\ Len(a.answers) = Len(a.lengths) /\ \E f, c : Offsets(a.lengths, f) /\ ScannedTo(a, f, c)
    <3> HIDE DEF a
    <3>1. a = [lengths |-> ls, rest |-> StreamOf(ls), pend |-> <<>>, answers |-> [k \in DOMAIN ls |-> 0]]
      BY <2>1 DEF a
    <3>. QED BY <2>2, <3>1, GivenIsScanned
  <2>. QED BY <2>3 DEF QueriesInv
<1>2. CASE Scans
  <2>1. PICK n \in 1 .. Len(queries.rest) : queries' = Scan(queries, SubSeq(queries.rest, 1, n))
    BY <1>2 DEF Scans
  <2>2. PICK f, c : Offsets(queries.lengths, f) /\ ScannedTo(queries, f, c)
    BY DEF QueriesInv
  <2>3. queries \in StreamRec /\ Len(queries.answers) = Len(queries.lengths)
    BY DEF QueriesInv
  <2> DEFINE r == Scan(queries, SubSeq(queries.rest, 1, n))
  <2>4. r \in StreamRec /\ r.lengths = queries.lengths /\ Len(r.answers) = Len(queries.answers) /\ ScannedTo(r, f, c + n)
    BY <2>2, <2>3, ScanReads
  <2> HIDE DEF r
  <2>5. queries' = r
    BY <2>1 DEF r
  <2>. QED BY <2>2, <2>3, <2>4, <2>5 DEF QueriesInv
<1>3. CASE UNCHANGED queries
  BY <1>3 DEF QueriesInv
<1>4. GivesStream \/ Scans \/ UNCHANGED queries
  BY DEF MuxNext, muxVars, StartMux, Drop, KillAll, OfSession, GoesOn, ProgramPrints, ProgramEnds, Reads1, ReaderLeaves, TakeChunk,
         TickFlush, Flush, CollectorLeaves, Waits, SendsDone, Drains, At, UpdateStatus
<1>. QED BY <1>1, <1>2, <1>3, <1>4

\* At first there is no stream.
LEMMA QueriesStart == MuxInit => QueriesInv
<1> SUFFICES ASSUME MuxInit PROVE QueriesInv
  OBVIOUS
<1> DEFINE ls == <<>>
           a == queries
<1>1. a = [lengths |-> <<>>, rest |-> <<>>, pend |-> <<>>, answers |-> <<>>]
  BY DEF MuxInit
<1>2. ls \in Seq(Replies) /\ ls \in Seq(Nat) /\ Len(ls) = 0
  OBVIOUS
<1>3. PICK f : Offsets(ls, f)
  BY <1>2, OffsetsExist
<1>4. f[0] = 0
  BY <1>3 DEF Offsets
<1>5. a \in StreamRec /\ Len(a.answers) = Len(a.lengths) /\ a.lengths = <<>> /\ Len(a.rest) = 0 /\ Len(a.pend) = 0
  BY <1>1 DEF StreamRec
<1>6. ScannedTo(a, f, 0)
  <2>1. 0 \in 0 .. f[Len(a.lengths)] /\ Len(a.rest) = f[Len(a.lengths)] - 0
    BY <1>2, <1>4, <1>5
  <2>2. (\A i \in 1 .. Len(a.rest) : FALSE) /\ (\A i \in 1 .. Len(a.pend) : FALSE) /\ (\A k \in 1 .. Len(a.lengths) : FALSE)
    BY <1>2, <1>5
  <2>. QED BY <1>5, <2>1, <2>2 DEF ScannedTo
<1>. QED BY <1>3, <1>5, <1>6 DEF QueriesInv

\* The k-th query was read whole when no more is left than what comes after it.
LEMMA QueriesAnswer == QueriesInv => EachQueryAnsweredOnce
<1> SUFFICES ASSUME QueriesInv, NEW k \in DOMAIN queries.lengths
             PROVE  queries.answers[k] =
                      IF queries.lengths[k] > 1
                         /\ Len(queries.rest) <= Len(StreamOf(SubSeq(queries.lengths, k + 1, Len(queries.lengths)))) THEN 1 ELSE 0
  BY DEF EachQueryAnsweredOnce
<1> DEFINE ls == queries.lengths
           N == Len(ls)
<1>1. PICK f, c : Offsets(ls, f) /\ ScannedTo(queries, f, c)
  BY DEF QueriesInv
<1>2. ls \in Seq(Replies)
  BY DEF QueriesInv, StreamRec
<1>3. ls \in Seq(Nat) /\ N \in Nat /\ k \in 1 .. N
  BY <1>2, RepliesInStream
<1>4. /\ c \in 0 .. f[N] /\ Len(queries.rest) = f[N] - c
      /\ queries.answers[k] = IF ls[k] > 1 /\ f[k] <= c THEN 1 ELSE 0
  BY <1>1, <1>3 DEF ScannedTo
<1>5. f[N] \in Nat /\ f[k] \in Nat
  <2>1. N \in 0 .. N /\ k \in 0 .. N
    BY <1>3
  <2>. QED BY <1>1, <2>1 DEF Offsets
<1> DEFINE after == Len(StreamOf(SubSeq(ls, k + 1, N)))
<1>6. after = f[N] - f[k]
  <2>1. k \in 0 .. Len(ls)
    BY <1>3
  <2> HIDE DEF ls
  <2>. QED BY <1>1, <1>3, <2>1, RestIsASuffix DEF N
<1>7. Len(queries.rest) <= after <=> f[k] <= c
  <2> DEFINE x == f[N]
             y == f[k]
  <2>1. x \in Nat /\ y \in Nat /\ c \in Int /\ Len(queries.rest) = x - c /\ after = x - y
    BY <1>4, <1>5, <1>6
  <2> HIDE DEF x, y, after
  <2>2. Len(queries.rest) <= after <=> y <= c
    BY <2>1
  <2>. QED BY <2>2 DEF y
<1>. QED BY <1>4, <1>7

-----------------------------------------------------------------------------
\* Of every number of sessions, channels of any capacity, bytes and streams of queries: what a program wrote before
\* it ended is delivered, each query is answered once wherever the reads cut it, idleness is reported once confirmed,
\* every session can go on to its end, and none runs that the manager has forgotten (session.go:107, session.go:219,
\* queries.go:45, detect.go).
THEOREM TerminalsAlwaysServed == MuxSpec => []TerminalsAreServed
<1> DEFINE Inv == MuxesInv /\ QueriesInv /\ StatusInv
<1>1. MuxInit => Inv
  BY MuxesStart, QueriesStart, StatusStarts
<1>2. Inv /\ [MuxNext]_muxVars => Inv'
  BY MuxesKeep, QueriesKeep, StatusKeeps
<1>3. Inv => TerminalsAreServed
  BY MuxesDeliver, QueriesAnswer DEF TerminalsAreServed, StatusInv
<1>. QED BY <1>1, <1>2, <1>3, PTL DEF MuxSpec
=============================================================================
