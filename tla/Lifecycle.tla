----------------------------- MODULE Lifecycle -----------------------------
(***************************************************************************)
(* How daemons come and go (tui/daemon/server.go, tui/daemon/client, lflow *)
(* serve): a client dials the socket next to the database, replaces a      *)
(* daemon of another version, starts one when none answers, and brings it  *)
(* back when it dies; a daemon binds the socket, takes over a stale one,   *)
(* and leaves when asked to or idle.  The socket file, the spawn lock and  *)
(* the processes are what the actors share; every system call on them is a *)
(* step.  Any process can be killed at any moment.                         *)
(***************************************************************************)
EXTENDS Naturals, FiniteSets

CONSTANTS
    Clients,    \* bound: the lflow processes that are ever run
    MaxDaemons, \* bound: the daemons that are ever started
    Versions,   \* the builds of lflow that are installed one after another
    Nobody

ASSUME LifeAssumption == MaxDaemons \in Nat \ {0} /\ Nobody \notin Clients \cup Nat \cup Versions

\* In the order in which they are started.
Daemons == 1..MaxDaemons

VARIABLES
    path,     \* the daemon whose socket the file names, dead or alive
    flock,    \* the client that has locked the spawn lock file
    daemon,   \* where each daemon is, and its version
    client,   \* where each client is
    torn      \* ghost: the spawn lock has been undermined

lifeVars == <<path, flock, daemon, client, torn>>

Starting == {"boot", "bind", "probe", "unlink", "rebind"}
Serving  == {"serving", "leaving"}
DaemonPc == {"none", "gone", "closing"} \cup Starting \cup Serving
ClientPc == {"new", "off", "ensure", "hello", "wait", "remove", "lock", "ping",
             "await", "dial", "last", "on", "cut"}

LifeTypeOK ==
    /\ path \in Daemons \cup {Nobody}
    /\ flock \in Clients \cup {Nobody}
    /\ daemon \in [Daemons -> [pc : DaemonPc, ver : Versions \cup {Nobody}]]
    /\ client \in [Clients -> [pc : ClientPc, ver : Versions \cup {Nobody},
                               next : {"dial", "last"}, to : Daemons \cup {Nobody}]]
    /\ torn \in BOOLEAN
    /\ \A c \in Clients : flock = c <=> client[c].pc \in {"ping", "await"}

NoClient == [pc |-> "off", ver |-> Nobody, next |-> "dial", to |-> Nobody]
NoDaemon == [pc |-> "none", ver |-> Nobody]
Gone     == [pc |-> "gone", ver |-> Nobody]

\* There has been no daemon yet, or an earlier one serves (one that a user runs by
\* hand, for example), or has left its file.
LifeInit ==
    /\ flock = Nobody /\ torn = FALSE
    /\ client = [c \in Clients |-> [NoClient EXCEPT !.pc = "new"]]
    /\ \E first \in {NoDaemon, Gone} \cup [pc : {"serving"}, ver : Versions] :
         /\ daemon = [d \in Daemons |-> IF d = 1 THEN first ELSE NoDaemon]
         /\ path = IF first = NoDaemon THEN Nobody ELSE 1

\* A dial of the socket is answered, so pingable is true.
Answers == path # Nobody /\ daemon[path].pc \in Serving

\* dialHello with a version to insist on.
Agrees(c) == Answers /\ daemon[path].ver = client[c].ver

Away(c, l) == client' = [client EXCEPT ![c].pc = l, ![c].to = Nobody]
Go(c, l)   == client' = [client EXCEPT ![c].pc = l]
Turn(d, l) == daemon' = [daemon EXCEPT ![d] = IF l = "gone" THEN Gone ELSE [@ EXCEPT !.pc = l]]
NextUp(d)  == daemon[d] = NoDaemon /\ \A e \in 1..(d - 1) : daemon[e] # NoDaemon
Runs(d)    == daemon[d].pc \notin {"none", "gone"}

-----------------------------------------------------------------------------
(* Ensure: what a new process does first.                                  *)

Begin(c, v) ==
    /\ client[c].pc = "new"
    /\ client' = [client EXCEPT ![c] = [NoClient EXCEPT !.pc = "ensure", !.ver = v]]
    /\ UNCHANGED <<path, flock, daemon, torn>>

\* A daemon answers the dial, or none does.
Ensure(c) ==
    /\ client[c].pc = "ensure"
    /\ client' = IF Answers THEN [client EXCEPT ![c].pc = "hello", ![c].to = path]
                 ELSE [client EXCEPT ![c].pc = "lock"]
    /\ UNCHANGED <<path, flock, daemon, torn>>

\* It says that it is of this version, or else is asked to shut down; or it ends
\* before it has said anything, which counts as another version.
Hello(c) ==
    LET d == client[c].to IN
    /\ client[c].pc = "hello"
    /\ \/ /\ daemon[d].pc \in Serving /\ daemon[d].ver = client[c].ver
          /\ Away(c, "dial") /\ UNCHANGED daemon
       \/ /\ daemon[d].pc \in Serving /\ daemon[d].ver # client[c].ver
          /\ Away(c, "wait") /\ Turn(d, "leaving")
       \/ /\ daemon[d].pc \notin Serving
          /\ Away(c, "wait") /\ UNCHANGED daemon
    /\ UNCHANGED <<path, flock, torn>>

\* waitGone: it no longer answers, or three seconds have passed.
WaitGone(c) ==
    /\ client[c].pc = "wait"
    /\ \/ ~Answers /\ Go(c, "remove")
       \/ Answers /\ Go(c, "lock")
    /\ UNCHANGED <<path, flock, daemon, torn>>

\* ... "the old daemon may leave its socket file behind".
RemoveFile(c) ==
    /\ client[c].pc = "remove"
    /\ path' = Nobody /\ torn' = (torn \/ Answers)
    /\ Go(c, "lock")
    /\ UNCHANGED <<flock, daemon>>

-----------------------------------------------------------------------------
(* spawn, and the dials before and after it.                               *)

\* Mutant: the lock file is opened but not locked.
Unlocked == TRUE

Free == flock = Nobody

Lock(c) ==
    /\ client[c].pc = "lock" /\ Free
    /\ flock' = c /\ Go(c, "ping")
    /\ UNCHANGED <<path, daemon, torn>>

Unlock(c) == flock' = IF flock = c THEN Nobody ELSE flock

\* spawn returns an error: Ensure ends the process, Connect fails one call of it.
Fail(c) == client' = [client EXCEPT ![c] =
              IF client[c].next = "last" THEN [@ EXCEPT !.pc = "cut", !.to = Nobody] ELSE NoClient]

\* "the race loser finds the winner's daemon already up".
FoundUp(c) ==
    /\ client[c].pc = "ping" /\ Answers
    /\ Unlock(c) /\ Go(c, client[c].next)
    /\ UNCHANGED <<path, daemon, torn>>

StartDaemon(c) ==
    /\ client[c].pc = "ping" /\ ~Answers
    /\ \E d \in Daemons :
         /\ NextUp(d)
         /\ daemon' = [daemon EXCEPT ![d] = [pc |-> "boot", ver |-> client[c].ver]]
         /\ client' = [client EXCEPT ![c].pc = "await", ![c].to = d]
    /\ UNCHANGED <<path, flock, torn>>

\* The log or the binary cannot be opened.
StartFails(c) ==
    /\ client[c].pc = "ping" /\ ~Answers
    /\ Unlock(c) /\ Fail(c)
    /\ UNCHANGED <<path, daemon, torn>>

ComesUp(c) ==
    /\ client[c].pc = "await" /\ Answers
    /\ Unlock(c) /\ client' = [client EXCEPT ![c].pc = client[c].next, ![c].to = Nobody]
    /\ UNCHANGED <<path, daemon, torn>>

\* After five seconds; the daemon that was started may still be on its way.
GivesUp(c) ==
    /\ client[c].pc = "await" /\ ~Answers
    /\ torn' = (torn \/ daemon[client[c].to].pc \in Starting)
    /\ Unlock(c)
    /\ Fail(c)
    /\ UNCHANGED <<path, daemon>>

\* Connect, dialHealing: a daemon of this version answers, or one is started.
Dial(c) ==
    /\ client[c].pc = "dial"
    /\ client' = IF Agrees(c) THEN [client EXCEPT ![c].pc = "on", ![c].to = path]
                 ELSE [client EXCEPT ![c].pc = "lock", ![c].next = "last"]
    /\ UNCHANGED <<path, flock, daemon, torn>>

\* ... and dialled once more.
DialAgain(c) ==
    /\ client[c].pc = "last"
    /\ client' = IF Agrees(c) THEN [client EXCEPT ![c].pc = "on", ![c].to = path]
                 ELSE [client EXCEPT ![c].pc = "cut"]
    /\ UNCHANGED <<path, flock, daemon, torn>>

\* A client that has lost its connection, or got none, asks again.
Redial(c) ==
    /\ client[c].pc = "cut" /\ Go(c, "dial")
    /\ UNCHANGED <<path, flock, daemon, torn>>

\* A client ends or is killed; the system unlocks what it had locked.
ProcessEnds(c) ==
    /\ client[c].pc \notin {"new", "off"}
    /\ torn' = (torn \/ (client[c].pc = "await" /\ daemon[client[c].to].pc \in Starting))
    /\ flock' = IF flock = c THEN Nobody ELSE flock
    /\ client' = [client EXCEPT ![c] = NoClient]
    /\ UNCHANGED <<path, daemon>>

-----------------------------------------------------------------------------
(* The daemon.                                                             *)

\* The database is opened and prepared, and its stale suggestions are settled.
Prepare(d) ==
    /\ daemon[d].pc = "boot" /\ Turn(d, "bind")
    /\ UNCHANGED <<path, flock, client, torn>>

\* listen: the file is created, unless there is one.
Bind(d) ==
    /\ daemon[d].pc \in {"bind", "rebind"}
    /\ \/ path = Nobody /\ path' = d /\ Turn(d, "serving")
       \/ path # Nobody /\ UNCHANGED path
          /\ Turn(d, IF daemon[d].pc = "bind" THEN "probe" ELSE "gone")
    /\ UNCHANGED <<flock, client, torn>>

\* "a live daemon answers a dial, a dead one left a stale file".
OtherServes == Answers

Probe(d) ==
    /\ daemon[d].pc = "probe"
    /\ Turn(d, IF OtherServes THEN "gone" ELSE "unlink")
    /\ UNCHANGED <<path, flock, client, torn>>

Unlink(d) ==
    /\ daemon[d].pc = "unlink" /\ Turn(d, "rebind")
    /\ path' = Nobody
    /\ UNCHANGED <<flock, client, torn>>

Conns(d) == {c \in Clients : client[c].pc \in {"hello", "on"} /\ client[c].to = d}

\* idleWatch decides; a client may still get in before stop closes the listener.
IdleExit(d) ==
    /\ daemon[d].pc = "serving" /\ Conns(d) = {}
    /\ Turn(d, "leaving")
    /\ UNCHANGED <<path, flock, client, torn>>

\* stop: closing the listener removes the file, whoever's it is by now ...
Close(d) ==
    /\ daemon[d].pc = "leaving" /\ Turn(d, "closing")
    /\ path' = Nobody
    /\ UNCHANGED <<flock, client, torn>>

\* ... and every connection is closed.
Hangup(d) == client' = [c \in Clients |->
                IF c \in Conns(d) /\ client[c].pc = "on"
                THEN [client[c] EXCEPT !.pc = "cut", !.to = Nobody] ELSE client[c]]

Exit(d) ==
    /\ daemon[d].pc = "closing" /\ Turn(d, "gone")
    /\ Hangup(d)
    /\ UNCHANGED <<path, flock, torn>>

\* It is killed, or fails while it starts; the file stays.
Crash(d) ==
    /\ Runs(d) /\ Turn(d, "gone")
    /\ Hangup(d)
    /\ UNCHANGED <<path, flock, torn>>

-----------------------------------------------------------------------------
Spawning(c) == FoundUp(c) \/ StartDaemon(c) \/ StartFails(c) \/ ComesUp(c) \/ GivesUp(c)

ClientNext(c) ==
    \/ \E v \in Versions : Begin(c, v)
    \/ Ensure(c) \/ Hello(c) \/ WaitGone(c) \/ RemoveFile(c) \/ Lock(c) \/ Spawning(c)
    \/ Dial(c) \/ DialAgain(c) \/ Redial(c) \/ ProcessEnds(c)

DaemonNext(d) ==
    \/ Prepare(d) \/ Bind(d) \/ Probe(d) \/ Unlink(d)
    \/ IdleExit(d) \/ Close(d) \/ Exit(d) \/ Crash(d)

LifeNext == (\E c \in Clients : ClientNext(c)) \/ (\E d \in Daemons : DaemonNext(d))
LifeSpec == LifeInit /\ [][LifeNext]_lifeVars

-----------------------------------------------------------------------------
(* Properties.                                                             *)

Up == {d \in Daemons : daemon[d].pc \in Serving}

\* The socket file leads to the daemon that serves, so that there is one and every
\* client finds it, whatever is killed and whichever builds meet, as long as the
\* spawn lock is not undermined: by a waitGone that removes the file of a daemon
\* that has just come up, or by a client that gives up or is killed while the daemon
\* it started is still starting.
FileLeadsToTheDaemon == torn \/ Up \subseteq {path}

\* client.go:93: "A lock file keeps two racing clients from double-spawning", and
\* serve.go:3-5: "The daemon is the single process that owns the SQLite file".
OneDaemon == \A d, e \in Up : d = e

\* As long as the lock is not undermined, a daemon that is still starting has the
\* client that started it waiting for it, spawn lock in hand, and none serves.
StartersAreAwaited ==
    torn \/ \A d \in Daemons : daemon[d].pc \in Starting =>
                /\ Up = {}
                /\ \E c \in Clients : client[c].pc = "await" /\ client[c].to = d

\* Who waits for a daemon, or speaks to one, knows which.
AwaitedAreKnown == \A c \in Clients : client[c].pc \in {"await", "hello"} => client[c].to \in Daemons

LifeInv == LifeTypeOK /\ FileLeadsToTheDaemon /\ StartersAreAwaited /\ AwaitedAreKnown

\* While no shutdown has taken the socket of another daemon away, the socket file leads to the daemon that serves,
\* through restarts and upgrades of several clients at once (client.go:100, client.go:103).
DaemonIsFound == LifeInv
=============================================================================
