------------------------------ MODULE SshExec ------------------------------
(***************************************************************************)
(* Commands over one shared ssh connection                                 *)
(* (src/utils/zfs_ssh_exec_client.js, SshClient with                       *)
(* SSH_REUSE_CONNECTION unset).                                            *)
(*                                                                         *)
(* An exec is an async loop (pc) that gets a connection, listens to its    *)
(* end/close events and opens a channel on it, and a promise (result) that *)
(* the channel, the connection or a timer settles, whichever is first; the *)
(* loop goes on for a while after its promise has been settled.  Every     *)
(* reconnection makes a new ssh2 Client: connections are numbered, and the *)
(* events of an old one may arrive at any later time.                      *)
(*                                                                         *)
(* Code between two awaits is one step.  The steps of one macrotask that   *)
(* are separate microtasks are separate here too, so more interleavings    *)
(* are checked than node produces.                                         *)
(***************************************************************************)
EXTENDS Naturals

CONSTANTS
    Execs,          \* the calls to exec()
    MaxFaults       \* bound: faults of connections in a behaviour

ASSUME FaultsAssumption == MaxFaults \in Nat

\* 0 (None, below) stands for a free mutex and for no connection.
ASSUME ExecsAssumption == 0 \notin Execs

\* Each connection after the first replaces one that had a fault.
Conns == 1..(MaxFaults + 1)

None == 0

VARIABLES
    conn,       \* the current connection (this.conn), or None
    connState,  \* this.conn_state
    sock,       \* sock[c]: what connection c really is
    mutex,      \* the exec that runs inside conn_mutex, or None
    pc,         \* pc[e]: where the loop of exec e is
    got,        \* got[e]: the loop's local conn
    on,         \* on[e]: the connection e listens to, or None
    chan,       \* chan[e]: the channel of e on connection got[e]
    result,     \* result[e]: what the promise of e was settled with
    faults,     \* how much of MaxFaults is used up
    timers      \* whether execTimeoutMs > 0, for good

client == <<conn, connState, sock, mutex, pc, got, on, chan, result, faults>>
vars == <<client, timers>>

Settled(e) == result[e] # "pending"

\* settle() with its guard: the first outcome wins.
Settle(es, outcome) ==
    result' = [e \in Execs |->
                 IF e \in es /\ ~ Settled(e) THEN outcome ELSE result[e]]

\* Mutant: the events of a replaced connection still count.
ObserveAll(c, state) == connState' = state

\* An event of connection c tells the client's state only while c is current.
Observe(c, state) ==
    connState' = IF c = conn THEN state ELSE connState

Listeners(c) == {e \in Execs : on[e] = c}

----------------------------------------------------------------------------
Init ==
    /\ timers \in BOOLEAN
    /\ conn = None
    /\ connState = "none"
    /\ sock = [c \in Conns |-> "unused"]
    /\ mutex = None
    /\ pc = [e \in Execs |-> "idle"]
    /\ got = [e \in Execs |-> None]
    /\ on = [e \in Execs |-> None]
    /\ chan = [e \in Execs |-> "none"]
    /\ result = [e \in Execs |-> "pending"]
    /\ faults = 0

IsReady == conn # None /\ connState = "ready"

Call(e) ==
    /\ pc[e] = "idle"
    /\ pc' = [pc EXCEPT ![e] = "loop"]
    /\ UNCHANGED <<conn, connState, sock, mutex, got, on, chan, result, faults>>

\* Head of the loop: leave when settled; otherwise connect(), which returns
\* the shared connection or queues on conn_mutex.
Loop(e) ==
    /\ pc[e] = "loop"
    /\ pc' = [pc EXCEPT ![e] = IF Settled(e) THEN "ended"
                               ELSE IF IsReady THEN "connected" ELSE "queued"]
    /\ got' = [got EXCEPT ![e] = IF IsReady THEN conn ELSE @]
    /\ UNCHANGED <<conn, connState, sock, mutex, on, chan, result, faults>>

\* Someone else has reconnected while e was queued on the mutex.
UseReconnected(e) ==
    /\ pc[e] = "queued" /\ mutex = None
    /\ IsReady
    /\ pc' = [pc EXCEPT ![e] = "connected"]
    /\ got' = [got EXCEPT ![e] = conn]
    /\ UNCHANGED <<conn, connState, sock, mutex, on, chan, result, faults>>

\* end() on a client: its socket closes some time later.
Ending(s) == IF s \in {"up", "dead", "connecting"} THEN "ending" ELSE s

\* Mutant: the previous client is dropped without end().
ReconnectLeaking(e) ==
    /\ pc[e] = "queued" /\ mutex = None
    /\ ~ IsReady
    /\ \E c \in Conns :
         /\ sock[c] = "unused"
         /\ \A d \in Conns : d < c => sock[d] # "unused"
         /\ conn' = c
         /\ sock' = [sock EXCEPT ![c] = "connecting"]
    /\ connState' = "connecting"
    /\ mutex' = e
    /\ pc' = [pc EXCEPT ![e] = "connecting"]
    /\ UNCHANGED <<got, on, chan, result, faults>>

\* _connect() inside the mutex: end the previous client, make a new one.
Reconnect(e) ==
    /\ pc[e] = "queued" /\ mutex = None
    /\ ~ IsReady
    /\ \E c \in Conns :
         /\ sock[c] = "unused"
         /\ \A d \in Conns : d < c => sock[d] # "unused"
         /\ conn' = c
         /\ sock' = [d \in Conns |-> IF d = c THEN "connecting"
                                     ELSE IF d = conn THEN Ending(sock[d])
                                     ELSE sock[d]]
    /\ connState' = "connecting"
    /\ mutex' = e
    /\ pc' = [pc EXCEPT ![e] = "connecting"]
    /\ UNCHANGED <<got, on, chan, result, faults>>

\* Mutant: conn_mutex is not released.
ReadyKeepsMutex(c) ==
    /\ sock[c] = "connecting"
    /\ sock' = [sock EXCEPT ![c] = "up"]
    /\ Observe(c, "ready")
    /\ pc' = [pc EXCEPT ![mutex] = "connected"]
    /\ got' = [got EXCEPT ![mutex] = c]
    /\ UNCHANGED <<conn, mutex, on, chan, result, faults>>

\* 'ready': the exec in the mutex gets the connection and frees the mutex.
Ready(c) ==
    /\ sock[c] = "connecting"
    /\ sock' = [sock EXCEPT ![c] = "up"]
    /\ Observe(c, "ready")
    /\ mutex' = None
    /\ pc' = [pc EXCEPT ![mutex] = "connected"]
    /\ got' = [got EXCEPT ![mutex] = c]
    /\ UNCHANGED <<conn, on, chan, result, faults>>

\* 'error' or 'close' before 'ready', or connect() threw: the client is ended
\* and the exec in the mutex is rejected.
ConnectFails(c) ==
    /\ faults < MaxFaults
    /\ sock[c] = "connecting"
    /\ sock' = [sock EXCEPT ![c] = "ending"]
    /\ Observe(c, "error")
    /\ mutex' = None
    /\ pc' = [pc EXCEPT ![mutex] = "ended"]
    /\ Settle({mutex}, "rejected")
    /\ faults' = faults + 1
    /\ UNCHANGED <<conn, got, on, chan>>

\* The exec was settled while it was connecting: its loop ends.
Abandon(e) ==
    /\ pc[e] = "connected"
    /\ Settled(e)
    /\ pc' = [pc EXCEPT ![e] = "ended"]
    /\ UNCHANGED <<conn, connState, sock, mutex, got, on, chan, result, faults>>

\* Listen to the connection and ask for a channel; the loop is over.
OpenChannel(e) ==
    /\ pc[e] = "connected"
    /\ ~ Settled(e)
    /\ sock[got[e]] = "up"
    /\ on' = [on EXCEPT ![e] = got[e]]
    /\ chan' = [chan EXCEPT ![e] = "opening"]
    /\ pc' = [pc EXCEPT ![e] = "ended"]
    /\ UNCHANGED <<conn, connState, sock, mutex, got, result, faults>>

\* conn.exec() throws "Not connected": stop listening, mark the connection
\* dead if it is still taken for ready, and try again in a second.
NotConnected(e) ==
    /\ pc[e] = "connected"
    /\ ~ Settled(e)
    /\ sock[got[e]] # "up"
    /\ connState' = IF conn = got[e] /\ connState = "ready"
                      THEN "closed" ELSE connState
    /\ pc' = [pc EXCEPT ![e] = "sleeping"]
    /\ UNCHANGED <<conn, sock, mutex, got, on, chan, result, faults>>

\* conn.exec() throws anything else: the exec is rejected.
ExecThrows(e) ==
    /\ pc[e] = "connected"
    /\ ~ Settled(e)
    /\ faults < MaxFaults
    /\ Settle({e}, "rejected")
    /\ pc' = [pc EXCEPT ![e] = "ended"]
    /\ faults' = faults + 1
    /\ UNCHANGED <<conn, connState, sock, mutex, got, on, chan>>

Wake(e) ==
    /\ pc[e] = "sleeping"
    /\ pc' = [pc EXCEPT ![e] = "loop"]
    /\ UNCHANGED <<conn, connState, sock, mutex, got, on, chan, result, faults>>

----------------------------------------------------------------------------
(* The channel of an exec.                                                 *)

\* Mutant: a channel that opens after the exec was settled is kept.
ChannelOpensKept(e) ==
    /\ chan[e] = "opening"
    /\ sock[got[e]] = "up"
    /\ chan' = [chan EXCEPT ![e] = "open"]
    /\ UNCHANGED <<conn, connState, sock, mutex, pc, got, on, result, faults>>

\* onExec(null, stream): a channel nobody waits for any more is destroyed.
ChannelOpens(e) ==
    /\ chan[e] = "opening"
    /\ sock[got[e]] = "up"
    /\ chan' = [chan EXCEPT ![e] = IF Settled(e) THEN "closed" ELSE "open"]
    /\ UNCHANGED <<conn, connState, sock, mutex, pc, got, on, result, faults>>

\* onExec(err): the server refuses the channel.
ChannelRefused(e) ==
    /\ faults < MaxFaults
    /\ chan[e] = "opening"
    /\ chan' = [chan EXCEPT ![e] = "closed"]
    /\ Settle({e}, "rejected")
    /\ on' = [on EXCEPT ![e] = None]
    /\ faults' = faults + 1
    /\ UNCHANGED <<conn, connState, sock, mutex, pc, got>>

\* The stream's 'close': the command has ended.
ChannelCloses(e) ==
    /\ chan[e] = "open"
    /\ sock[got[e]] = "up"
    /\ chan' = [chan EXCEPT ![e] = "closed"]
    /\ Settle({e}, "resolved")
    /\ on' = [on EXCEPT ![e] = None]
    /\ UNCHANGED <<conn, connState, sock, mutex, pc, got, faults>>

\* Mutant: the timer runs only once the channel is open.
TimeoutOfOpen(e) ==
    /\ timers
    /\ chan[e] = "open"
    /\ ~ Settled(e)
    /\ Settle({e}, "timeout")
    /\ on' = [on EXCEPT ![e] = None]
    /\ chan' = [chan EXCEPT ![e] = "closed"]
    /\ UNCHANGED <<conn, connState, sock, mutex, pc, got, faults>>

\* The exec timer fires: the exec is rejected and its channel destroyed.
Timeout(e) ==
    /\ timers
    /\ pc[e] # "idle"
    /\ ~ Settled(e)
    /\ Settle({e}, "timeout")
    /\ on' = [on EXCEPT ![e] = None]
    /\ chan' = [chan EXCEPT ![e] = IF @ = "open" THEN "closed" ELSE @]
    /\ UNCHANGED <<conn, connState, sock, mutex, pc, got, faults>>

----------------------------------------------------------------------------
(* The connections.                                                        *)

\* The socket stops being writable before any event says so.
Dies(c) ==
    /\ faults < MaxFaults
    /\ sock[c] = "up"
    /\ sock' = [sock EXCEPT ![c] = "dead"]
    /\ faults' = faults + 1
    /\ UNCHANGED <<conn, connState, mutex, pc, got, on, chan, result>>

\* 'error' on a connection in use (a keepalive that is not answered); the
\* execs only hear of it by the 'close' that follows.
Errors(c) ==
    /\ sock[c] = "dead"
    /\ sock' = [sock EXCEPT ![c] = "ending"]
    /\ Observe(c, "error")
    /\ UNCHANGED <<conn, mutex, pc, got, on, chan, result, faults>>

\* 'end': every exec that listens to c is rejected.
Ends(c) ==
    /\ sock[c] \in {"dead", "ending"}
    /\ sock' = [sock EXCEPT ![c] = "ended"]
    /\ Observe(c, "ended")
    /\ Settle(Listeners(c), "disconnected")
    /\ on' = [e \in Execs |-> IF on[e] = c THEN None ELSE on[e]]
    /\ UNCHANGED <<conn, mutex, pc, got, chan, faults>>

\* Mutant: an exec in flight hears of the end of its connection from nobody.
ClosesUnheard(c) ==
    /\ sock[c] \in {"ending", "ended"}
    /\ sock' = [sock EXCEPT ![c] = "closed"]
    /\ Observe(c, "closed")
    /\ UNCHANGED <<conn, mutex, pc, got, on, chan, result, faults>>

\* 'close': the same, and c's channel manager errors its channels out.
Closes(c) ==
    /\ sock[c] \in {"ending", "ended"}
    /\ sock' = [sock EXCEPT ![c] = "closed"]
    /\ Observe(c, "closed")
    /\ Settle(Listeners(c), "disconnected")
    /\ on' = [e \in Execs |-> IF on[e] = c THEN None ELSE on[e]]
    /\ chan' = [e \in Execs |->
                  IF got[e] = c /\ chan[e] # "none" THEN "closed" ELSE chan[e]]
    /\ UNCHANGED <<conn, mutex, pc, got, faults>>

----------------------------------------------------------------------------
ExecStep(e) ==
    \/ Call(e) \/ Loop(e) \/ UseReconnected(e) \/ Reconnect(e) \/ Abandon(e)
    \/ OpenChannel(e) \/ NotConnected(e) \/ Wake(e)

Step ==
    \/ \E e \in Execs :
         \/ ExecStep(e) \/ ExecThrows(e)
         \/ ChannelOpens(e) \/ ChannelRefused(e) \/ ChannelCloses(e)
         \/ Timeout(e)
    \/ \E c \in Conns :
         \/ Ready(c) \/ ConnectFails(c)
         \/ Dies(c) \/ Errors(c) \/ Ends(c) \/ Closes(c)

Next == Step /\ UNCHANGED timers

Spec == Init /\ [][Next]_vars

\* The event loop runs what can run; timers fire; connections that are dead
\* or being ended do close (keepalive); connecting succeeds or fails
\* (readyTimeout).  With timers, commands and channel requests may stay
\* unanswered; without, the server answers and its commands end.
Fairness ==
    /\ \A e \in Execs :
         /\ WF_client(ExecStep(e)) /\ WF_client(Timeout(e))
         /\ WF_client(~ timers /\ ChannelOpens(e))
         /\ WF_client(~ timers /\ ChannelCloses(e))
    /\ \A c \in Conns :
         /\ WF_client(Ready(c))
         /\ WF_client(Errors(c) \/ Ends(c) \/ Closes(c))

FairSpec == Spec /\ Fairness

----------------------------------------------------------------------------
\* The types of the client's fields, of the connections and of the execs; the
\* mutex is held by the one exec that is connecting.
TypeOK ==
    /\ timers \in BOOLEAN
    /\ conn \in Conns \cup {None}
    /\ connState \in {"none", "connecting", "ready", "ended", "closed", "error"}
    /\ sock \in [Conns -> {"unused", "connecting", "up", "dead", "ending",
                           "ended", "closed"}]
    /\ mutex \in Execs \cup {None}
    /\ pc \in [Execs -> {"idle", "loop", "queued", "connecting", "connected",
                         "sleeping", "ended"}]
    /\ got \in [Execs -> Conns \cup {None}]
    /\ on \in [Execs -> Conns \cup {None}]
    /\ chan \in [Execs -> {"none", "opening", "open", "closed"}]
    /\ result \in [Execs -> {"pending", "resolved", "rejected",
                             "disconnected", "timeout"}]
    /\ faults \in 0..MaxFaults
    /\ \A e \in Execs : pc[e] = "connecting" <=> mutex = e

\* A settled exec leaves nothing on the shared connection: no listener, and no
\* open channel unless the connection is on its way out (a channel that opens
\* late is destroyed).
SettledLeavesNothing ==
    \A e \in Execs :
      Settled(e) =>
        /\ on[e] = None
        /\ chan[e] = "open" => sock[got[e]] # "up"

\* Every connection but the current one has been ended: reconnecting does not
\* leak sockets, however many execs reconnect at once.
OnlyCurrentIsLive ==
    \A c \in Conns \ {conn} : sock[c] \in {"unused", "ending", "ended", "closed"}

\* Every exec that was called is settled: in the end no caller (and no
\* operation lock) waits on ssh, though connections are replaced under the
\* channels in flight and events of old ones come late.
EveryExecSettles == \A e \in Execs : pc[e] # "idle" ~> Settled(e)

=============================================================================
