---------------------------- MODULE SshExecProofs ----------------------------
(***************************************************************************)
(* Proofs about SshExec, for any execs and any number of faults: an exec   *)
(* that was settled leaves nothing on a connection, and no connection but  *)
(* the current one lives.  IInv is inductive: it ties the mutex to the     *)
(* connection being made, and channels to the connections they are on.     *)
(***************************************************************************)
EXTENDS SshExec, TLAPS

\* The connection that is being made is the current one, and an exec in the mutex
\* makes it.
ConnectingIsCurrent ==
    /\ mutex # None => conn # None /\ sock[conn] = "connecting"
    /\ \A c \in Conns : sock[c] = "connecting" => c = conn /\ mutex # None

\* An exec has a listener and a channel on the connection that it got, once its
\* loop is over.
ChannelsFollow ==
    \A e \in Execs :
      /\ pc[e] = "connected" => got[e] # None
      /\ pc[e] # "ended" => on[e] = None /\ chan[e] = "none"
      /\ on[e] \in {None, got[e]}
      /\ chan[e] # "none" => got[e] # None /\ sock[got[e]] \notin {"unused", "connecting"}

\* The inductive invariant.
IInv ==
    /\ TypeOK /\ OnlyCurrentIsLive /\ SettledLeavesNothing
    /\ ConnectingIsCurrent /\ ChannelsFollow

\* Every step keeps the variables typed, and the mutex with its exec.
LEMMA TypesNext ==
  ASSUME IInv, [Next]_vars
  PROVE  TypeOK'
<1> USE ExecsAssumption, FaultsAssumption DEF IInv, TypeOK, ConnectingIsCurrent, Conns,
     None
<1>1. ASSUME NEW e \in Execs, timers' = timers, Call(e) \/ Loop(e) \/
             UseReconnected(e) \/ Abandon(e) \/ NotConnected(e) \/ Wake(e)
      PROVE  TypeOK'
  BY <1>1 DEF Call, Loop, UseReconnected, Abandon, NotConnected, Wake, IsReady,
       Settled
<1>2. ASSUME NEW e \in Execs, timers' = timers, Reconnect(e)
      PROVE  TypeOK'
  BY <1>2 DEF Reconnect, IsReady, Ending
<1>3. ASSUME NEW e \in Execs, timers' = timers, OpenChannel(e)
      PROVE  TypeOK'
  BY <1>3 DEF OpenChannel, Settled
<1>4. ASSUME NEW e \in Execs, timers' = timers, ChannelOpens(e)
      PROVE  TypeOK'
  BY <1>4 DEF ChannelOpens, Settle, Settled
<1>5. ASSUME NEW e \in Execs, timers' = timers, ChannelRefused(e)
      PROVE  TypeOK'
  BY <1>5 DEF ChannelRefused, Settle, Settled
<1>6. ASSUME NEW e \in Execs, timers' = timers, ChannelCloses(e)
      PROVE  TypeOK'
  BY <1>6 DEF ChannelCloses, Settle, Settled
<1>7. ASSUME NEW e \in Execs, timers' = timers, ExecThrows(e)
      PROVE  TypeOK'
  BY <1>7 DEF ExecThrows, Settle, Settled
<1>8. ASSUME NEW e \in Execs, timers' = timers, Timeout(e)
      PROVE  TypeOK'
  BY <1>8 DEF Timeout, Settle, Settled
<1>9. ASSUME NEW c \in Conns, timers' = timers, Ready(c)
      PROVE  TypeOK'
  BY <1>9 DEF Ready, Observe
<1>10. ASSUME NEW c \in Conns, timers' = timers, ConnectFails(c)
      PROVE  TypeOK'
  BY <1>10 DEF ConnectFails, Observe, Settle, Settled
<1>11. ASSUME NEW c \in Conns, timers' = timers, Dies(c)
      PROVE  TypeOK'
  BY <1>11 DEF Dies
<1>12. ASSUME NEW c \in Conns, timers' = timers, Errors(c)
      PROVE  TypeOK'
  BY <1>12 DEF Errors, Observe
<1>13. ASSUME NEW c \in Conns, timers' = timers, Ends(c)
      PROVE  TypeOK'
  <2>1. /\ UNCHANGED <<timers, conn, mutex, pc, got, chan, faults>>
        /\ sock' = [sock EXCEPT ![c] = "ended"]
        /\ connState' \in {connState, "ended"}
    BY <1>13 DEF Ends, Observe
  <2>2. result' \in [Execs -> {"pending", "resolved", "rejected", "disconnected",
                              "timeout"}]
    BY <1>13 DEF Ends, Settle
  <2>3. on' \in [Execs -> Conns \cup {None}]
    BY <1>13 DEF Ends
  <2>4. QED
    BY <2>1, <2>2, <2>3
<1>14. ASSUME NEW c \in Conns, timers' = timers, Closes(c)
      PROVE  TypeOK'
  <2>1. /\ UNCHANGED <<timers, conn, mutex, pc, got, faults>>
        /\ sock' = [sock EXCEPT ![c] = "closed"]
        /\ connState' \in {connState, "closed"}
    BY <1>14 DEF Closes, Observe
  <2>2. result' \in [Execs -> {"pending", "resolved", "rejected", "disconnected",
                              "timeout"}]
    BY <1>14 DEF Closes, Settle
  <2>3. on' \in [Execs -> Conns \cup {None}]
    BY <1>14 DEF Closes
  <2>4. chan' \in [Execs -> {"none", "opening", "open", "closed"}]
    BY <1>14 DEF Closes
  <2>5. QED
    BY <2>1, <2>2, <2>3, <2>4
<1>15. CASE UNCHANGED vars
  BY <1>15 DEF vars, client
<1>16. QED
  BY <1>1, <1>2, <1>3, <1>4, <1>5, <1>6, <1>7, <1>8, <1>9, <1>10, <1>11, <1>12,
     <1>13, <1>14, <1>15 DEF Next, Step, ExecStep

\* A reconnection ends the connection it replaces.
LEMMA CurrentNext ==
  ASSUME IInv, [Next]_vars
  PROVE  OnlyCurrentIsLive'
<1> USE ExecsAssumption, FaultsAssumption DEF IInv, TypeOK, OnlyCurrentIsLive,
     SettledLeavesNothing, ConnectingIsCurrent, ChannelsFollow, Conns, None
<1>1. ASSUME NEW e \in Execs, timers' = timers, Call(e) \/ Loop(e) \/
             UseReconnected(e) \/ Abandon(e) \/ NotConnected(e) \/ Wake(e)
      PROVE  OnlyCurrentIsLive'
  BY <1>1 DEF Call, Loop, UseReconnected, Abandon, NotConnected, Wake, IsReady,
       Settled
<1>2. ASSUME NEW e \in Execs, timers' = timers, Reconnect(e)
      PROVE  OnlyCurrentIsLive'
  BY <1>2 DEF Reconnect, IsReady, Ending
<1>3. ASSUME NEW e \in Execs, timers' = timers, OpenChannel(e)
      PROVE  OnlyCurrentIsLive'
  BY <1>3 DEF OpenChannel, Settled
<1>4. ASSUME NEW e \in Execs, timers' = timers, ChannelOpens(e) \/
             ChannelRefused(e) \/ ChannelCloses(e)
      PROVE  OnlyCurrentIsLive'
  BY <1>4 DEF ChannelOpens, ChannelRefused, ChannelCloses, Settle, Settled
<1>5. ASSUME NEW e \in Execs, timers' = timers, ExecThrows(e) \/ Timeout(e)
      PROVE  OnlyCurrentIsLive'
  BY <1>5 DEF ExecThrows, Timeout, Settle, Settled
<1>6. ASSUME NEW c \in Conns, timers' = timers, Ready(c)
      PROVE  OnlyCurrentIsLive'
  BY <1>6 DEF Ready, Observe, Settled
<1>7. ASSUME NEW c \in Conns, timers' = timers, ConnectFails(c)
      PROVE  OnlyCurrentIsLive'
  BY <1>7 DEF ConnectFails, Observe, Settle, Settled
<1>8. ASSUME NEW c \in Conns, timers' = timers, Dies(c) \/ Errors(c)
      PROVE  OnlyCurrentIsLive'
  BY <1>8 DEF Dies, Errors, Observe
<1>9. ASSUME NEW c \in Conns, timers' = timers, Ends(c) \/ Closes(c)
      PROVE  OnlyCurrentIsLive'
  BY <1>9 DEF Ends, Closes, Observe, Settle, Settled, Listeners
<1>10. CASE UNCHANGED vars
  BY <1>10 DEF vars, client, Settled
<1>11. QED
  BY <1>1, <1>2, <1>3, <1>4, <1>5, <1>6, <1>7, <1>8, <1>9, <1>10 DEF Next, Step,
     ExecStep

\* Only the exec in the mutex connects, and what it makes is current.
LEMMA ConnectingNext ==
  ASSUME IInv, [Next]_vars
  PROVE  ConnectingIsCurrent'
<1> USE ExecsAssumption, FaultsAssumption DEF IInv, TypeOK, OnlyCurrentIsLive,
     SettledLeavesNothing, ConnectingIsCurrent, ChannelsFollow, Conns, None
<1>1. ASSUME NEW e \in Execs, timers' = timers, Call(e) \/ Loop(e) \/
             UseReconnected(e) \/ Abandon(e) \/ NotConnected(e) \/ Wake(e)
      PROVE  ConnectingIsCurrent'
  BY <1>1 DEF Call, Loop, UseReconnected, Abandon, NotConnected, Wake, IsReady,
       Settled
<1>2. ASSUME NEW e \in Execs, timers' = timers, Reconnect(e)
      PROVE  ConnectingIsCurrent'
  BY <1>2 DEF Reconnect, IsReady, Ending
<1>3. ASSUME NEW e \in Execs, timers' = timers, OpenChannel(e)
      PROVE  ConnectingIsCurrent'
  BY <1>3 DEF OpenChannel, Settled
<1>4. ASSUME NEW e \in Execs, timers' = timers, ChannelOpens(e) \/
             ChannelRefused(e) \/ ChannelCloses(e)
      PROVE  ConnectingIsCurrent'
  BY <1>4 DEF ChannelOpens, ChannelRefused, ChannelCloses, Settle, Settled
<1>5. ASSUME NEW e \in Execs, timers' = timers, ExecThrows(e) \/ Timeout(e)
      PROVE  ConnectingIsCurrent'
  BY <1>5 DEF ExecThrows, Timeout, Settle, Settled
<1>6. ASSUME NEW c \in Conns, timers' = timers, Ready(c)
      PROVE  ConnectingIsCurrent'
  BY <1>6 DEF Ready, Observe, Settled
<1>7. ASSUME NEW c \in Conns, timers' = timers, ConnectFails(c)
      PROVE  ConnectingIsCurrent'
  BY <1>7 DEF ConnectFails, Observe, Settle, Settled
<1>8. ASSUME NEW c \in Conns, timers' = timers, Dies(c) \/ Errors(c)
      PROVE  ConnectingIsCurrent'
  BY <1>8 DEF Dies, Errors, Observe
<1>9. ASSUME NEW c \in Conns, timers' = timers, Ends(c) \/ Closes(c)
      PROVE  ConnectingIsCurrent'
  BY <1>9 DEF Ends, Closes, Observe, Settle, Settled, Listeners
<1>10. CASE UNCHANGED vars
  BY <1>10 DEF vars, client, Settled
<1>11. QED
  BY <1>1, <1>2, <1>3, <1>4, <1>5, <1>6, <1>7, <1>8, <1>9, <1>10 DEF Next, Step,
     ExecStep

\* Listeners and channels follow the connection that their exec got.
LEMMA ChannelsNext ==
  ASSUME IInv, [Next]_vars
  PROVE  ChannelsFollow'
<1> USE ExecsAssumption, FaultsAssumption DEF IInv, TypeOK, OnlyCurrentIsLive,
     SettledLeavesNothing, ConnectingIsCurrent, ChannelsFollow, Conns, None
<1>1. ASSUME NEW e \in Execs, timers' = timers, Call(e) \/ Loop(e) \/
             UseReconnected(e) \/ Abandon(e) \/ NotConnected(e) \/ Wake(e)
      PROVE  ChannelsFollow'
  BY <1>1 DEF Call, Loop, UseReconnected, Abandon, NotConnected, Wake, IsReady,
       Settled
<1>2. ASSUME NEW e \in Execs, timers' = timers, Reconnect(e)
      PROVE  ChannelsFollow'
  BY <1>2 DEF Reconnect, IsReady, Ending
<1>3. ASSUME NEW e \in Execs, timers' = timers, OpenChannel(e)
      PROVE  ChannelsFollow'
  BY <1>3 DEF OpenChannel, Settled
<1>4. ASSUME NEW e \in Execs, timers' = timers, ChannelOpens(e) \/
             ChannelRefused(e) \/ ChannelCloses(e)
      PROVE  ChannelsFollow'
  BY <1>4 DEF ChannelOpens, ChannelRefused, ChannelCloses, Settle, Settled
<1>5. ASSUME NEW e \in Execs, timers' = timers, ExecThrows(e) \/ Timeout(e)
      PROVE  ChannelsFollow'
  BY <1>5 DEF ExecThrows, Timeout, Settle, Settled
<1>6. ASSUME NEW c \in Conns, timers' = timers, Ready(c)
      PROVE  ChannelsFollow'
  BY <1>6 DEF Ready, Observe, Settled
<1>7. ASSUME NEW c \in Conns, timers' = timers, ConnectFails(c)
      PROVE  ChannelsFollow'
  BY <1>7 DEF ConnectFails, Observe, Settle, Settled
<1>8. ASSUME NEW c \in Conns, timers' = timers, Dies(c) \/ Errors(c)
      PROVE  ChannelsFollow'
  BY <1>8 DEF Dies, Errors, Observe
<1>9. ASSUME NEW c \in Conns, timers' = timers, Ends(c) \/ Closes(c)
      PROVE  ChannelsFollow'
  BY <1>9 DEF Ends, Closes, Observe, Settle, Settled, Listeners
<1>10. CASE UNCHANGED vars
  BY <1>10 DEF vars, client, Settled
<1>11. QED
  BY <1>1, <1>2, <1>3, <1>4, <1>5, <1>6, <1>7, <1>8, <1>9, <1>10 DEF Next, Step,
     ExecStep

\* Settling takes the listener away, and the channel if it is open; a channel that
\* opens later is destroyed.
LEMMA SettledNext ==
  ASSUME IInv, [Next]_vars
  PROVE  SettledLeavesNothing'
<1> USE ExecsAssumption, FaultsAssumption DEF IInv, TypeOK, OnlyCurrentIsLive,
     SettledLeavesNothing, ConnectingIsCurrent, ChannelsFollow, Conns, None
<1>1. ASSUME NEW e \in Execs, timers' = timers, Call(e) \/ Loop(e) \/
             UseReconnected(e) \/ Abandon(e) \/ NotConnected(e) \/ Wake(e)
      PROVE  SettledLeavesNothing'
  BY <1>1 DEF Call, Loop, UseReconnected, Abandon, NotConnected, Wake, IsReady,
       Settled
<1>2. ASSUME NEW e \in Execs, timers' = timers, Reconnect(e)
      PROVE  SettledLeavesNothing'
  BY <1>2 DEF Reconnect, IsReady, Ending, Settled
<1>3. ASSUME NEW e \in Execs, timers' = timers, OpenChannel(e)
      PROVE  SettledLeavesNothing'
  BY <1>3 DEF OpenChannel, Settled
<1>4. ASSUME NEW e \in Execs, timers' = timers, ChannelOpens(e) \/
             ChannelRefused(e) \/ ChannelCloses(e)
      PROVE  SettledLeavesNothing'
  BY <1>4 DEF ChannelOpens, ChannelRefused, ChannelCloses, Settle, Settled
<1>5. ASSUME NEW e \in Execs, timers' = timers, ExecThrows(e) \/ Timeout(e)
      PROVE  SettledLeavesNothing'
  BY <1>5 DEF ExecThrows, Timeout, Settle, Settled
<1>6. ASSUME NEW c \in Conns, timers' = timers, Ready(c)
      PROVE  SettledLeavesNothing'
  BY <1>6 DEF Ready, Observe, Settled
<1>7. ASSUME NEW c \in Conns, timers' = timers, ConnectFails(c)
      PROVE  SettledLeavesNothing'
  BY <1>7 DEF ConnectFails, Observe, Settle, Settled
<1>8. ASSUME NEW c \in Conns, timers' = timers, Dies(c) \/ Errors(c)
      PROVE  SettledLeavesNothing'
  BY <1>8 DEF Dies, Errors, Observe, Settled
<1>9. ASSUME NEW c \in Conns, timers' = timers, Ends(c) \/ Closes(c)
      PROVE  SettledLeavesNothing'
  BY <1>9 DEF Ends, Closes, Observe, Settle, Settled, Listeners
<1>10. CASE UNCHANGED vars
  BY <1>10 DEF vars, client, Settled
<1>11. QED
  BY <1>1, <1>2, <1>3, <1>4, <1>5, <1>6, <1>7, <1>8, <1>9, <1>10 DEF Next, Step,
     ExecStep

\* The initial states satisfy the inductive invariant.
LEMMA InitIInv == Init => IInv
BY ExecsAssumption, FaultsAssumption
   DEF Init, IInv, TypeOK, OnlyCurrentIsLive, SettledLeavesNothing,
       ConnectingIsCurrent, ChannelsFollow, Settled, Conns, None

\* Every step preserves the inductive invariant.
LEMMA NextIInv == IInv /\ [Next]_vars => IInv'
BY TypesNext, CurrentNext, SettledNext, ConnectingNext, ChannelsNext DEF IInv

\* The client's fields, connections and execs are always typed, and the mutex is
\* held by the one exec that is connecting.
THEOREM TypeCorrect == Spec => []TypeOK
<1>1. IInv => TypeOK
  BY DEF IInv
<1>2. QED
  BY <1>1, InitIInv, NextIInv, PTL DEF Spec

\* An exec that was settled, by whatever came first, leaves no listener and no
\* open channel on a connection that is up.
THEOREM NothingIsLeft == Spec => []SettledLeavesNothing
<1>1. IInv => SettledLeavesNothing
  BY DEF IInv
<1>2. QED
  BY <1>1, InitIInv, NextIInv, PTL DEF Spec

\* However many execs reconnect at once, no connection but the current one is
\* left without end().
THEOREM OneConnectionLives == Spec => []OnlyCurrentIsLive
<1>1. IInv => OnlyCurrentIsLive
  BY DEF IInv
<1>2. QED
  BY <1>1, InitIInv, NextIInv, PTL DEF Spec

=============================================================================
