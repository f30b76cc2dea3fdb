---------------------- MODULE ServiceConnectionProofs -----------------------
(***************************************************************************)
(* Theorems about ServiceConnection, for any number of services and of     *)
(* main channels.                                                          *)
(***************************************************************************)
EXTENDS ServiceConnection, TLAPS

State == {"open", "closed", "dropped"}

USE DEF Connected

LEMMA InitConnection == Init => ConnectionInvariant
  <1> SUFFICES ASSUME Init PROVE ConnectionInvariant OBVIOUS
  <1>1. main = <<>> /\ ready = "unresolved" BY DEF Init
  <1>2. TypeOK
    <2>1. main \in Seq({"open", "closed", "dropped"}) /\ Len(main) <= MaxMain
      BY <1>1, ConnectionAssumption
    <2>2. /\ listen \in [Path -> {"uncalled", "waiting", "opening", "recorded"}]
          /\ pending \in [Path -> 0 .. MaxMain] /\ channel \in [Path -> 0 .. MaxMain]
          /\ rpc \in [Path -> 0 .. MaxMain]
      BY ConnectionAssumption DEF Init
    <2>3. call \in [Path -> Call] BY ConnectionAssumption DEF Init, Call
    <2> QED BY <1>1, <2>1, <2>2, <2>3 DEF TypeOK
  <1>3. (ready = "resolved" <=> Connected) /\ OnlyLastIsOpen
    BY <1>1 DEF OnlyLastIsOpen, Mains
  <1>4. \A p \in Path : ProxyBelongs(p) BY DEF Init, ProxyBelongs
  <1> QED BY <1>2, <1>3, <1>4 DEF ConnectionInvariant

\* What becomes of the main channels when one is opened, replaced and closed.
LEMMA MainAppended ==
    ASSUME NEW s \in Seq(State), NEW x \in State
    PROVE  /\ Append(s, x) \in Seq(State) /\ Len(Append(s, x)) = Len(s) + 1
           /\ \A n \in 1 .. Len(s) : Append(s, x)[n] = s[n]
           /\ Append(s, x)[Len(s) + 1] = x
  BY DEF State

LEMMA LastReplaced ==
    ASSUME NEW s \in Seq(State), s # <<>>, NEW x \in State
    PROVE  LET t == [s EXCEPT ![Len(s)] = x]
           IN /\ t \in Seq(State) /\ Len(t) = Len(s) /\ t # <<>>
              /\ \A n \in 1 .. Len(s) : t[n] = IF n = Len(s) THEN x ELSE s[n]
  BY DEF State

\* The main channel opens for the paths of Opens, whatever main was before: the
\* channels before the new one are not open any more.
LEMMA CreatedOnNew ==
    ASSUME ConnectionInvariant, NEW s \in Seq(State), Len(s) = Len(main), Len(main) < MaxMain,
           \A n \in 1 .. Len(main) :
             s[n] # "open" /\ (main[n] = "open" => s[n] = "dropped") /\ (main[n] # "open" => s[n] = main[n]),
           main' = Append(s, "open"), Created(Len(main) + 1), UNCHANGED <<channel, rpc, call>>
    PROVE  ConnectionInvariant'
  <1>1. /\ main' \in Seq(State) /\ Len(main') = Len(main) + 1
        /\ \A n \in 1 .. Len(main) : main'[n] = s[n]
        /\ main'[Len(main')] = "open"
    BY MainAppended DEF State
  <1>2. Len(main) \in Nat BY DEF ConnectionInvariant, TypeOK
  <1>3. TypeOK'
    BY <1>1, <1>2, ConnectionAssumption DEF ConnectionInvariant, TypeOK, Created, Opens, State
  <1>4. (ready = "resolved" <=> Connected)' /\ OnlyLastIsOpen'
    BY <1>1, <1>2 DEF Connected, OnlyLastIsOpen, Mains, Created
  <1>5. ASSUME NEW p \in Path PROVE ProxyBelongs(p)'
    <2>1. ProxyBelongs(p) BY DEF ConnectionInvariant
    <2>2. ~ (listen[p] = "waiting")' BY DEF ConnectionInvariant, TypeOK, Created
    <2>3. ASSUME NEW n \in Mains, Belongs(p, n) PROVE n \in Mains' /\ Belongs(p, n)'
      BY <1>1, <1>2, <2>3 DEF Mains, Belongs
    <2> QED BY <2>1, <2>2, <2>3 DEF ProxyBelongs
  <1> QED BY <1>3, <1>4, <1>5 DEF ConnectionInvariant

\* The close event reaches everything that belongs to the channel that closes.
LEMMA CloseKeepsInvariant ==
    ConnectionInvariant /\ MainChannelCloses => ConnectionInvariant'
  <1> SUFFICES ASSUME ConnectionInvariant, MainChannelCloses PROVE ConnectionInvariant' OBVIOUS
  <1> USE DEF ConnectionInvariant
  <1>0. ready' = "unresolved" BY DEF MainChannelCloses
  <1>1. /\ main' \in Seq(State) /\ Len(main') = Len(main) /\ Len(main) \in 1 .. Len(main)
        /\ \A n \in 1 .. Len(main) : main'[n] = IF n = Len(main) THEN "closed" ELSE main[n]
    BY LastReplaced DEF TypeOK, MainChannelCloses, Connected, State
  <1>2. TypeOK'
    <2>1. channel' \in [Path -> 0 .. MaxMain] BY ConnectionAssumption DEF MainChannelCloses, TypeOK
    <2>2. rpc' \in [Path -> 0 .. MaxMain] BY ConnectionAssumption DEF MainChannelCloses, TypeOK, WaitForConnection
    <2>3. call' \in [Path -> Call] BY ConnectionAssumption DEF MainChannelCloses, TypeOK, Call
    <2> QED BY <1>1, <2>1, <2>2, <2>3 DEF MainChannelCloses, TypeOK, State
  <1>3. (ready = "resolved" <=> Connected)' /\ OnlyLastIsOpen'
    <2>1. main'[Len(main')] = "closed" BY <1>1
    <2>2. \A n \in 1 .. Len(main') : main'[n] # "open"
      <3> SUFFICES ASSUME NEW n \in 1 .. Len(main), n # Len(main) PROVE main[n] # "open" BY <1>1
      <3> QED BY DEF OnlyLastIsOpen, Mains
    <2> QED BY <1>0, <2>1, <2>2 DEF OnlyLastIsOpen, Mains
  <1>4. ASSUME NEW p \in Path PROVE ProxyBelongs(p)'
    <2>1. ProxyBelongs(p) OBVIOUS
    <2>2. (listen[p] = "waiting" => ready = "unresolved")' BY DEF MainChannelCloses
    <2>3. ASSUME NEW n \in Mains, Belongs(p, n), ~ (channel[p] = Len(main) /\ n = Len(main))
          PROVE  n \in Mains' /\ Belongs(p, n)'
      BY <1>1, <2>3 DEF Mains, Belongs, OnlyLastIsOpen, MainChannelCloses, Connected
    <2>4. \A n \in Mains : Belongs(p, n) /\ n = Len(main) => channel[p] = Len(main)
      BY DEF Belongs, MainChannelCloses, Connected
    <2>5. (rpc[p] # 0 => rpc[p] \in Mains /\ Belongs(p, rpc[p]))'
      BY <2>1, <2>3, <2>4 DEF ProxyBelongs, MainChannelCloses, WaitForConnection, TypeOK
    <2>6. (call[p].state = "sent" => call[p].on \in Mains /\ Belongs(p, call[p].on))'
      BY <2>1, <2>3, <2>4 DEF ProxyBelongs, MainChannelCloses, TypeOK, Call
    <2> QED BY <2>2, <2>5, <2>6 DEF ProxyBelongs
  <1> QED BY <1>2, <1>3, <1>4

\* The steps by which the main channel changes.
LEMMA MainChannelStep ==
    ConnectionInvariant /\ (MainChannelOpens \/ MainChannelReplaced \/ MainChannelCloses)
      => ConnectionInvariant'
  <1>1. ASSUME ConnectionInvariant, MainChannelOpens PROVE ConnectionInvariant'
    <2>1. main \in Seq(State) /\ \A n \in 1 .. Len(main) : main[n] # "open"
      BY <1>1 DEF ConnectionInvariant, TypeOK, MainChannelOpens, OnlyLastIsOpen, Connected, Mains, State
    <2> QED BY <1>1, <2>1, CreatedOnNew DEF MainChannelOpens
  <1>2. ASSUME ConnectionInvariant, MainChannelReplaced PROVE ConnectionInvariant'
    <2> DEFINE s == [main EXCEPT ![Len(main)] = "dropped"]
    <2>1. /\ s \in Seq(State) /\ Len(s) = Len(main)
          /\ \A n \in 1 .. Len(main) : s[n] = IF n = Len(main) THEN "dropped" ELSE main[n]
      BY <1>2, LastReplaced DEF ConnectionInvariant, TypeOK, MainChannelReplaced, Connected, State
    <2>2. \A n \in 1 .. Len(main) :
            s[n] # "open" /\ (main[n] = "open" => s[n] = "dropped") /\ (main[n] # "open" => s[n] = main[n])
      <3> HIDE DEF s
      <3>1. \A n \in 1 .. Len(main) : main[n] = "open" <=> n = Len(main)
        BY <1>2 DEF ConnectionInvariant, OnlyLastIsOpen, Mains, TypeOK, MainChannelReplaced
      <3> QED BY <2>1, <3>1
    <2> HIDE DEF s
    <2>3. main' = Append(s, "open") BY <1>2 DEF MainChannelReplaced, s
    <2> QED BY <1>2, <2>1, <2>2, <2>3, CreatedOnNew DEF MainChannelReplaced
  <1> QED BY <1>1, <1>2, CloseKeepsInvariant

\* The steps of one path.
LEMMA PathStep ==
    ASSUME NEW p \in Path, ConnectionInvariant,
           CreateProxy(p) \/ ChannelOpens(p) \/ CallMethod(p) \/ CallReplied(p)
    PROVE  ConnectionInvariant'
  <1> USE DEF ConnectionInvariant
  <1>0. UNCHANGED <<main, ready>> /\ Len(main) \in 0 .. MaxMain /\ (Connected => Len(main) \in Mains)
    BY ConnectionAssumption
      DEF CreateProxy, ChannelOpens, CallMethod, CallReplied, TypeOK, Connected, Mains
  <1>1. TypeOK'
    <2>1. CASE CreateProxy(p) BY <1>0, <2>1 DEF CreateProxy, TypeOK
    <2>2. CASE ChannelOpens(p)
      <3>1. 0 \in 0 .. MaxMain BY ConnectionAssumption
      <3>2. pending' \in [Path -> 0 .. MaxMain] BY <2>2, <3>1 DEF ChannelOpens, TypeOK
      <3>3. channel' \in [Path -> 0 .. MaxMain] BY <1>0, <2>2 DEF ChannelOpens, TypeOK
      <3>4. listen' \in [Path -> {"uncalled", "waiting", "opening", "recorded"}]
        BY <2>2 DEF ChannelOpens, TypeOK
      <3>5. rpc' \in [Path -> 0 .. MaxMain] BY <1>0, <2>2 DEF ChannelOpens, TypeOK
      <3>6. call' \in [Path -> Call] BY <1>0, <2>2 DEF ChannelOpens, TypeOK, Call
      <3> QED BY <1>0, <3>2, <3>3, <3>4, <3>5, <3>6 DEF TypeOK
    <2>3. CASE CallMethod(p) BY <1>0, <2>3, ConnectionAssumption DEF CallMethod, TypeOK, Call
    <2>4. CASE CallReplied(p) BY <1>0, <2>4, ConnectionAssumption DEF CallReplied, TypeOK, Call
    <2> QED BY <2>1, <2>2, <2>3, <2>4
  <1>2. (ready = "resolved" <=> Connected)' /\ OnlyLastIsOpen'
    BY <1>0 DEF Connected, OnlyLastIsOpen, Mains
  <1>3. ASSUME NEW q \in Path PROVE ProxyBelongs(q)'
    <2> USE <1>0 DEF ProxyBelongs, Belongs, Mains, TypeOK
    <2>1. CASE CreateProxy(p) BY <2>1 DEF CreateProxy
    <2>2. CASE ChannelOpens(p) BY <2>2 DEF ChannelOpens, Connected, OnlyLastIsOpen, Call
    <2>3. CASE CallMethod(p) BY <2>3, ConnectionAssumption DEF CallMethod, Call
    <2>4. CASE CallReplied(p) BY <2>4 DEF CallReplied, Call
    <2> QED BY <2>1, <2>2, <2>3, <2>4
  <1> QED BY <1>1, <1>2, <1>3

\* What a proxy holds and what its caller waits for belongs to the channel its path
\* has, or to one on a main channel that was dropped.
THEOREM ConnectionInvariantHolds == Spec => []ConnectionInvariant
  <1>1. ConnectionInvariant /\ [Next]_vars => ConnectionInvariant'
    <2> SUFFICES ASSUME ConnectionInvariant, [Next]_vars PROVE ConnectionInvariant' OBVIOUS
    <2>1. CASE Next BY <2>1, MainChannelStep, PathStep DEF Next
    <2>2. CASE UNCHANGED vars
      BY <2>2 DEF vars, ConnectionInvariant, TypeOK, Connected, OnlyLastIsOpen, ProxyBelongs, Belongs, Mains
    <2> QED BY <2>1, <2>2
  <1> QED BY InitConnection, <1>1, PTL DEF Spec

\* Nothing waits on a channel that closed: every protocol and every pending call is
\* told of the close, with any number of reconnects before it.
THEOREM NothingIsLeftWaiting == Spec => []NothingWaitsOnClosed
  <1>1. ConnectionInvariant => NothingWaitsOnClosed
    BY DEF ConnectionInvariant, ProxyBelongs, NothingWaitsOnClosed, Belongs
  <1> QED BY ConnectionInvariantHolds, <1>1, PTL
=============================================================================
