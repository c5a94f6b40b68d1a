--------------------------- MODULE PtyDaemon_proofs --------------------------
(***************************************************************************)
(* Theorems about the daemon: its registry (PtyRegistry), the descriptors    *)
(* and the protocol of a live upgrade (HandoffFds, PtyHandoff) and the two    *)
(* sockets (PtyBoot), for any panes, sessions, processes and clients.         *)
(*                                                                           *)
(* The models share no variable: each part is about one of them.              *)
(***************************************************************************)
EXTENDS PtyRegistry, PtyHandoff, HandoffFds, PtyBoot, RawRing_proofs

------------------------------------------------------------------------------
(* The registry, for any number of control connections that create sessions.      *)

\* A request that found the pane free still finds it so when it inserts, if no other
\* request was there meanwhile.
StillFree ==
  \A c \in Creators : creating[c] # None /\ creating[c] \notin contested => ByPane(creating[c]) = {}

\* Two requests under way for one pane are a race.
Alone ==
  \A c, d \in Creators :
    creating[c] = creating[d] /\ creating[c] # None => c = d \/ creating[c] \in contested

RegistryInv == OneSessionPerPane /\ StillFree /\ Alone

\* The first state has the types.
LEMMA TypeInit == Init => TypeOK
<1> SUFFICES ASSUME Init PROVE TypeOK
  OBVIOUS
<1>1. nextId \in 0..MaxSessions /\ listed \subseteq 1..nextId
  BY RegistryAssumption DEF Init
<1>2. closed \subseteq listed /\ sealed \subseteq listed BY DEF Init
<1>3. /\ pane \in [Ids -> Panes \cup {None}]
      /\ shell \in [Ids -> {"none", "alive", "dead"}]
      /\ tmp \in [Ids -> {None, "torn", "whole"}]
  BY DEF Init
<1>4. /\ creating \in [Creators -> Panes \cup {None}]
      /\ keyed \in [Creators -> BOOLEAN]
  BY DEF Init
<1>5. /\ storing \in [Storers -> Ids \cup {None}]
      /\ step \in [Storers -> {"open", "fill", "rename"}]
  BY DEF Init
<1>6. /\ blob \in [Panes -> {None, "torn", "whole"}]
      /\ client \in [Panes -> {"idle", "on", "asking"}]
      /\ seen \in [Panes -> Ids \cup {None}]
  BY DEF Init
<1>7. contested \subseteq Panes /\ stale \subseteq Panes BY DEF Init
<1> QED BY <1>1, <1>2, <1>3, <1>4, <1>5, <1>6, <1>7 DEF TypeOK

\* Ids of the registry are ids.
LEMMA ListedAreIds == TypeOK => listed \subseteq Ids
<1> SUFFICES ASSUME TypeOK, NEW j \in 1..nextId PROVE j \in Ids
  BY DEF TypeOK
<1> QED BY RegistryAssumption DEF TypeOK, Ids

\* Every step keeps the types.
LEMMA TypeStep ==
  ASSUME TypeOK, [Next]_vars
  PROVE  TypeOK'
<1> USE RegistryAssumption, ListedAreIds
<1>1. ASSUME NEW c \in Creators, NEW p \in Panes, NEW key \in BOOLEAN,
             Attach(c, p, key)
      PROVE  TypeOK'
  <2>1. PICK i \in ByPane(p) : /\ sealed' = IF key THEN sealed \cup {i} ELSE sealed
                               /\ Tell(p, i)
    BY <1>1 DEF Attach
  <2>2. i \in listed /\ i \in Ids BY <2>1 DEF ByPane
  <2>3. sealed' \subseteq listed BY <2>1, <2>2 DEF TypeOK
  <2>4. /\ client' \in [Panes -> {"idle", "on", "asking"}]
        /\ seen' \in [Panes -> Ids \cup {None}] /\ stale' \subseteq Panes
    BY <2>1, <2>2 DEF TypeOK, Tell
  <2> QED BY <1>1, <2>3, <2>4 DEF Attach, TypeOK, createVars, storeVars
<1>2. ASSUME NEW c \in Creators, NEW p \in Panes, NEW key \in BOOLEAN,
             LookUp(c, p, key)
      PROVE  TypeOK'
  BY <1>2 DEF LookUp, TypeOK, memVars, storeVars, clientVars
<1>3. ASSUME NEW c \in Creators, Spawn(c) PROVE TypeOK'
  <2>1. nextId \in Nat /\ nextId < MaxSessions /\ nextId' = nextId + 1
    BY <1>3 DEF Spawn, TypeOK
  <2>2. nextId + 1 \in Ids BY <2>1 DEF Ids
  <2>3. nextId' \in 0..MaxSessions BY <2>1
  <2>4. listed' \subseteq 1..nextId'
    <3>1. \A j \in 1..nextId : j \in 1..nextId' BY <2>1
    <3>2. nextId + 1 \in 1..nextId' BY <2>1
    <3> QED BY <1>3, <3>1, <3>2 DEF Spawn, TypeOK
  <2>5. creating[c] \in Panes BY <1>3 DEF Spawn, TypeOK
  <2>6. closed' \subseteq listed' /\ sealed' \subseteq listed'
    BY <1>3 DEF Spawn, TypeOK
  <2>7. /\ pane' \in [Ids -> Panes \cup {None}]
        /\ shell' \in [Ids -> {"none", "alive", "dead"}]
    BY <1>3, <2>2, <2>5 DEF Spawn, TypeOK
  <2>8. /\ client' \in [Panes -> {"idle", "on", "asking"}]
        /\ seen' \in [Panes -> Ids \cup {None}] /\ stale' \subseteq Panes
    BY <1>3, <2>2, <2>5 DEF Spawn, TypeOK, Tell
  <2>9. creating' \in [Creators -> Panes \cup {None}]
    BY <1>3 DEF Spawn, TypeOK
  <2> QED
    BY <1>3, <2>3, <2>4, <2>6, <2>7, <2>8, <2>9 DEF Spawn, TypeOK, storeVars
<1>4. ASSUME NEW c \in Creators, SpawnFails(c) PROVE TypeOK'
  BY <1>4 DEF SpawnFails, TypeOK, memVars, storeVars, clientVars
<1>5. ASSUME NEW i \in Ids, Session(i) PROVE TypeOK'
  <2>1. CASE ShellEnds(i)
    BY <2>1 DEF ShellEnds, KillAll, TypeOK, createVars, storeVars, clientVars
  <2>2. CASE ReaderClose(i)
    BY <2>2 DEF ReaderClose, TypeOK, createVars, storeVars, clientVars
  <2>3. CASE ReaderReap(i)
    BY <2>3 DEF ReaderReap, TypeOK, createVars, storeVars, clientVars
  <2> QED BY <1>5, <2>1, <2>2, <2>3 DEF Session
<1>6. ASSUME NEW w \in Windows, KillByWindow(w) PROVE TypeOK'
  BY <1>6 DEF KillByWindow, KillAll, TypeOK, createVars, storeVars, clientVars
<1>7. CASE Shutdown
  BY <1>7 DEF Shutdown, KillAll, TypeOK, createVars, storeVars, clientVars
<1>8. CASE Die
  <2>1. client' \in [Panes -> {"idle", "on", "asking"}] BY <1>8 DEF Die, TypeOK
  <2>2. /\ nextId' \in 0..MaxSessions /\ listed' \subseteq 1..nextId'
        /\ closed' \subseteq listed' /\ sealed' \subseteq listed'
    BY <1>8 DEF Die
  <2>3. /\ pane' \in [Ids -> Panes \cup {None}]
        /\ shell' \in [Ids -> {"none", "alive", "dead"}]
        /\ tmp' \in [Ids -> {None, "torn", "whole"}]
    BY <1>8 DEF Die
  <2>4. /\ creating' \in [Creators -> Panes \cup {None}]
        /\ keyed' \in [Creators -> BOOLEAN]
        /\ storing' \in [Storers -> Ids \cup {None}]
        /\ step' \in [Storers -> {"open", "fill", "rename"}]
    BY <1>8 DEF Die
  <2>5. /\ blob' \in [Panes -> {None, "torn", "whole"}]
        /\ seen' \in [Panes -> Ids \cup {None}]
        /\ contested' \subseteq Panes /\ stale' \subseteq Panes
    BY <1>8 DEF Die, TypeOK
  <2> QED BY <2>1, <2>2, <2>3, <2>4, <2>5 DEF TypeOK
<1>9. ASSUME NEW c \in Storers, Store(c) PROVE TypeOK'
  <2>1. CASE \E p \in Panes : StoreFind(c, p)
    <3>1. PICK i \in Ids : storing' = [storing EXCEPT ![c] = i]
      BY <2>1 DEF StoreFind, ByPane
    <3> QED BY <2>1, <3>1 DEF StoreFind, TypeOK, memVars, createVars, clientVars
  <2>2. CASE StoreOpen(c)
    BY <2>2 DEF StoreOpen, TypeOK, memVars, createVars, clientVars
  <2>3. CASE StoreFill(c)
    <3>1. /\ tmp' \in [Ids -> {None, "torn", "whole"}]
          /\ blob' \in [Panes -> {None, "torn", "whole"}]
      BY <2>3 DEF StoreFill, TypeOK
    <3> QED BY <2>3, <3>1 DEF StoreFill, TypeOK, memVars, createVars, clientVars
  <2>4. CASE StoreRename(c)
    <3>1. storing[c] \in Ids BY <2>4 DEF StoreRename, TypeOK
    <3>2. /\ tmp' \in [Ids -> {None, "torn", "whole"}]
          /\ blob' \in [Panes -> {None, "torn", "whole"}]
          /\ storing' \in [Storers -> Ids \cup {None}]
      BY <2>4, <3>1 DEF StoreRename, TypeOK
    <3> QED BY <2>4, <3>2 DEF StoreRename, TypeOK, memVars, createVars, clientVars
  <2> QED BY <1>9, <2>1, <2>2, <2>3, <2>4 DEF Store
<1>10. ASSUME NEW p \in Panes, Client(p) PROVE TypeOK'
  <2>1. /\ client' \in [Panes -> {"idle", "on", "asking"}]
        /\ seen' \in [Panes -> Ids \cup {None}]
    BY <1>10 DEF Client, StreamEnds, FrontLeaves, AskGone, AskReattach, TypeOK
  <2>2. UNCHANGED <<memVars, createVars, storeVars, blob, contested>>
    BY <1>10 DEF Client, StreamEnds, FrontLeaves, AskGone, AskReattach
  <2>3. stale' \subseteq Panes
    BY <1>10 DEF Client, StreamEnds, FrontLeaves, AskGone, AskReattach, TypeOK
  <2> QED BY <2>1, <2>2, <2>3 DEF TypeOK, memVars, createVars, storeVars
<1>11. CASE UNCHANGED vars
  BY <1>11 DEF vars, TypeOK, memVars, createVars, storeVars, clientVars
<1> QED
  BY <1>1, <1>2, <1>3, <1>4, <1>5, <1>6, <1>7, <1>8, <1>9, <1>10, <1>11
     DEF Next, Create

\* Every variable of the registry keeps its type, with any number of creating
\* connections.
THEOREM RegistryTypeCorrect == Spec => []TypeOK
  BY TypeInit, TypeStep, PTL DEF Spec

\* A step that adds no open session and starts no request keeps the invariant.
LEMMA NoNewSession ==
  ASSUME RegistryInv,
         (listed \ closed)' \subseteq listed \ closed,
         pane' = pane, contested' = contested,
         \A c \in Creators : creating'[c] \in {creating[c], None}
  PROVE  RegistryInv'
  BY DEF RegistryInv, OneSessionPerPane, StillFree, Alone, ByPane

\* The registry starts empty and no request is under way.
LEMMA RegistryInit == Init => RegistryInv
  BY DEF Init, RegistryInv, OneSessionPerPane, StillFree, Alone, ByPane

\* Every step keeps one session per pane.
LEMMA RegistryStep ==
  ASSUME TypeOK, RegistryInv, [Next]_vars
  PROVE  RegistryInv'
<1> USE RegistryAssumption DEF RegistryInv
<1>1. ASSUME NEW c \in Creators, NEW p \in Panes, NEW key \in BOOLEAN,
             Attach(c, p, key)
      PROVE  RegistryInv'
  BY <1>1, NoNewSession DEF Attach, createVars
<1>2. ASSUME NEW c \in Creators, NEW p \in Panes, NEW key \in BOOLEAN,
             LookUp(c, p, key)
      PROVE  RegistryInv'
  <2>1. OneSessionPerPane' BY <1>2 DEF LookUp, memVars, OneSessionPerPane
  <2>2. ByPane(p)' = {} BY <1>2 DEF LookUp, memVars, ByPane
  <2>3. /\ creating' = [creating EXCEPT ![c] = p] /\ creating[c] = None
        /\ contested' = IF \E d \in Creators : creating[d] = p THEN contested \cup {p} ELSE contested
    BY <1>2 DEF LookUp
  <2>4. \A d \in Creators : creating'[d] = IF d = c THEN p ELSE creating[d]
    BY <2>3 DEF TypeOK
  <2>5. StillFree'
    <3>1. \A q : ByPane(q)' = ByPane(q) BY <1>2 DEF LookUp, memVars, ByPane
    <3> QED BY <2>2, <2>3, <2>4, <3>1 DEF StillFree
  <2>6. Alone'
    BY <2>3, <2>4 DEF Alone
  <2>7. OneSessionPerPane'
    BY <2>1, <2>3
  <2> QED BY <2>5, <2>6, <2>7
<1>3. ASSUME NEW c \in Creators, Spawn(c) PROVE RegistryInv'
  <2> DEFINE i == nextId + 1
  <2>1. /\ i \in Ids /\ i \notin listed
        /\ listed' = listed \cup {i} /\ closed' = closed
        /\ pane' = [pane EXCEPT ![i] = creating[c]]
        /\ creating' = [creating EXCEPT ![c] = None]
        /\ creating[c] \in Panes /\ contested' = contested
    BY <1>3 DEF Spawn, TypeOK, Ids
  <2> HIDE DEF i
  <2>2. \A j \in listed \ closed : pane[j] # creating[c] \/ creating[c] \in contested
    BY <1>3 DEF Spawn, StillFree, ByPane
  <2>3. \A j \in listed : pane'[j] = pane[j]
    BY <2>1, ListedAreIds DEF TypeOK
  <2>4. pane'[i] = creating[c] BY <2>1 DEF TypeOK
  <2>5. OneSessionPerPane'
    <3> SUFFICES ASSUME NEW j \in (listed \ closed)', NEW k \in (listed \ closed)',
                        pane'[j] = pane'[k]
                 PROVE  j = k \/ pane'[j] \in contested
      BY <2>1 DEF OneSessionPerPane
    <3>1. CASE j \in listed /\ k \in listed
      BY <3>1, <2>1, <2>3 DEF OneSessionPerPane
    <3>2. CASE j = i \/ k = i BY <3>2, <2>1, <2>2, <2>3, <2>4
    <3> QED BY <3>1, <3>2, <2>1
  <2>6. \A d \in Creators : creating'[d] = IF d = c THEN None ELSE creating[d]
    BY <2>1 DEF TypeOK
  <2>7. StillFree'
    <3> SUFFICES ASSUME NEW d \in Creators, creating'[d] # None, creating'[d] \notin contested,
                        NEW j \in (listed \ closed)', pane'[j] = creating'[d]
                 PROVE  FALSE
      BY <2>1 DEF StillFree, ByPane
    <3>1. d # c /\ creating'[d] = creating[d] BY <2>6
    <3>2. CASE j = i BY <2>1, <2>4, <3>1, <3>2 DEF Alone
    <3>3. CASE j \in listed BY <2>1, <2>3, <3>1, <3>3 DEF StillFree, ByPane
    <3> QED BY <2>1, <3>2, <3>3
  <2>8. Alone' BY <2>1, <2>6 DEF Alone
  <2> QED BY <2>5, <2>7, <2>8
<1>4. ASSUME NEW c \in Creators, SpawnFails(c) PROVE RegistryInv'
  <2>1. \A d \in Creators : creating'[d] \in {creating[d], None}
    BY <1>4 DEF SpawnFails, TypeOK
  <2> QED BY <1>4, <2>1, NoNewSession DEF SpawnFails, memVars
<1>5. ASSUME NEW i \in Ids, Session(i) PROVE RegistryInv'
  BY <1>5, NoNewSession DEF Session, ShellEnds, ReaderClose, ReaderReap, createVars
<1>6. ASSUME NEW w \in Windows, KillByWindow(w) PROVE RegistryInv'
  BY <1>6, NoNewSession DEF KillByWindow, createVars
<1>7. CASE Shutdown
  BY <1>7, NoNewSession DEF Shutdown, createVars
<1>8. CASE Die
  BY <1>8 DEF Die, OneSessionPerPane, StillFree, Alone, ByPane
<1>9. ASSUME NEW c \in Storers, Store(c) PROVE RegistryInv'
  BY <1>9, NoNewSession DEF Store, StoreFind, StoreOpen, StoreFill, StoreRename,
     memVars, createVars
<1>10. ASSUME NEW p \in Panes, Client(p) PROVE RegistryInv'
  BY <1>10, NoNewSession DEF Client, StreamEnds, FrontLeaves, AskGone, AskReattach, memVars,
     createVars
<1>11. CASE UNCHANGED vars
  BY <1>11, NoNewSession DEF vars, memVars, createVars
<1> QED
  BY <1>1, <1>2, <1>3, <1>4, <1>5, <1>6, <1>7, <1>8, <1>9, <1>10, <1>11
     DEF Next, Create

\* A pane never has two open sessions unless two requests at once found none for it,
\* whatever readers, kills, sidecars, other panes' requests and deaths interleave
\* (main.rs CreateOrAttach).
THEOREM OneShellPerPane == Spec => []OneSessionPerPane
<1>1. RegistryInv /\ TypeOK /\ [Next]_vars => RegistryInv' BY RegistryStep
<1>2. RegistryInv => OneSessionPerPane BY DEF RegistryInv
<1> QED BY RegistryInit, RegistryTypeCorrect, <1>1, <1>2, PTL DEF Spec

\* What a client remembers is an id this daemon gave to a session of its pane, or one
\* of a daemon that died.
OwnId ==
  \A p \in Panes \ stale : seen[p] # None
                              => seen[p] \in 1..nextId /\ pane[seen[p]] = p

\* Every step keeps it: ids only grow, and a session never changes its pane.
LEMMA OwnIdStep ==
  ASSUME TypeOK, OwnId, [Next]_vars
  PROVE  OwnId'
<1> USE RegistryAssumption, ListedAreIds
<1> SUFFICES ASSUME NEW p \in Panes, p \notin stale', seen'[p] # None
             PROVE  seen'[p] \in 1..nextId' /\ pane'[seen'[p]] = p
  BY DEF OwnId
<1>1. ASSUME NEW c \in Creators, NEW q \in Panes, NEW key \in BOOLEAN,
             Attach(c, q, key)
      PROVE  seen'[p] \in 1..nextId' /\ pane'[seen'[p]] = p
  <2>1. PICK i \in ByPane(q) : Tell(q, i) BY <1>1 DEF Attach
  <2>2. i \in 1..nextId /\ pane[i] = q BY <2>1 DEF ByPane, TypeOK
  <2>3. seen'[p] = IF p = q THEN i ELSE seen[p] BY <2>1 DEF Tell, TypeOK
  <2>4. nextId' = nextId /\ pane' = pane /\ stale' = stale \ {q} BY <1>1, <2>1 DEF Attach, Tell
  <2> QED BY <2>2, <2>3, <2>4 DEF OwnId
<1>2. ASSUME NEW c \in Creators, Spawn(c)
      PROVE  seen'[p] \in 1..nextId' /\ pane'[seen'[p]] = p
  <2>1. nextId \in Nat /\ nextId' = nextId + 1 /\ nextId + 1 \in Ids
    BY <1>2 DEF Spawn, TypeOK, Ids
  <2>2. pane' = [pane EXCEPT ![nextId + 1] = creating[c]]
        /\ stale' = stale \ {creating[c]}
    BY <1>2 DEF Spawn, Tell
  <2>3. seen' = [seen EXCEPT ![creating[c]] = nextId + 1]
    BY <1>2 DEF Spawn, Tell
  <2>4. CASE p = creating[c]
    <3>1. seen'[p] = nextId + 1 BY <2>3, <2>4 DEF TypeOK
    <3>2. pane'[nextId + 1] = p BY <2>1, <2>2, <2>4 DEF TypeOK
    <3> QED BY <3>1, <3>2, <2>1
  <2>5. CASE p # creating[c]
    <3>1. seen'[p] = seen[p] BY <2>3, <2>5 DEF TypeOK
    <3>2. seen[p] \in 1..nextId /\ pane[seen[p]] = p
      BY <3>1, <2>2, <2>5 DEF OwnId
    <3>3. seen[p] \in 1..nextId' /\ seen[p] # nextId + 1 BY <3>2, <2>1
    <3>4. pane'[seen[p]] = pane[seen[p]] BY <3>3, <2>1, <2>2, <3>2 DEF TypeOK, Ids
    <3> QED BY <3>1, <3>2, <3>3, <3>4
  <2> QED BY <2>4, <2>5
<1>3. ASSUME NEW q \in Panes, AskGone(q) \/ FrontLeaves(q)
      PROVE  seen'[p] \in 1..nextId' /\ pane'[seen'[p]] = p
  <2>1. /\ seen' = [seen EXCEPT ![q] = None] /\ stale' = stale \ {q}
        /\ nextId' = nextId /\ pane' = pane
    BY <1>3 DEF AskGone, FrontLeaves, memVars
  <2>2. seen'[p] = seen[p] /\ p # q BY <2>1 DEF TypeOK
  <2> QED BY <2>1, <2>2 DEF OwnId
<1>4. CASE seen' = seen /\ nextId' = nextId /\ pane' = pane /\ stale' = stale
  BY <1>4 DEF OwnId
<1>5. ~Die
  <2>1. ASSUME Die PROVE FALSE
    BY <2>1 DEF Die
  <2> QED BY <2>1
<1>6. ASSUME NEW c \in Creators, Create(c)
      PROVE  seen'[p] \in 1..nextId' /\ pane'[seen'[p]] = p
  BY <1>1, <1>2, <1>4, <1>6 DEF Create, LookUp, SpawnFails, memVars, clientVars
<1>7. ASSUME NEW i \in Ids, Session(i)
      PROVE  seen'[p] \in 1..nextId' /\ pane'[seen'[p]] = p
  BY <1>4, <1>7 DEF Session, ShellEnds, ReaderClose, ReaderReap, clientVars
<1>8. ASSUME NEW c \in Storers, Store(c)
      PROVE  seen'[p] \in 1..nextId' /\ pane'[seen'[p]] = p
  BY <1>4, <1>8 DEF Store, StoreFind, StoreOpen, StoreFill, StoreRename, memVars,
     clientVars
<1>9. ASSUME NEW q \in Panes, Client(q)
      PROVE  seen'[p] \in 1..nextId' /\ pane'[seen'[p]] = p
  BY <1>3, <1>4, <1>9 DEF Client, StreamEnds, AskReattach, memVars
<1>10. ASSUME Shutdown \/ (\E w \in Windows : KillByWindow(w)) \/ UNCHANGED vars
       PROVE  seen'[p] \in 1..nextId' /\ pane'[seen'[p]] = p
  BY <1>4, <1>10 DEF Shutdown, KillByWindow, vars, memVars, clientVars
<1> QED BY <1>5, <1>6, <1>7, <1>8, <1>9, <1>10 DEF Next

\* A client never shows the shell of another pane, however many sessions came and
\* went while it asked (ptyd.rs reattach_live_session goes by the id alone), unless
\* the id it goes by is one of a daemon that died.
THEOREM IdsAreNotReused == Spec => []ShowsOwnPane
<1>1. Init => OwnId BY DEF Init, OwnId
<1>2. TypeOK /\ OwnId /\ [Next]_vars => OwnId' BY OwnIdStep
<1>3. TypeOK /\ OwnId => ShowsOwnPane
  <2>1. SUFFICES ASSUME TypeOK, OwnId, NEW p \in Panes \ stale, seen[p] \in listed
                 PROVE  pane[seen[p]] = p
    BY DEF ShowsOwnPane
  <2>2. seen[p] \in Ids BY <2>1, ListedAreIds
  <2>3. \A i \in Ids : i \in Nat BY RegistryAssumption DEF Ids
  <2>4. seen[p] # None BY <2>2, <2>3, RegistryAssumption
  <2> QED BY <2>1, <2>4 DEF OwnId
<1> QED BY <1>1, <1>2, <1>3, RegistryTypeCorrect, PTL DEF Spec

\* Only the end of a session removes a checkpoint, and then no other session of
\* its pane is open.
LEMMA BlobStep ==
  ASSUME TypeOK, RegistryInv, [Next]_vars, NEW p \in Panes \ contested, blob[p] # None, ByPane(p)' # {}
  PROVE  blob'[p] # None
<1> USE RegistryAssumption
<1>1. ASSUME NEW i \in Ids, ReaderClose(i) PROVE blob'[p] # None
  <2>1. CASE i \in sealed /\ pane[i] = p
    <3>1. PICK j \in (listed \ closed)' : pane'[j] = p BY DEF ByPane
    <3>2. /\ i \in listed \ closed /\ j \in listed \ closed /\ j # i
          /\ pane[j] = pane[i]
      BY <1>1, <2>1, <3>1 DEF ReaderClose
    <3>3. pane[i] \notin contested BY <2>1
    <3> QED BY <3>2, <3>3 DEF RegistryInv, OneSessionPerPane
  <2>2. CASE ~(i \in sealed /\ pane[i] = p)
    BY <1>1, <2>2 DEF ReaderClose, TypeOK
  <2> QED BY <2>1, <2>2
<1>2. ASSUME NEW c \in Storers, StoreFill(c) PROVE blob'[p] # None
  BY <1>2 DEF StoreFill, TypeOK
<1>3. ASSUME NEW c \in Storers, StoreRename(c) PROVE blob'[p] # None
  BY <1>3 DEF StoreRename, TypeOK
<1>4. CASE blob' = blob BY <1>4
<1> QED
  BY <1>1, <1>2, <1>3, <1>4 DEF Next, Create, Attach, LookUp, Spawn, SpawnFails,
     Session, ShellEnds, ReaderReap, KillByWindow, Shutdown, Die, Store, StoreFind,
     StoreOpen, Client, StreamEnds, FrontLeaves, AskGone, AskReattach, vars

\* The checkpoint of a pane that has a session is never removed: the end of the
\* session before it takes only its own, because closing and removing are one critical
\* section (main.rs spawn_reader).
THEOREM CheckpointIsKept == Spec => BlobIsKept
<1>1. RegistryInv /\ TypeOK /\ [Next]_vars => RegistryInv' BY RegistryStep
<1>2. RegistryInv /\ TypeOK /\ [Next]_vars
        => [\A p \in Panes \ contested : blob[p] # None /\ ByPane(p)' # {}
                              => blob'[p] # None]_vars
  BY BlobStep
<1> QED BY RegistryInit, RegistryTypeCorrect, <1>1, <1>2, PTL DEF Spec, BlobIsKept

\* One storing connection: the sidecar that holds the pane's seal key.
OneStorer == \A c, d \in Storers : c = d

\* What a storer is about to rename into place is written whole.
RenamesWhole ==
  \A c \in Storers : storing[c] # None /\ step[c] = "rename" => tmp[storing[c]] # "torn"

\* A storer without a request stands at its first step.
IdleAtOpen == \A c \in Storers : storing[c] = None => step[c] = "open"

CheckpointInv == BlobIsWhole /\ RenamesWhole /\ IdleAtOpen

\* A step that touches no file keeps them whole.
LEMMA FilesUntouched ==
  ASSUME CheckpointInv, blob' = blob, tmp' = tmp, step' = step, storing' = storing
  PROVE  CheckpointInv'
  BY DEF CheckpointInv, BlobIsWhole, RenamesWhole, IdleAtOpen

\* Every step keeps the checkpoints whole.
LEMMA CheckpointStep ==
  ASSUME OneStorer, TypeOK, CheckpointInv, [Next]_vars
  PROVE  CheckpointInv'
<1> USE RegistryAssumption DEF CheckpointInv, BlobIsWhole, RenamesWhole, IdleAtOpen
<1>1. ASSUME NEW i \in Ids, ReaderClose(i) PROVE CheckpointInv'
  BY <1>1 DEF ReaderClose, storeVars, TypeOK
<1>2. CASE Die
  BY <1>2 DEF Die
<1>3. ASSUME NEW c \in Storers, NEW p \in Panes, StoreFind(c, p) PROVE CheckpointInv'
  <2>1. /\ step' = step /\ tmp' = tmp /\ blob' = blob /\ step[c] # "rename"
        /\ \A d \in Storers \ {c} : storing'[d] = storing[d]
    BY <1>3 DEF StoreFind, TypeOK
  <2>2. PICK i \in Ids : storing' = [storing EXCEPT ![c] = i]
    BY <1>3, ListedAreIds DEF StoreFind, ByPane
  <2>3. storing'[c] = i BY <2>2 DEF TypeOK
  <2>4. i \in Nat BY DEF Ids
  <2> QED BY <2>1, <2>3, <2>4
<1>4. ASSUME NEW c \in Storers, StoreOpen(c) PROVE CheckpointInv'
  <2>1. \A d \in Storers : step'[d] = "fill" BY <1>4 DEF StoreOpen, OneStorer, TypeOK
  <2> QED BY <1>4, <2>1 DEF StoreOpen
<1>5. ASSUME NEW c \in Storers, StoreFill(c) PROVE CheckpointInv'
  <2>1. \A d \in Storers : d = c BY DEF OneStorer
  <2>2. tmp'[storing[c]] # "torn" BY <1>5 DEF StoreFill, TypeOK
  <2>3. storing' = storing /\ storing[c] # None BY <1>5 DEF StoreFill
  <2>4. BlobIsWhole' BY <1>5 DEF StoreFill, TypeOK
  <2> QED BY <2>1, <2>2, <2>3, <2>4
<1>6. ASSUME NEW c \in Storers, StoreRename(c) PROVE CheckpointInv'
  <2>1. \A d \in Storers : storing'[d] = None /\ step'[d] = "open"
    BY <1>6 DEF StoreRename, OneStorer, TypeOK
  <2>2. BlobIsWhole' BY <1>6 DEF StoreRename, TypeOK
  <2> QED BY <2>1, <2>2
<1>7. CASE blob' = blob /\ tmp' = tmp /\ step' = step /\ storing' = storing
  BY <1>7, FilesUntouched
<1> QED
  BY <1>1, <1>2, <1>3, <1>4, <1>5, <1>6, <1>7 DEF Next, Create, Attach, LookUp, Spawn,
     SpawnFails, Session, ShellEnds, ReaderReap, KillByWindow, Shutdown, Store, Client,
     StreamEnds, FrontLeaves, AskGone, AskReattach, vars, storeVars

\* With one storing connection, whatever ends or dies between the steps of a store: the checkpoint at its canonical path is never torn, since only a
\* file written to its end is renamed, and it is never removed while its pane has a
\* session (write_sealed_doc_atomic, spawn_reader).
THEOREM TheCheckpointsAreSound == OneStorer => (Spec => CheckpointsAreSound)
<1>1. ASSUME OneStorer PROVE Spec => []BlobIsWhole
  <2>1. Init => CheckpointInv
    BY RegistryAssumption DEF Init, CheckpointInv, BlobIsWhole, RenamesWhole, IdleAtOpen
  <2>2. TypeOK /\ CheckpointInv /\ [Next]_vars => CheckpointInv'
    BY <1>1, CheckpointStep
  <2>3. CheckpointInv => BlobIsWhole BY DEF CheckpointInv
  <2> QED BY <2>1, <2>2, <2>3, RegistryTypeCorrect, PTL DEF Spec
<1> QED BY <1>1, CheckpointIsKept DEF CheckpointsAreSound

\* A pane has one shell, and whoever asks for it late sees that one or none - but for
\* panes two requests contested for, and clients that go by the id of a dead daemon.
THEOREM ThePanesAreTrue == Spec => []PanesAreTrue
  BY OneShellPerPane, IdsAreNotReused, PTL DEF PanesAreTrue

------------------------------------------------------------------------------
(* The descriptors of an upgrade: no copy destroys a value still needed, and the   *)
(* successor inherits what the snapshot says.                                      *)

\* The sources and the ack channel are distinct descriptors of open files.
SourcesDistinct ==
  /\ \A i, j \in 1..Len(sources) : sources[i] = sources[j] => i = j
  /\ \A i \in 1..Len(sources) : sources[i] # ipc

\* base is above the ack channel, descriptor 3 and every source scanned; when
\* copying starts, strictly.
PlanIsAbove ==
  /\ pc = "scan" => /\ base >= ipc /\ base >= 3
                    /\ \A i \in 1..done : base >= sources[i]
  /\ pc # "scan" => /\ base > ipc /\ base > 3
                    /\ \A i \in 1..Len(sources) : base > sources[i]

\* What was copied is in place, what was not copied is where it was.
TableIsRight ==
  /\ pc = "scan" => \A f \in Fds : f \in DOMAIN table /\ table[f] = f
  /\ pc = "copy" =>
       /\ ipc \in DOMAIN table /\ table[ipc] = ipc
       /\ \A i \in 1..Len(sources) : sources[i] \in DOMAIN table
                                     /\ table[sources[i]] = sources[i]
  /\ pc # "scan" =>
       \A i \in 1..Len(sources) :
         i <= done \/ pc = "exec" => Target(i) \in DOMAIN table
                                     /\ table[Target(i)] = sources[i]
  /\ pc = "exec" => 3 \in DOMAIN table /\ table[3] = ipc

FdsInv == PlanTypeOK /\ SourcesDistinct /\ PlanIsAbove /\ TableIsRight

LEMMA FdsInit == PlanInit => FdsInv
<1> SUFFICES ASSUME PlanInit PROVE FdsInv OBVIOUS
<1> USE FdsAssumption
<1>1. PICK n \in 0..MaxPlanned : sources \in [1..n -> Fds] BY DEF PlanInit
<1>2. n \in Nat /\ sources \in Seq(Fds) /\ Len(sources) = n BY <1>1
<1>3. PlanTypeOK BY <1>2 DEF PlanInit, PlanTypeOK
<1>4. SourcesDistinct BY DEF PlanInit, SourcesDistinct
<1>5. PlanIsAbove BY <1>3 DEF PlanInit, PlanIsAbove, PlanTypeOK
<1>6. TableIsRight BY DEF PlanInit, TableIsRight
<1> QED BY <1>3, <1>4, <1>5, <1>6 DEF FdsInv

LEMMA FdsStep == FdsInv /\ [PlanNext]_planVars => FdsInv'
<1> SUFFICES ASSUME FdsInv, [PlanNext]_planVars PROVE FdsInv' OBVIOUS
<1> USE FdsAssumption DEF FdsInv
<1>a. Len(sources) \in Nat /\ \A i \in 1..Len(sources) : sources[i] \in Fds
  BY DEF PlanTypeOK
<1>b. \A i \in 1..Len(sources) : sources[i] \in Nat
  BY <1>a
<1>1. CASE ScanOne
  <2>0. done + 1 \in 1..Len(sources) /\ sources[done + 1] \in Fds
    BY <1>1 DEF ScanOne, PlanTypeOK
  <2>1. PlanTypeOK'
    <3>1. base' \in Nat BY <1>1, <2>0, <1>b DEF ScanOne, PlanTypeOK
    <3>2. done' \in 0..Len(sources') BY <1>1, <2>0, <1>a DEF ScanOne, PlanTypeOK
    <3> QED BY <1>1, <3>1, <3>2 DEF ScanOne, PlanTypeOK
  <2>2. SourcesDistinct' BY <1>1 DEF ScanOne, SourcesDistinct
  <2>3. PlanIsAbove'
    BY <1>1, <2>0, <1>b DEF ScanOne, PlanIsAbove, PlanTypeOK
  <2>4. TableIsRight' BY <1>1 DEF ScanOne, TableIsRight, Target
  <2> QED BY <2>1, <2>2, <2>3, <2>4
<1>2. CASE ScanDone
  <2>1. PlanTypeOK' BY <1>2 DEF ScanDone, PlanTypeOK
  <2>2. SourcesDistinct' BY <1>2 DEF ScanDone, SourcesDistinct
  <2>3. PlanIsAbove'
    BY <1>2, <1>b DEF ScanDone, PlanIsAbove, PlanTypeOK
  <2>4. TableIsRight'
    <3>1. /\ pc = "scan" /\ pc' = "copy" /\ done' = 0
          /\ sources' = sources /\ ipc' = ipc /\ table' = table
      BY <1>2 DEF ScanDone
    <3>2. ipc \in Fds BY DEF PlanTypeOK
    <3>3. \A i \in 1..Len(sources) : ~(i <= 0) BY <1>a
    <3> QED BY <3>1, <3>2, <3>3, <1>a DEF TableIsRight
  <2> QED BY <2>1, <2>2, <2>3, <2>4
<1>3. CASE CopyOne
  <2> DEFINE k == done + 1
  <2>0. /\ k \in 1..Len(sources) /\ sources[k] \in Fds /\ k \in Nat
        /\ done \in Nat /\ base \in Nat /\ Len(sources) \in Nat
        /\ pc = "copy" /\ pc' = pc /\ done' = k
        /\ UNCHANGED <<sources, ipc, base>>
        /\ table' = Dup2(sources[k], Target(k))
    BY <1>3 DEF CopyOne, PlanTypeOK
  <2>1. \A i \in 1..Len(sources) : sources[i] \in Nat /\ Target(i) \in Nat
                                   /\ Target(i) >= base
    BY <2>0, <1>b DEF Target
  <2>2. \A i, j \in 1..Len(sources) : Target(i) # sources[j] /\ Target(i) # ipc
    BY <2>0, <2>1 DEF PlanIsAbove, PlanTypeOK
  <2>3. \A i, j \in 1..Len(sources) : Target(i) = Target(j) => i = j
    BY <2>0 DEF Target
  <2>4. DOMAIN table' = DOMAIN table \cup {Target(k)}
    BY <2>0 DEF Dup2
  <2>5. table'[Target(k)] = sources[k]
    BY <2>0 DEF Dup2, File, TableIsRight
  <2>6. \A f \in DOMAIN table : f # Target(k) => table'[f] = table[f]
    BY <2>0 DEF Dup2, File
  <2> HIDE DEF k
  <2>7. PlanTypeOK'
    <3>1. done' \in 0..Len(sources') BY <2>0
    <3>2. DOMAIN table' \subseteq Nat BY <2>0, <2>1, <2>4 DEF PlanTypeOK
    <3>3. \A f \in DOMAIN table' : table'[f] \in Fds
      BY <2>0, <2>4, <2>5, <2>6 DEF PlanTypeOK
    <3> QED BY <2>0, <3>1, <3>2, <3>3 DEF PlanTypeOK
  <2>8. SourcesDistinct' BY <2>0 DEF SourcesDistinct
  <2>9. PlanIsAbove' BY <2>0 DEF PlanIsAbove
  <2>10. TableIsRight'
    <3>1. \A i \in 1..Len(sources) : i <= k => i <= done \/ i = k
      BY <2>0 DEF k
    <3>2. \A i \in 1..Len(sources) :
            i <= k => Target(i) \in DOMAIN table' /\ table'[Target(i)] = sources[i]
      BY <3>1, <2>0, <2>3, <2>4, <2>5, <2>6 DEF TableIsRight
    <3>3. /\ ipc \in DOMAIN table' /\ table'[ipc] = ipc
          /\ \A i \in 1..Len(sources) : sources[i] \in DOMAIN table'
                                        /\ table'[sources[i]] = sources[i]
      BY <2>0, <2>2, <2>4, <2>6 DEF TableIsRight
    <3> QED BY <2>0, <3>2, <3>3 DEF TableIsRight, Target
  <2> QED BY <2>7, <2>8, <2>9, <2>10
<1>4. CASE CopyIpc
  <2>0. /\ pc = "copy" /\ pc' = "exec" /\ done = Len(sources)
        /\ base \in Nat /\ Len(sources) \in Nat
        /\ UNCHANGED <<sources, ipc, base, done>>
        /\ table' = Dup2(ipc, 3)
    BY <1>4 DEF CopyIpc, PlanTypeOK
  <2>1. /\ DOMAIN table' = DOMAIN table \cup {3} /\ table'[3] = ipc
        /\ \A f \in DOMAIN table : f # 3 => table'[f] = table[f]
    BY <2>0 DEF Dup2, File, TableIsRight
  <2>2. \A i \in 1..Len(sources) : Target(i) # 3 /\ i <= done
    BY <2>0 DEF Target, PlanIsAbove
  <2>3. PlanTypeOK' BY <2>0, <2>1 DEF PlanTypeOK
  <2>4. SourcesDistinct' /\ PlanIsAbove' BY <2>0 DEF SourcesDistinct, PlanIsAbove
  <2>5. TableIsRight'
    BY <2>0, <2>1, <2>2 DEF TableIsRight, Target
  <2> QED BY <2>3, <2>4, <2>5
<1>5. CASE UNCHANGED planVars
  BY <1>5 DEF planVars, PlanTypeOK, SourcesDistinct, PlanIsAbove, TableIsRight, Target
<1> QED BY <1>1, <1>2, <1>3, <1>4, <1>5 DEF PlanNext

\* The inductive invariant holds throughout.
LEMMA FdsInvariant == PlanSpec => []FdsInv
  BY FdsInit, FdsStep, PTL DEF PlanSpec

\* Whatever descriptors the old daemon's masters have, no dup2 of the plan
\* closes one that is still to be copied (plan_handoff_fds).
THEOREM NoCopyDestroys == PlanSpec => []NothingNeededIsDestroyed
<1>1. FdsInv => NothingNeededIsDestroyed
  BY DEF FdsInv, TableIsRight, NothingNeededIsDestroyed, File, PlanTypeOK
<1> QED BY <1>1, FdsInvariant, PTL

\* The new daemon finds every master where the snapshot says, and the ack
\* channel on descriptor 3.
THEOREM AllIsInherited == PlanSpec => []SuccessorInherits
<1>1. FdsInv => SuccessorInherits
  BY DEF FdsInv, TableIsRight, SuccessorInherits, File
<1> QED BY <1>1, FdsInvariant, PTL

------------------------------------------------------------------------------
(* The shells and the terminals through a live upgrade.                          *)

LEMMA RingTypes ==
  ASSUME NEW r \in Rings(Nat), NEW at \in Nat
  PROVE  /\ SinceTail(r, at) \in Seq(Nat) /\ Lost(r, at) \in Nat
         /\ \A bytes \in Seq(Nat) : Push(r, bytes) \in Rings(Nat)
         /\ \A n \in Nat : Resumed(n) \in Rings(Nat)
<1>1. r.buf \in Seq(Nat) /\ r.seq \in Nat /\ Len(r.buf) \in Nat /\ StartSeq(r) \in Int
  BY LenProperties DEF Rings, StartSeq
<1>2. SinceTail(r, at) \in Seq(Nat)
  <2> DEFINE m == EffectiveFrom(r, at) - StartSeq(r) + 1
  <2>1. m \in Int /\ m >= 1
    BY <1>1 DEF EffectiveFrom, StartSeq
  <2>2. \A i \in m .. Len(r.buf) : r.buf[i] \in Nat
    BY <1>1, <2>1, ElementOfSeq
  <2> HIDE DEF m
  <2>3. SubSeq(r.buf, m, Len(r.buf)) \in Seq(Nat)
    BY <1>1, <2>1, <2>2, SubSeqProperties
  <2>4. QED
    BY <2>3 DEF SinceTail, m
<1>3. Lost(r, at) \in Nat
  <2>1. CASE at < StartSeq(r)
    <3>1. SinceGap(r, at) = <<at, StartSeq(r)>> /\ SinceGap(r, at) # NoGap
      BY <2>1 DEF SinceGap, NoGap
    <3>2. Lost(r, at) = StartSeq(r) - at
      BY <3>1 DEF Lost
    <3>3. QED
      BY <1>1, <2>1, <3>2
  <2>2. CASE ~(at < StartSeq(r))
    BY <2>2 DEF SinceGap, Lost
  <2>3. QED
    BY <2>1, <2>2
<1>4. ASSUME NEW bytes \in Seq(Nat) PROVE Push(r, bytes) \in Rings(Nat)
  <2> DEFINE all == r.buf \o bytes
             kept == IF Len(all) > RingCap THEN Suffix(all, RingCap) ELSE all
  <2>1. all \in Seq(Nat) /\ Len(all) \in Nat /\ Len(bytes) \in Nat
    BY <1>1, ConcatProperties, LenProperties
  <2> HIDE DEF all
  <2>2. ASSUME Len(all) > RingCap PROVE Suffix(all, RingCap) \in Seq(Nat)
    <3>1. Len(all) - RingCap + 1 \in Int /\ Len(all) - RingCap + 1 >= 1
      BY <2>1, <2>2, RingCapAssumption
    <3>2. \A i \in Len(all) - RingCap + 1 .. Len(all) : all[i] \in Nat
      BY <2>1, <3>1, ElementOfSeq
    <3>3. QED
      BY <2>1, <3>1, <3>2, SubSeqProperties DEF Suffix
  <2>3. kept \in Seq(Nat)
    BY <2>1, <2>2
  <2>4. Push(r, bytes) = [buf |-> kept, seq |-> r.seq + Len(bytes)]
    BY DEF Push, all
  <2> HIDE DEF kept
  <2>5. QED
    BY <1>1, <2>1, <2>3, <2>4 DEF Rings
<1>5. ASSUME NEW n \in Nat PROVE Resumed(n) \in Rings(Nat)
  BY EmptySeq DEF Resumed, Rings
<1>6. QED
  BY <1>2, <1>3, <1>4, <1>5

\* The two daemons take turns: from the spawn to the old one's exit both are there, unless
\* the new one died.
Roles ==
  /\ old \in {"serving", "handing"} => new = "none"
  /\ old = "waiting" => new \in {"adopting", "acked", "dead", "killed"}
  /\ old = "exited" => new \in {"acked", "taking", "serving", "aside", "killed"} /\ masters["old"] = {}
  /\ new = "none" => skipped = {}
  /\ ~Up("new") => toAdopt = {} /\ masters["new"] = {} /\ registered["new"] = {}
  /\ new \in {"acked", "taking", "serving", "aside"} => toAdopt = {}
  /\ \A s \in toAdopt : snap[s].taken

\* As long as the old daemon runs it holds every shell; what the new one holds it serves
\* or is about to adopt; what was snapshot and not skipped it holds.
Held ==
  /\ \A s \in Sessions : shellOf[s] = "none" =>
       /\ conn[s] = "none" /\ ~snap[s].taken
       /\ \A d \in Daemons : s \notin masters[d] /\ s \notin registered[d]
  /\ old # "exited" =>
       \A s \in Sessions : /\ shellOf[s] # "hup"
                           /\ shellOf[s] = "alive" => s \in masters["old"] /\ s \in registered["old"]
  /\ \A s \in Sessions : shellOf[s] = "alive" =>
       /\ Up("new") /\ snap[s].taken => s \in masters["new"] \cup skipped
       /\ s \in masters["new"] => s \in toAdopt \cup registered["new"]
       /\ old = "exited" => s \in masters["new"]

HandInv == HandoffTypeOK /\ Roles /\ Held /\ ShellsOutliveHandover

LEMMA HandStarts == HandoffInit => HandInv
<1> SUFFICES ASSUME HandoffInit PROVE HandInv
  OBVIOUS
<1>1. NewRing \in Rings(Nat) /\ <<>> \in Seq(Nat) /\ 0 \in Nat /\ 0 \in 0..MaxTries
  BY EmptySeq, HandoffAssumption DEF NewRing, Resumed, Rings
<1>2. HandoffTypeOK
  BY <1>1 DEF HandoffInit, HandoffTypeOK, NoSeq, Snapped
<1>3. Roles /\ Held /\ ShellsOutliveHandover
  BY DEF HandoffInit, Up, Roles, Held, ShellsOutliveHandover, SnappedShellsSurvive, GoneIsGone,
         Snapped, NoSeq, Daemons
<1>4. QED
  BY <1>2, <1>3 DEF HandInv

\* Steps that leave the upgrade, the masters and the registries alone.
LEMMA TerminalStep ==
  ASSUME HandInv, HandoffTypeOK', UNCHANGED <<upgradeVars, masters, registered>>,
         \A s \in Sessions : /\ shellOf'[s] = shellOf[s] \/ (shellOf[s] = "alive" /\ shellOf'[s] = "exited")
                             /\ shellOf[s] = "none" => conn'[s] = "none"
                             /\ conn'[s] = "gone" => \/ conn[s] = "gone" \/ shellOf[s] # "alive"
                                                     \/ s \in misled',
         misled \subseteq misled'
  PROVE  HandInv'
<1>1. /\ UNCHANGED <<quiet, old, new, third, snap, tries, toAdopt, skipped, masters, registered>>
      /\ Snapped' = Snapped
  BY DEF upgradeVars, Snapped
<1>2. Roles'
  BY <1>1 DEF HandInv, Up, Roles
<1>3. Held'
  BY <1>1 DEF HandInv, Up, Held
<1>4. ShellsOutliveHandover'
  BY <1>1 DEF HandInv, Up, Held, ShellsOutliveHandover, SnappedShellsSurvive, GoneIsGone, Snapped
<1>5. QED
  BY <1>2, <1>3, <1>4 DEF HandInv

LEMMA HandTypes ==
  ASSUME HandoffTypeOK
  PROVE  /\ \A d \in Daemons, s \in Sessions : ring[d][s] \in Rings(Nat) /\ hand[d][s] \in Seq(Nat)
         /\ \A s \in Sessions : emitted[s] \in Nat /\ pipe[s] \in Seq(Nat) /\ shown[s] \in Nat
                                /\ cursor[s] \in Nat /\ told[s] \in Nat
BY DEF HandoffTypeOK

LEMMA CreateKeeps == ASSUME HandInv, NEW s \in Sessions, CreateSession(s) PROVE HandInv'
<1>1. /\ shellOf[s] = "none" /\ old # "exited"
      /\ shellOf' = [shellOf EXCEPT ![s] = "alive"]
      /\ masters' = [masters EXCEPT !["old"] = masters["old"] \cup {s}]
      /\ registered' = [registered EXCEPT !["old"] = registered["old"] \cup {s}]
      /\ UNCHANGED <<emitted, ring, hand, quiet, old, new, third, snap, tries, toAdopt, skipped,
                     conn, pipe, shown, cursor, told, misled>>
  BY DEF CreateSession, Up, upgradeVars, terminalVars
<1>2. HandoffTypeOK'
  BY <1>1 DEF HandInv, HandoffTypeOK, Daemons, Snapped
<1>3. /\ masters'["old"] = masters["old"] \cup {s} /\ masters'["new"] = masters["new"]
      /\ registered'["old"] = registered["old"] \cup {s} /\ registered'["new"] = registered["new"]
      /\ shellOf'[s] = "alive" /\ \A t \in Sessions \ {s} : shellOf'[t] = shellOf[t]
  BY <1>1 DEF HandInv, HandoffTypeOK, Daemons
<1>4. Roles'
  BY <1>1, <1>3 DEF HandInv, Up, Roles
<1>5. conn[s] = "none" /\ ~snap[s].taken /\ s \notin masters["new"]
  BY <1>1 DEF HandInv, Up, Held, Daemons
<1>6. Held'
  BY <1>1, <1>3, <1>5 DEF HandInv, Up, Held, Daemons
<1>7. ShellsOutliveHandover'
  BY <1>1, <1>3, <1>5
     DEF HandInv, ShellsOutliveHandover, SnappedShellsSurvive, GoneIsGone, Snapped
<1>8. QED
  BY <1>2, <1>4, <1>6, <1>7 DEF HandInv


\* What the client's stream thread does.
LEMMA TerminalKeeps ==
  ASSUME HandInv, NEW s \in Sessions,
         AttachLive(s) \/ StreamCloses(s) \/ Gone(s) \/ GiveUp(s) \/ Reattach(s)
  PROVE  HandInv'
<1>1. /\ UNCHANGED <<upgradeVars, shellOf, masters, registered, emitted, ring, hand>>
      /\ UNCHANGED <<quiet, old, new, third, snap, tries, toAdopt, skipped>>
      /\ HandoffTypeOK /\ shellOf[s] # "none"
  <2>1. conn[s] # "none" \/ s \in registered["old"]
    BY DEF AttachLive, StreamCloses, Gone, GiveUp, Reattach, HandInv, HandoffTypeOK, Daemons
  <2>2. QED
    BY <2>1 DEF AttachLive, StreamCloses, Gone, GiveUp, Reattach, HandInv, Held, ptyVars,
                upgradeVars, Daemons
<1>2. PICK c \in Daemons \cup {"asking", "gone", "gaveup"} :
        conn' = [conn EXCEPT ![s] = c] /\ (c = "gone" => Gone(s)) /\ (~Gone(s) => misled' = misled)
  BY DEF AttachLive, StreamCloses, Gone, GiveUp, Reattach, Serving, Daemons
<1>3. conn' \in [Sessions -> Daemons \cup {"none", "asking", "gone", "gaveup"}]
      /\ conn'[s] = c /\ \A t \in Sessions \ {s} : conn'[t] = conn[t]
  BY <1>1, <1>2 DEF HandoffTypeOK
<1>4. /\ pipe' \in [Sessions -> Seq(Nat)] /\ shown' \in [Sessions -> Nat]
      /\ cursor' \in [Sessions -> Nat] /\ told' \in [Sessions -> Nat]
  <2>1. CASE AttachLive(s)
    <3>1. ring["old"][s].seq \in Nat
      BY <1>1, HandTypes DEF Rings, Daemons
    <3>2. QED
      BY <1>1, <2>1, <3>1 DEF AttachLive, HandoffTypeOK
  <2>2. CASE Reattach(s)
    <3>1. PICK d \in Daemons :
            /\ pipe'   = [pipe EXCEPT ![s] = SinceTail(ring[d][s], cursor[s])]
            /\ shown'  = [shown EXCEPT ![s] = shown[s] + Lost(ring[d][s], cursor[s])]
            /\ told'   = [told EXCEPT ![s] = told[s] + Lost(ring[d][s], cursor[s])]
            /\ cursor' = [cursor EXCEPT ![s] = ring[d][s].seq]
      BY <2>2 DEF Reattach, Serving
    <3>2. ring[d][s] \in Rings(Nat) /\ cursor[s] \in Nat /\ shown[s] \in Nat /\ told[s] \in Nat
      BY <1>1, HandTypes
    <3>3. /\ SinceTail(ring[d][s], cursor[s]) \in Seq(Nat) /\ Lost(ring[d][s], cursor[s]) \in Nat
          /\ ring[d][s].seq \in Nat
      BY <3>2, RingTypes DEF Rings
    <3>4. shown[s] + Lost(ring[d][s], cursor[s]) \in Nat /\ told[s] + Lost(ring[d][s], cursor[s]) \in Nat
      BY <3>2, <3>3
    <3>5. QED
      BY <1>1, <3>1, <3>3, <3>4 DEF HandoffTypeOK
  <2>3. CASE UNCHANGED <<pipe, shown, cursor, told>>
    BY <1>1, <2>3 DEF HandoffTypeOK
  <2>4. StreamCloses(s) \/ Gone(s) \/ GiveUp(s) => UNCHANGED <<pipe, shown, cursor, told>>
    BY DEF StreamCloses, Gone, GiveUp
  <2>5. QED
    BY <2>1, <2>2, <2>3, <2>4
<1>9. misled' \subseteq Sessions /\ misled \subseteq misled'
  BY <1>1, <1>2 DEF Gone, HandoffTypeOK
<1>5. HandoffTypeOK'
  BY <1>1, <1>3, <1>4, <1>9 DEF HandoffTypeOK, Snapped
<1>6. ASSUME Gone(s) PROVE shellOf[s] # "alive" \/ s \in misled'
  <2> SUFFICES ASSUME shellOf[s] = "alive", s \notin misled' PROVE FALSE
    OBVIOUS
  <2>1. PICK d \in Serving : s \notin registered[d]
    BY <1>6 DEF Gone
  <2>2. CASE d = "old"
    BY <2>1, <2>2 DEF Serving, Up, HandInv, Held
  <2>3. CASE d = "new" /\ old = "exited"
    <3>1. new = "serving"
      BY <2>1, <2>3 DEF Serving
    <3>2. toAdopt = {}
      BY <3>1 DEF HandInv, Up, Roles
    <3>3. QED
      BY <2>1, <2>3, <3>2 DEF HandInv, Up, Held
  <2>4. CASE d = "new" /\ old # "exited"
    <3>1. new = "serving"
      BY <2>1, <2>4 DEF Serving
    <3>2. QED
      BY <1>1, <2>4, <3>1 DEF HandInv, Up, Roles, HandoffTypeOK
  <2>5. QED
    BY <2>1, <2>2, <2>3, <2>4 DEF Serving, Daemons
<1>7. \A t \in Sessions : /\ shellOf'[t] = shellOf[t] \/ (shellOf[t] = "alive" /\ shellOf'[t] = "exited")
                          /\ shellOf[t] = "none" => conn'[t] = "none"
                          /\ conn'[t] = "gone" => \/ conn[t] = "gone" \/ shellOf[t] # "alive"
                                                  \/ t \in misled'
  BY <1>1, <1>2, <1>3, <1>6 DEF HandInv, Up, Held
<1>8. QED
  BY <1>1, <1>5, <1>7, <1>9, TerminalStep

LEMMA ShowKeeps == ASSUME HandInv, NEW s \in Sessions, Show(s) PROVE HandInv'
<1>1. /\ UNCHANGED <<upgradeVars, shellOf, masters, registered, emitted, ring, hand, conn, told, misled>>
      /\ UNCHANGED <<quiet, old, new, third, snap, tries, toAdopt, skipped>>
      /\ HandoffTypeOK /\ pipe[s] # <<>> /\ pipe[s] \in Seq(Nat)
      /\ cursor[s] \in Nat
  BY HandTypes DEF Show, HandInv, ptyVars, upgradeVars
<1>2. Head(pipe[s]) \in Nat /\ Tail(pipe[s]) \in Seq(Nat)
  BY <1>1, HeadTailProperties
<1>3. /\ shown' = [shown EXCEPT ![s] = Head(pipe[s]) + 1] /\ Head(pipe[s]) + 1 \in Nat
      /\ cursor' = [cursor EXCEPT ![s] = cursor[s] + 1] /\ cursor[s] + 1 \in Nat
      /\ pipe' = [pipe EXCEPT ![s] = Tail(pipe[s])]
  BY <1>1, <1>2 DEF Show
<1>4. HandoffTypeOK'
  BY <1>1, <1>2, <1>3 DEF HandoffTypeOK, Snapped
<1>5. \A t \in Sessions : /\ shellOf'[t] = shellOf[t] \/ (shellOf[t] = "alive" /\ shellOf'[t] = "exited")
                          /\ shellOf[t] = "none" => conn'[t] = "none"
                          /\ conn'[t] = "gone" => conn[t] = "gone" \/ shellOf[t] # "alive"
  BY <1>1 DEF HandInv, Up, Held
<1>6. QED
  BY <1>1, <1>4, <1>5, TerminalStep

\* What a reader thread and a shell do.
LEMMA ReaderKeeps ==
  ASSUME HandInv, NEW d \in Daemons, NEW s \in Sessions,
         PushOut(d, s) \/ ShellExits(s) \/ \E n \in 1..MaxChunk : Read(d, s, n)
  PROVE  HandInv'
<1>1. /\ UNCHANGED <<upgradeVars, masters, registered, conn, shown, cursor, told, misled>>
      /\ UNCHANGED <<quiet, old, new, third, snap, tries, toAdopt, skipped>>
      /\ HandoffTypeOK /\ emitted[s] \in Nat /\ hand[d][s] \in Seq(Nat)
      /\ ring[d][s] \in Rings(Nat) /\ pipe[s] \in Seq(Nat) /\ MaxChunk \in Nat
      /\ \A t \in Sessions : shellOf[t] = "none" => conn[t] = "none"
  BY HandTypes, HandoffAssumption
     DEF PushOut, ShellExits, Read, HandInv, Held, ptyVars, upgradeVars, terminalVars
<1>2. CASE PushOut(d, s)
  <2>1. /\ Push(ring[d][s], hand[d][s]) \in Rings(Nat) /\ <<>> \in Seq(Nat)
        /\ pipe[s] \o hand[d][s] \in Seq(Nat)
    BY <1>1, RingTypes, ConcatProperties, EmptySeq
  <2>2. /\ ring' = [ring EXCEPT ![d][s] = Push(ring[d][s], hand[d][s])]
        /\ hand' = [hand EXCEPT ![d][s] = <<>>]
        /\ pipe' = IF conn[s] = d THEN [pipe EXCEPT ![s] = pipe[s] \o hand[d][s]] ELSE pipe
        /\ UNCHANGED <<shellOf, emitted>>
    BY <1>2 DEF PushOut
  <2>3. /\ ring' \in [Daemons -> [Sessions -> Rings(Nat)]]
        /\ hand' \in [Daemons -> [Sessions -> Seq(Nat)]] /\ pipe' \in [Sessions -> Seq(Nat)]
    BY <1>1, <2>1, <2>2 DEF HandoffTypeOK
  <2>4. HandoffTypeOK'
    BY <1>1, <2>2, <2>3 DEF HandoffTypeOK, Snapped
  <2>5. \A t \in Sessions : /\ shellOf'[t] = shellOf[t] \/ (shellOf[t] = "alive" /\ shellOf'[t] = "exited")
                            /\ shellOf[t] = "none" => conn'[t] = "none"
                            /\ conn'[t] = "gone" => conn[t] = "gone" \/ shellOf[t] # "alive"
    BY <1>1, <2>2
  <2>6. QED
    BY <1>1, <2>4, <2>5, TerminalStep
<1>3. CASE ShellExits(s)
  <2>1. /\ shellOf[s] = "alive" /\ shellOf' = [shellOf EXCEPT ![s] = "exited"]
        /\ UNCHANGED <<emitted, ring, hand, pipe>>
    BY <1>3 DEF ShellExits, terminalVars
  <2>2. HandoffTypeOK'
    BY <1>1, <2>1 DEF HandoffTypeOK, Snapped
  <2>3. \A t \in Sessions : /\ shellOf'[t] = shellOf[t] \/ (shellOf[t] = "alive" /\ shellOf'[t] = "exited")
                            /\ shellOf[t] = "none" => conn'[t] = "none"
                            /\ conn'[t] = "gone" => conn[t] = "gone" \/ shellOf[t] # "alive"
    BY <1>1, <2>1 DEF HandoffTypeOK
  <2>4. QED
    BY <1>1, <2>2, <2>3, TerminalStep
<1>4. ASSUME NEW n \in 1..MaxChunk, Read(d, s, n) PROVE HandInv'
  <2> DEFINE bytes == [i \in 1..n |-> emitted[s] + i - 1]
  <2>1. /\ hand' = [hand EXCEPT ![d][s] = bytes] /\ emitted' = [emitted EXCEPT ![s] = emitted[s] + n]
        /\ UNCHANGED <<shellOf, ring, pipe>>
    BY <1>4 DEF Read, terminalVars
  <2>2. n \in Nat /\ emitted[s] + n \in Nat /\ \A i \in 1..n : emitted[s] + i - 1 \in Nat
    BY <1>1
  <2>3. bytes \in Seq(Nat)
    BY <2>2, IsASeq
  <2> HIDE DEF bytes
  <2>4. HandoffTypeOK'
    <3>1. hand' \in [Daemons -> [Sessions -> Seq(Nat)]] /\ emitted' \in [Sessions -> Nat]
      BY <1>1, <2>1, <2>2, <2>3 DEF HandoffTypeOK
    <3>2. QED
      BY <1>1, <2>1, <3>1 DEF HandoffTypeOK, Snapped
  <2>5. \A t \in Sessions : /\ shellOf'[t] = shellOf[t] \/ (shellOf[t] = "alive" /\ shellOf'[t] = "exited")
                            /\ shellOf[t] = "none" => conn'[t] = "none"
                            /\ conn'[t] = "gone" => conn[t] = "gone" \/ shellOf[t] # "alive"
    BY <1>1, <2>1
  <2>6. QED
    BY <1>1, <2>4, <2>5, TerminalStep
<1>5. QED
  BY <1>2, <1>3, <1>4

LEMMA EndSessionKeeps ==
  ASSUME HandInv, NEW d \in Daemons, NEW s \in Sessions, EndSession(d, s) PROVE HandInv'
<1>1. /\ shellOf[s] = "exited"
      /\ registered' = [registered EXCEPT ![d] = registered[d] \ {s}]
      /\ masters' = [masters EXCEPT ![d] = masters[d] \ {s}]
      /\ UNCHANGED <<shellOf, emitted, ring, hand, quiet, old, new, third, snap, tries, toAdopt, skipped,
                     conn, pipe, shown, cursor, told, misled>>
  BY DEF EndSession, upgradeVars, terminalVars
<1>2. HandoffTypeOK'
  BY <1>1 DEF HandInv, HandoffTypeOK, Snapped
<1>3. \A e \in Daemons : /\ masters'[e] \subseteq masters[e] /\ registered'[e] \subseteq registered[e]
                         /\ masters[e] \ {s} \subseteq masters'[e]
                         /\ registered[e] \ {s} \subseteq registered'[e]
  BY <1>1 DEF HandInv, HandoffTypeOK
<1>4. "old" \in Daemons /\ "new" \in Daemons
  BY DEF Daemons
<1>5. Roles'
  BY <1>1, <1>3, <1>4 DEF HandInv, Up, Roles
<1>6. Held'
  BY <1>1, <1>3, <1>4 DEF HandInv, Up, Held
<1>7. ShellsOutliveHandover'
  BY <1>1 DEF HandInv, ShellsOutliveHandover, SnappedShellsSurvive, GoneIsGone, Snapped
<1>8. QED
  BY <1>2, <1>5, <1>6, <1>7 DEF HandInv

\* The old daemon is still there, and so is every shell.
LEMMA SnapshotKeeps == ASSUME HandInv, Snapshot PROVE HandInv'
<1>1. /\ old = "serving" /\ tries < MaxTries /\ old' = "handing" /\ tries' = tries + 1
      /\ snap' = [s \in Sessions |-> IF s \in registered["old"]
                                     THEN [seq |-> ring["old"][s].seq, taken |-> TRUE] ELSE NoSeq]
      /\ UNCHANGED <<quiet, new, third, toAdopt, skipped, shellOf, emitted, masters, registered, ring, hand,
                     conn, pipe, shown, cursor, told, misled>>
  BY DEF Snapshot, ptyVars, terminalVars
<1>2. new = "none" /\ toAdopt = {} /\ skipped = {}
  BY <1>1 DEF HandInv, Up, Roles
<1>3. \A s \in Sessions : /\ snap'[s] \in [seq : Nat, taken : BOOLEAN]
                          /\ snap'[s].taken <=> s \in registered["old"]
  <2>1. \A s \in Sessions : ring["old"][s].seq \in Nat
    BY HandTypes DEF HandInv, Rings, Daemons
  <2>2. QED
    BY <1>1, <2>1 DEF NoSeq
<1>4. HandoffTypeOK'
  <2>1. snap' \in [Sessions -> [seq : Nat, taken : BOOLEAN]]
    BY <1>1, <1>3
  <2>2. tries' \in 0..MaxTries
    BY <1>1, HandoffAssumption DEF HandInv, HandoffTypeOK
  <2>3. QED
    BY <1>1, <1>2, <2>1, <2>2 DEF HandInv, HandoffTypeOK
<1>5. Roles'
  BY <1>1, <1>2 DEF HandInv, Up, Roles
<1>6. Held'
  BY <1>1, <1>2, <1>3 DEF HandInv, Up, Held, Daemons
<1>7. ShellsOutliveHandover'
  BY <1>1, <1>3 DEF HandInv, Up, Held, ShellsOutliveHandover, SnappedShellsSurvive, GoneIsGone, Snapped
<1>8. QED
  BY <1>4, <1>5, <1>6, <1>7 DEF HandInv

LEMMA SpawnKeeps == ASSUME HandInv, SpawnNew PROVE HandInv'
<1>1. /\ old = "handing" /\ old' = "waiting" /\ new' = "adopting" /\ toAdopt' = Snapped
      /\ masters' = [masters EXCEPT !["new"] = Snapped]
      /\ UNCHANGED <<quiet, third, snap, tries, skipped, shellOf, emitted, registered, ring, hand,
                     conn, pipe, shown, cursor, told, misled>>
  BY DEF SpawnNew, terminalVars
<1>2. /\ new = "none" /\ skipped = {} /\ registered["new"] = {} /\ Snapped' = Snapped
      /\ Snapped \subseteq Sessions
  BY <1>1 DEF HandInv, Up, Roles, Snapped
<1>3. /\ masters'["new"] = Snapped /\ masters'["old"] = masters["old"]
      /\ masters' \in [Daemons -> SUBSET Sessions]
  BY <1>1, <1>2 DEF HandInv, HandoffTypeOK, Daemons
<1>4. HandoffTypeOK'
  BY <1>1, <1>2, <1>3 DEF HandInv, HandoffTypeOK
<1>5. Roles'
  BY <1>1, <1>2 DEF Up, Roles, Snapped
<1>6. Held'
  BY <1>1, <1>2, <1>3 DEF HandInv, Up, Held, Daemons, Snapped
<1>7. ShellsOutliveHandover'
  BY <1>1, <1>2 DEF HandInv, ShellsOutliveHandover, SnappedShellsSurvive, GoneIsGone
<1>8. QED
  BY <1>4, <1>5, <1>6, <1>7 DEF HandInv

LEMMA AdoptKeeps == ASSUME HandInv, NEW s \in Sessions, Adopt(s) PROVE HandInv'
<1>1. /\ new = "adopting" /\ s \in toAdopt /\ toAdopt' = toAdopt \ {s}
      /\ UNCHANGED <<quiet, old, new, third, snap, tries, emitted, hand, conn, pipe, shown, cursor, told, misled>>
      /\ old = "waiting" /\ HandoffTypeOK /\ snap[s].seq \in Nat
  BY DEF Adopt, terminalVars, HandInv, Roles, HandoffTypeOK
<1>2. CASE /\ registered' = [registered EXCEPT !["new"] = registered["new"] \cup {s}]
           /\ ring' = [ring EXCEPT !["new"][s] = Resumed(snap[s].seq)]
           /\ UNCHANGED <<shellOf, masters, skipped>>
  <2>1. Resumed(snap[s].seq) \in Rings(Nat)
    BY <1>1, EmptySeq DEF Resumed, Rings
  <2>2. /\ ring' \in [Daemons -> [Sessions -> Rings(Nat)]]
        /\ registered' \in [Daemons -> SUBSET Sessions]
        /\ registered'["new"] = registered["new"] \cup {s} /\ registered'["old"] = registered["old"]
    BY <1>1, <1>2, <2>1 DEF HandoffTypeOK, Daemons
  <2>3. HandoffTypeOK'
    BY <1>1, <1>2, <2>2 DEF HandoffTypeOK, Snapped
  <2>4. Roles'
    BY <1>1 DEF HandInv, Up, Roles
  <2>5. shellOf[s] # "none"
    BY <1>1 DEF HandInv, Up, Roles, Held
  <2>6. Held'
    BY <1>1, <1>2, <2>2, <2>5 DEF HandInv, Up, Held, Daemons
  <2>7. ShellsOutliveHandover'
    BY <1>1, <1>2 DEF HandInv, ShellsOutliveHandover, SnappedShellsSurvive, GoneIsGone, Snapped
  <2>8. QED
    BY <2>3, <2>4, <2>6, <2>7 DEF HandInv
<1>3. CASE /\ CloseMasters("new", {s})
           /\ skipped' = skipped \cup {s}
           /\ UNCHANGED <<registered, ring>>
  <2>1. /\ masters' = [masters EXCEPT !["new"] = masters["new"] \ {s}] /\ shellOf' = shellOf
    BY <1>1, <1>3 DEF CloseMasters, HandInv, Held, Daemons, HandoffTypeOK
  <2>2. /\ masters' \in [Daemons -> SUBSET Sessions] /\ snap[s].taken
        /\ masters'["new"] = masters["new"] \ {s} /\ masters'["old"] = masters["old"]
    BY <1>1, <2>1 DEF HandInv, Up, Roles, HandoffTypeOK, Daemons
  <2>3. HandoffTypeOK'
    BY <1>1, <1>3, <2>1, <2>2 DEF HandoffTypeOK, Snapped
  <2>4. Roles'
    BY <1>1, <1>3, <2>2 DEF HandInv, Up, Roles
  <2>5. Held'
    BY <1>1, <1>3, <2>1, <2>2 DEF HandInv, Up, Held, Daemons
  <2>6. ShellsOutliveHandover'
    BY <1>1, <1>3, <2>1 DEF HandInv, ShellsOutliveHandover, SnappedShellsSurvive, GoneIsGone, Snapped
  <2>7. QED
    BY <2>3, <2>4, <2>5, <2>6 DEF HandInv
<1>4. QED
  BY <1>2, <1>3 DEF Adopt

LEMMA AckKeeps == ASSUME HandInv, Ack PROVE HandInv'
<1>1. /\ new = "adopting" /\ toAdopt = {} /\ new' = "acked" /\ old = "waiting"
      /\ UNCHANGED <<quiet, old, third, snap, tries, toAdopt, skipped, shellOf, emitted, masters, registered,
                     ring, hand, conn, pipe, shown, cursor, told, misled>>
  BY DEF Ack, HandInv, Roles, HandoffTypeOK, ptyVars, terminalVars
<1>2. HandoffTypeOK'
  BY <1>1 DEF HandInv, HandoffTypeOK, Snapped
<1>3. Roles' /\ Held' /\ ShellsOutliveHandover'
  BY <1>1 DEF HandInv, Up, Roles, Held, ShellsOutliveHandover, SnappedShellsSurvive, GoneIsGone, Snapped
<1>4. QED
  BY <1>2, <1>3 DEF HandInv

\* What happens at the path after the old daemon's exit.
LEMMA PathKeeps ==
  ASSUME HandInv, NewUnlinks \/ NewServes \/ StartThird \/ ThirdBinds \/ ThirdStepsBack
  PROVE  HandInv'
<1>1. /\ \/ UNCHANGED new
         \/ /\ new \in {"acked", "taking", "serving"} /\ new' \in {"taking", "serving", "aside"}
            /\ old = "exited"
      /\ third' \in {"none", "booting", "serving", "aside"}
      /\ UNCHANGED <<quiet, old, snap, tries, toAdopt, skipped, shellOf, emitted, masters, registered,
                     ring, hand, conn, pipe, shown, cursor, told, misled>>
  BY DEF NewUnlinks, NewServes, StartThird, ThirdBinds, ThirdStepsBack, ptyVars, terminalVars,
         HandInv, HandoffTypeOK, Roles
<1>2. HandoffTypeOK'
  BY <1>1 DEF HandInv, HandoffTypeOK, Snapped
<1>3. Roles'
  BY <1>1 DEF HandInv, Up, Roles
<1>4. Held'
  BY <1>1 DEF HandInv, Up, Held
<1>5. ShellsOutliveHandover'
  BY <1>1 DEF HandInv, ShellsOutliveHandover, SnappedShellsSurvive, GoneIsGone, Snapped
<1>6. QED
  BY <1>2, <1>3, <1>4, <1>5 DEF HandInv

\* What the new daemon does not hold the exit hangs up on; that is nothing that was
\* snapshot and not skipped.
LEMMA CommitKeeps == ASSUME HandInv, CommitHandoff PROVE HandInv'
<1>1. /\ old = "waiting" /\ new \in {"acked", "killed"} /\ old' = "exited" /\ HandoffTypeOK
      /\ CloseMasters("old", masters["old"])
      /\ registered' = [registered EXCEPT !["old"] = {}]
      /\ hand' = [hand EXCEPT !["old"] = [s \in Sessions |-> <<>>]]
      /\ UNCHANGED <<quiet, new, third, snap, tries, toAdopt, skipped, emitted, ring,
                     conn, pipe, shown, cursor, told, misled>>
  BY DEF CommitHandoff, terminalVars, HandInv
<1>2. /\ masters' \in [Daemons -> SUBSET Sessions] /\ registered' \in [Daemons -> SUBSET Sessions]
      /\ masters'["old"] = {} /\ masters'["new"] = masters["new"]
      /\ registered'["old"] = {} /\ registered'["new"] = registered["new"]
      /\ hand' \in [Daemons -> [Sessions -> Seq(Nat)]]
  BY <1>1, EmptySeq DEF CloseMasters, HandoffTypeOK, Daemons
<1>3. /\ shellOf' \in [Sessions -> {"none", "alive", "exited", "hup"}]
      /\ \A s \in Sessions :
           shellOf'[s] = IF shellOf[s] = "alive" /\ s \notin masters["new"] THEN "hup" ELSE shellOf[s]
  <2>1. \A s \in Sessions : shellOf[s] = "alive" => s \in masters["old"]
    BY <1>1 DEF HandInv, Up, Held
  <2>2. QED
    BY <1>1, <2>1 DEF CloseMasters, HandoffTypeOK, Daemons
<1>4. HandoffTypeOK'
  BY <1>1, <1>2, <1>3 DEF HandoffTypeOK, Snapped
<1>5. Roles'
  BY <1>1, <1>2 DEF HandInv, Up, Roles
<1>6. Held'
  BY <1>1, <1>2, <1>3 DEF HandInv, Up, Held, Daemons
<1>7. ShellsOutliveHandover'
  BY <1>1, <1>3 DEF HandInv, Up, Held, ShellsOutliveHandover, SnappedShellsSurvive, GoneIsGone, Snapped
<1>8. QED
  BY <1>4, <1>5, <1>6, <1>7 DEF HandInv

\* The new daemon's process ends: while the old one runs, it holds every shell.
LEMMA EndOfNew ==
  ASSUME HandInv, NewEnds
  PROVE  /\ toAdopt' = {}
         /\ masters' \in [Daemons -> SUBSET Sessions] /\ registered' \in [Daemons -> SUBSET Sessions]
         /\ masters'["new"] = {} /\ masters'["old"] = masters["old"]
         /\ registered'["new"] = {} /\ registered'["old"] = registered["old"]
         /\ hand' \in [Daemons -> [Sessions -> Seq(Nat)]]
         /\ ring' \in [Daemons -> [Sessions -> Rings(Nat)]]
         /\ shellOf' \in [Sessions -> {"none", "alive", "exited", "hup"}]
         /\ old # "exited" => shellOf' = shellOf
         /\ old = "exited" => \A s \in Sessions :
              shellOf'[s] = IF shellOf[s] = "alive" THEN "hup" ELSE shellOf[s]
<1>1. NewRing \in Rings(Nat) /\ <<>> \in Seq(Nat) /\ HandoffTypeOK
  BY EmptySeq DEF NewRing, Resumed, Rings, HandInv
<1>2. /\ toAdopt' = {}
      /\ masters' = [masters EXCEPT !["new"] = masters["new"] \ masters["new"]]
      /\ shellOf' = [s \in Sessions |->
                      IF /\ s \in masters["new"] /\ shellOf[s] = "alive"
                         /\ \A e \in Daemons \ {"new"} : s \notin masters[e]
                      THEN "hup" ELSE shellOf[s]]
      /\ registered' = [registered EXCEPT !["new"] = {}]
      /\ ring' = [ring EXCEPT !["new"] = [s \in Sessions |-> NewRing]]
      /\ hand' = [hand EXCEPT !["new"] = [s \in Sessions |-> <<>>]]
  BY DEF NewEnds, CloseMasters
<1>3. /\ masters' \in [Daemons -> SUBSET Sessions] /\ registered' \in [Daemons -> SUBSET Sessions]
      /\ masters'["new"] = {} /\ masters'["old"] = masters["old"]
      /\ registered'["new"] = {} /\ registered'["old"] = registered["old"]
      /\ hand' \in [Daemons -> [Sessions -> Seq(Nat)]]
      /\ ring' \in [Daemons -> [Sessions -> Rings(Nat)]]
  BY <1>1, <1>2 DEF HandoffTypeOK, Daemons
<1>4. \A s \in Sessions :
        /\ shellOf'[s] \in {"none", "alive", "exited", "hup"}
        /\ old # "exited" => shellOf'[s] = shellOf[s]
        /\ old = "exited" => shellOf'[s] = IF shellOf[s] = "alive" THEN "hup" ELSE shellOf[s]
  BY <1>1, <1>2 DEF HandInv, Held, Roles, HandoffTypeOK, Daemons
<1>5. shellOf' \in [Sessions -> {"none", "alive", "exited", "hup"}]
  BY <1>2, <1>4
<1>6. old # "exited" => shellOf' = shellOf
  BY <1>1, <1>2, <1>4 DEF HandoffTypeOK
<1>7. QED
  BY <1>2, <1>3, <1>4, <1>5, <1>6

LEMMA RollbackKeeps == ASSUME HandInv, RollbackHandoff PROVE HandInv'
<1>1. /\ old \in {"handing", "waiting"} /\ old' = "serving" /\ new' = "none" /\ HandoffTypeOK
      /\ NewEnds /\ skipped' = {}
      /\ UNCHANGED <<quiet, third, snap, tries, emitted, conn, pipe, shown, cursor, told, misled>>
  BY DEF RollbackHandoff, HandingOver, terminalVars, HandInv
<1>2. /\ shellOf' = shellOf /\ toAdopt' = {}
      /\ masters' \in [Daemons -> SUBSET Sessions] /\ registered' \in [Daemons -> SUBSET Sessions]
      /\ masters'["new"] = {} /\ masters'["old"] = masters["old"]
      /\ registered'["new"] = {} /\ registered'["old"] = registered["old"]
      /\ hand' \in [Daemons -> [Sessions -> Seq(Nat)]]
      /\ ring' \in [Daemons -> [Sessions -> Rings(Nat)]]
  BY <1>1, EndOfNew
<1>3. HandoffTypeOK'
  BY <1>1, <1>2 DEF HandoffTypeOK
<1>4. Roles'
  BY <1>1, <1>2 DEF Up, Roles
<1>5. Held'
  BY <1>1, <1>2 DEF HandInv, Up, Held, Daemons
<1>6. ShellsOutliveHandover'
  BY <1>1, <1>2 DEF HandInv, Held, ShellsOutliveHandover, SnappedShellsSurvive, GoneIsGone, Snapped
<1>7. QED
  BY <1>3, <1>4, <1>5, <1>6 DEF HandInv

\* The successor dies, or finds the path taken: what only it holds is hung up on.
LEMMA NewEndsKeeps == ASSUME HandInv, NewDies \/ NewFailsToBind PROVE HandInv'
<1>1. /\ new \in {"adopting", "acked", "taking"}
      /\ new' = IF new = "adopting" THEN "dead" ELSE "killed"
      /\ NewEnds /\ HandoffTypeOK
      /\ UNCHANGED <<quiet, old, third, snap, tries, skipped, emitted, conn, pipe, shown, cursor,
                     told, misled>>
  BY DEF NewDies, NewFailsToBind, terminalVars, HandInv
<1>2. /\ toAdopt' = {}
      /\ masters' \in [Daemons -> SUBSET Sessions] /\ registered' \in [Daemons -> SUBSET Sessions]
      /\ masters'["new"] = {} /\ masters'["old"] = masters["old"]
      /\ registered'["new"] = {} /\ registered'["old"] = registered["old"]
      /\ hand' \in [Daemons -> [Sessions -> Seq(Nat)]]
      /\ ring' \in [Daemons -> [Sessions -> Rings(Nat)]]
      /\ shellOf' \in [Sessions -> {"none", "alive", "exited", "hup"}]
      /\ old # "exited" => shellOf' = shellOf
      /\ old = "exited" => \A s \in Sessions :
           shellOf'[s] = IF shellOf[s] = "alive" THEN "hup" ELSE shellOf[s]
  BY <1>1, EndOfNew
<1>3. HandoffTypeOK'
  BY <1>1, <1>2 DEF HandoffTypeOK, Snapped
<1>4. Roles'
  BY <1>1, <1>2 DEF HandInv, Up, Roles
<1>5. CASE old # "exited"
  <2>1. Held'
    BY <1>1, <1>2, <1>5 DEF HandInv, Up, Held, Daemons
  <2>2. ShellsOutliveHandover'
    BY <1>1, <1>2, <1>5 DEF HandInv, Held, ShellsOutliveHandover, SnappedShellsSurvive, GoneIsGone, Snapped
  <2>3. QED
    BY <1>3, <1>4, <2>1, <2>2 DEF HandInv
<1>6. CASE old = "exited"
  <2>1. Held'
    BY <1>1, <1>2, <1>6 DEF HandInv, Up, Held, Daemons
  <2>2. new' = "killed"
    BY <1>1, <1>6 DEF HandInv, Roles
  <2>3. ShellsOutliveHandover'
    BY <1>1, <1>2, <1>6, <2>2
       DEF HandInv, Held, ShellsOutliveHandover, SnappedShellsSurvive, GoneIsGone, Snapped
  <2>4. QED
    BY <1>3, <1>4, <2>1, <2>3 DEF HandInv
<1>7. QED
  BY <1>5, <1>6

LEMMA HandSteps == HandInv /\ [HandoffNext]_handoffVars => HandInv'
<1> SUFFICES ASSUME HandInv, [HandoffNext]_handoffVars PROVE HandInv'
  OBVIOUS
<1>1. CASE UNCHANGED handoffVars
  <2>1. UNCHANGED <<quiet, old, new, third, snap, tries, toAdopt, skipped, shellOf, emitted, masters, registered,
                    ring, hand, conn, pipe, shown, cursor, told, misled>>
    BY <1>1 DEF handoffVars, upgradeVars, ptyVars, terminalVars
  <2>2. HandoffTypeOK'
    BY <2>1 DEF HandInv, HandoffTypeOK, Snapped
  <2>3. Roles' /\ Held' /\ ShellsOutliveHandover'
    BY <2>1 DEF HandInv, Up, Roles, Held, ShellsOutliveHandover, SnappedShellsSurvive, GoneIsGone, Snapped
  <2>4. QED
    BY <2>2, <2>3 DEF HandInv
<1>2. ASSUME NEW s \in Sessions,
             \/ CreateSession(s) \/ AttachLive(s) \/ ShellExits(s) \/ Adopt(s)
             \/ Show(s) \/ StreamCloses(s) \/ Gone(s) \/ GiveUp(s) \/ Reattach(s)
      PROVE  HandInv'
  <2>1. "old" \in Daemons
    BY DEF Daemons
  <2>2. QED
    BY <1>2, <2>1, CreateKeeps, TerminalKeeps, ShowKeeps, ReaderKeeps, AdoptKeeps
<1>3. ASSUME NEW s \in Sessions, NEW d \in Daemons,
             (\E n \in 1..MaxChunk : Read(d, s, n)) \/ PushOut(d, s) \/ EndSession(d, s)
      PROVE  HandInv'
  BY <1>3, ReaderKeeps, EndSessionKeeps
<1>4. QED
  BY <1>1, <1>2, <1>3, SnapshotKeeps, SpawnKeeps, AckKeeps, CommitKeeps, RollbackKeeps, PathKeeps,
     NewEndsKeeps
     DEF HandoffNext

\* No shell the snapshot names is hung up on by the upgrade, committed or rolled back at any
\* point, unless the successor skipped it or ended after its ack, and no terminal is told that
\* its shell is gone while it lives, unless it asked the third daemon (do_handoff,
\* run_handoff_adopt, reattach_live_session).
THEOREM ShellsAreKept == HandoffSpec => [](HandoffTypeOK /\ ShellsOutliveHandover)
<1>1. HandInv => HandoffTypeOK /\ ShellsOutliveHandover
  BY DEF HandInv
<1>2. QED
  BY <1>1, HandStarts, HandSteps, PTL DEF HandoffSpec

-----------------------------------------------------------------------------
(* The terminals' streams, while the shells are quiet during a handover.  The invariant *)
(* says of one session what its readers have (ReadersAt) and where its terminal stands  *)
(* (TerminalAt): its cursor is where it is as long as it may still be reattached from.   *)

ReadersAt(s) ==
  /\ \A d \in Daemons : RingIsTail(ring[d][s]) /\ Consecutive(hand[d][s], ring[d][s].seq)
  /\ old # "exited" => emitted[s] = ring["old"][s].seq + Len(hand["old"][s])
  /\ s \in registered["new"] => emitted[s] = ring["new"][s].seq + Len(hand["new"][s])
  /\ s \notin registered["new"] => hand["new"][s] = <<>>
  /\ HandingOver => /\ \A d \in Daemons : hand[d][s] = <<>>
                    /\ snap[s].taken => snap[s].seq = ring["old"][s].seq

End(s) == shown[s] + Len(pipe[s])

TerminalAt(s) ==
  /\ Consecutive(pipe[s], shown[s])
  /\ conn[s] \in Daemons => ring[conn[s]][s].seq = End(s)
  /\ conn[s] \notin Daemons => pipe[s] = <<>>
  /\ End(s) <= emitted[s]
  /\ old # "exited" => End(s) <= ring["old"][s].seq
  /\ s \in registered["new"] => End(s) <= ring["new"][s].seq
  /\ conn[s] = "new" => new \in {"serving", "aside"}
  /\ conn[s] = "asking" => (old = "exited" \/ s \notin registered["old"])
  /\ \/ old = "exited" /\ (conn[s] = "new" \/ s \notin registered["new"])
     \/ cursor[s] = shown[s]

Aligned == \A s \in Sessions : ReadersAt(s) /\ TerminalAt(s)

\* What a step may do to the stream of a terminal.
StreamGoesOn(s) == Stream(s)!Next \/ UNCHANGED Stream(s)!vars

LEMMA StreamStays ==
  ASSUME NEW s \in Sessions, emitted'[s] = emitted[s], shown'[s] = shown[s], told'[s] = told[s],
         (conn'[s] = "none") <=> (conn[s] = "none")
  PROVE  StreamGoesOn(s)
<1>1. (conn[s] # "none")' = (conn[s] # "none")
  OBVIOUS
<1>2. QED
  BY <1>1 DEF StreamGoesOn, Stream!vars

LEMMA AlignedStarts == ASSUME HandoffInit PROVE Aligned
<1>1. ASSUME NEW s \in Sessions PROVE ReadersAt(s) /\ TerminalAt(s)
  <2>1. /\ \A d \in Daemons : ring[d][s] = NewRing /\ hand[d][s] = <<>>
        /\ emitted[s] = 0 /\ shown[s] = 0 /\ cursor[s] = 0 /\ pipe[s] = <<>> /\ conn[s] = "none"
        /\ registered["new"] = {} /\ old = "serving"
    BY DEF HandoffInit, Daemons
  <2>2. Len(<<>>) = 0 /\ \A n \in Int : Consecutive(<<>>, n)
    BY EmptySeq DEF Consecutive
  <2>3. NewRing.seq = 0 /\ NewRing.buf = <<>> /\ StartSeq(NewRing) \in Int
    BY <2>2 DEF NewRing, Resumed, StartSeq
  <2>4. RingIsTail(NewRing)
    BY <2>2, <2>3 DEF RingIsTail
  <2>5. QED
    BY <2>1, <2>2, <2>3, <2>4 DEF ReadersAt, TerminalAt, End, HandingOver, Daemons
<1>2. QED
  BY <1>1 DEF Aligned

\* Nothing happens to a session, whatever the upgrade does.
LEMMA Undisturbed ==
  ASSUME NEW s \in Sessions, ReadersAt(s) /\ TerminalAt(s),
         \A d \in Daemons : ring'[d][s] = ring[d][s] /\ hand'[d][s] = hand[d][s],
         emitted'[s] = emitted[s], pipe'[s] = pipe[s], shown'[s] = shown[s],
         cursor'[s] = cursor[s], conn'[s] = conn[s],
         (s \in registered'["new"]) <=> (s \in registered["new"]),
         s \notin registered["old"] => s \notin registered'["old"],
         old = "exited" => old' = "exited",
         HandingOver' => HandingOver /\ snap'[s] = snap[s],
         conn[s] = "new" => new' \in {"serving", "aside"}
  PROVE  ReadersAt(s)' /\ TerminalAt(s)'
<1>1. ReadersAt(s)'
  BY DEF ReadersAt, Daemons
<1>2. TerminalAt(s)'
  <2>1. /\ Consecutive(pipe[s], shown[s])' = Consecutive(pipe[s], shown[s])
        /\ End(s)' = End(s)
    BY DEF Consecutive, End
  <2>2. conn[s] \in Daemons => ring'[conn[s]][s] = ring[conn[s]][s]
    OBVIOUS
  <2>3. ring'["old"][s] = ring["old"][s] /\ ring'["new"][s] = ring["new"][s]
    BY DEF Daemons
  <2> HIDE DEF End, Consecutive, Daemons
  <2>4. QED
    BY <2>1, <2>2, <2>3 DEF TerminalAt
<1>3. QED
  BY <1>1, <1>2

LEMMA Registering ==
  ASSUME HandInv, NEW s \in Sessions, CreateSession(s) \/ ShellExits(s) \/ EndSession("old", s),
         Aligned
  PROVE  Aligned' /\ \A t \in Sessions : StreamGoesOn(t)
<1>1. /\ UNCHANGED <<emitted, ring, hand, quiet, old, new, snap, conn, pipe, shown, cursor, told>>
      /\ registered'["new"] = registered["new"] /\ HandingOver' = HandingOver
      /\ \A t \in Sessions : t \in registered'["old"] => t \in registered["old"] \/ conn[t] = "none"
  BY DEF CreateSession, ShellExits, EndSession, upgradeVars, terminalVars, HandingOver, HandInv,
         HandoffTypeOK, Held, Daemons
<1>2. \A t \in Sessions : ReadersAt(t)'
  BY <1>1 DEF Aligned, ReadersAt
<1>3. \A t \in Sessions : TerminalAt(t)'
  BY <1>1 DEF Aligned, TerminalAt, End, Daemons
<1>4. QED
  BY <1>1, <1>2, <1>3, StreamStays DEF Aligned

LEMMA EndsOnNew ==
  ASSUME HandInv, NEW s \in Sessions, EndSession("new", s), Aligned
  PROVE  Aligned' /\ \A t \in Sessions : StreamGoesOn(t)
<1>1. /\ UNCHANGED <<emitted, ring, hand, quiet, old, new, snap, conn, pipe, shown, cursor, told>>
      /\ registered'["new"] = registered["new"] \ {s} /\ registered'["old"] = registered["old"]
      /\ HandingOver' = HandingOver /\ hand["new"][s] = <<>>
  BY DEF EndSession, upgradeVars, terminalVars, HandingOver, HandInv, HandoffTypeOK, Daemons
<1>2. \A t \in Sessions : ReadersAt(t)'
  BY <1>1 DEF Aligned, ReadersAt
<1>3. \A t \in Sessions : TerminalAt(t)'
  BY <1>1 DEF Aligned, TerminalAt, End
<1>4. QED
  BY <1>1, <1>2, <1>3, StreamStays DEF Aligned

\* The upgrade's own steps, but for the snapshot, an adoption and the end of a process.
PathStep == NewUnlinks \/ NewServes \/ StartThird \/ ThirdBinds \/ ThirdStepsBack

LEMMA UpgradeSteps ==
  ASSUME HandInv, SpawnNew \/ Ack \/ CommitHandoff \/ PathStep, Aligned
  PROVE  Aligned' /\ \A t \in Sessions : StreamGoesOn(t)
<1>1. /\ UNCHANGED <<emitted, ring, snap, conn, pipe, shown, cursor, told>>
      /\ registered'["new"] = registered["new"]
      /\ registered'["old"] \subseteq registered["old"]
      /\ old = "exited" => old' = "exited"
      /\ HandingOver' => HandingOver
      /\ new \in {"serving", "aside"} => new' \in {"serving", "aside"}
  <2>1. CASE SpawnNew \/ Ack \/ CommitHandoff
    BY <2>1 DEF SpawnNew, Ack, CommitHandoff, ptyVars, terminalVars, HandingOver, HandInv,
         HandoffTypeOK, Roles, Daemons
  <2>2. CASE PathStep
    BY <2>2 DEF PathStep, NewUnlinks, NewServes, StartThird, ThirdBinds, ThirdStepsBack, ptyVars,
         terminalVars, HandingOver
  <2>3. QED
    BY <2>1, <2>2
<1>2. \A t \in Sessions, d \in Daemons : hand'[d][t] = hand[d][t]
  <2>1. CASE CommitHandoff
    <3>1. \A t \in Sessions : hand["old"][t] = <<>>
      BY <2>1 DEF CommitHandoff, HandingOver, Aligned, ReadersAt, Daemons
    <3>2. QED
      BY <2>1, <3>1 DEF CommitHandoff, HandInv, HandoffTypeOK, Daemons
  <2>2. CASE ~CommitHandoff
    BY <2>2 DEF SpawnNew, Ack, PathStep, NewUnlinks, NewServes, StartThird, ThirdBinds,
                ThirdStepsBack, ptyVars
  <2>3. QED
    BY <2>1, <2>2
<1>3. ASSUME NEW t \in Sessions PROVE ReadersAt(t)' /\ TerminalAt(t)'
  <2>1. conn[t] = "new" => new' \in {"serving", "aside"}
    BY <1>1 DEF Aligned, TerminalAt
  <2>2. QED
    BY <1>1, <1>2, <2>1, Undisturbed DEF Aligned
<1>4. QED
  BY <1>1, <1>3, StreamStays DEF Aligned

LEMMA SnapshotAligned ==
  ASSUME HandInv, quiet, Snapshot, Aligned
  PROVE  Aligned' /\ \A t \in Sessions : StreamGoesOn(t)
<1>1. /\ UNCHANGED <<emitted, ring, hand, registered, new, conn, pipe, shown, cursor, told>>
      /\ old = "serving" /\ old' = "handing" /\ \A t \in Sessions : hand["old"][t] = <<>>
      /\ \A t \in Sessions : snap'[t].taken => snap'[t].seq = ring["old"][t].seq
  BY DEF Snapshot, ptyVars, terminalVars, NoSeq
<1>2. \A t \in Sessions : hand["new"][t] = <<>>
  BY <1>1 DEF HandInv, Up, Roles, Aligned, ReadersAt
<1>3. \A t \in Sessions : ReadersAt(t)'
  BY <1>1, <1>2 DEF Aligned, ReadersAt, Daemons
<1>4. \A t \in Sessions : TerminalAt(t)'
  BY <1>1 DEF Aligned, TerminalAt, End
<1>5. QED
  BY <1>1, <1>3, <1>4, StreamStays DEF Aligned

\* The new daemon's process ends before it served.
LEMMA EndOfNewAligned ==
  ASSUME HandInv, RollbackHandoff \/ NewDies \/ NewFailsToBind, Aligned
  PROVE  Aligned' /\ \A t \in Sessions : StreamGoesOn(t)
<1>1. /\ UNCHANGED <<emitted, snap, conn, pipe, shown, cursor, told>>
      /\ new \notin {"serving", "aside"} /\ (old' = "exited" <=> old = "exited")
      /\ HandingOver' => HandingOver
  BY DEF RollbackHandoff, NewDies, NewFailsToBind, terminalVars, HandingOver, HandInv, Roles
<1>2. NewEnds
  BY DEF RollbackHandoff, NewDies, NewFailsToBind
<1>3. /\ registered'["new"] = {} /\ registered'["old"] = registered["old"]
      /\ \A t \in Sessions : /\ ring'["old"][t] = ring["old"][t] /\ hand'["old"][t] = hand["old"][t]
                             /\ ring'["new"][t] = NewRing /\ hand'["new"][t] = <<>>
  BY <1>2 DEF NewEnds, HandInv, HandoffTypeOK, Daemons
<1>4. RingIsTail(NewRing) /\ \A n \in Int : Consecutive(<<>>, n) /\ NewRing.seq = 0
  BY EmptySeq DEF RingIsTail, NewRing, Resumed, StartSeq, Consecutive
<1>5. \A t \in Sessions : ReadersAt(t)'
  BY <1>1, <1>3, <1>4 DEF Aligned, ReadersAt, Daemons
<1>6. \A t \in Sessions : TerminalAt(t)'
  BY <1>1, <1>3 DEF Aligned, TerminalAt, End, Daemons
<1>7. QED
  BY <1>1, <1>5, <1>6, StreamStays DEF Aligned

LEMMA FreshRing ==
  ASSUME NEW n \in Nat
  PROVE  /\ RingIsTail(Resumed(n)) /\ Resumed(n).seq = n /\ \A k \in Int : Consecutive(<<>>, k)
BY EmptySeq DEF RingIsTail, Resumed, StartSeq, Consecutive

LEMMA AdoptAligned ==
  ASSUME HandInv, NEW s \in Sessions, Adopt(s), Aligned
  PROVE  Aligned' /\ \A t \in Sessions : StreamGoesOn(t)
<1>1. /\ UNCHANGED <<quiet, old, new, snap, emitted, hand, conn, pipe, shown, cursor, told>>
      /\ new = "adopting" /\ old = "waiting" /\ snap[s].taken
      /\ registered'["old"] = registered["old"] /\ ring'["old"] = ring["old"]
      /\ \/ /\ registered'["new"] = registered["new"] \cup {s}
            /\ ring'["new"][s] = Resumed(snap[s].seq)
            /\ \A t \in Sessions \ {s} : ring'["new"][t] = ring["new"][t]
         \/ UNCHANGED <<registered, ring>>
  BY DEF Adopt, CloseMasters, terminalVars, HandInv, HandoffTypeOK, Roles, Daemons
<1>2. HandingOver /\ HandingOver'
  BY <1>1 DEF HandingOver
<1>3. ASSUME NEW t \in Sessions, registered'["new"] = registered["new"] \/ t # s,
             ring'["new"][t] = ring["new"][t]
      PROVE  ReadersAt(t)' /\ TerminalAt(t)'
  <2>1. /\ \A d \in Daemons : ring'[d][t] = ring[d][t] /\ hand'[d][t] = hand[d][t]
        /\ (t \in registered'["new"]) <=> (t \in registered["new"])
    BY <1>1, <1>3 DEF Daemons
  <2>2. conn[t] = "new" => new' \in {"serving", "aside"}
    BY <1>1 DEF Aligned, TerminalAt
  <2>3. ReadersAt(t) /\ TerminalAt(t)
    BY DEF Aligned
  <2>4. QED
    BY <1>1, <1>2, <2>1, <2>2, <2>3, Undisturbed
<1>4. CASE UNCHANGED <<registered, ring>>
  <2>1. \A t \in Sessions : ReadersAt(t)' /\ TerminalAt(t)'
    BY <1>3, <1>4
  <2>2. QED
    BY <1>1, <2>1, StreamStays DEF Aligned
<1>5. CASE /\ registered'["new"] = registered["new"] \cup {s}
           /\ ring'["new"][s] = Resumed(snap[s].seq)
           /\ \A t \in Sessions \ {s} : ring'["new"][t] = ring["new"][t]
  <2>1. ReadersAt(s) /\ TerminalAt(s)
    BY DEF Aligned
  <2>2. /\ snap[s].seq \in Nat /\ snap[s].seq = ring["old"][s].seq
        /\ hand["old"][s] = <<>> /\ hand["new"][s] = <<>> /\ emitted[s] = snap[s].seq
    <3>1. snap[s].seq \in Nat /\ Len(<<>>) = 0
      BY EmptySeq DEF HandInv, HandoffTypeOK
    <3>2. /\ snap[s].seq = ring["old"][s].seq /\ hand["old"][s] = <<>> /\ hand["new"][s] = <<>>
          /\ emitted[s] = ring["old"][s].seq + Len(hand["old"][s])
      BY <1>1, <1>2, <2>1 DEF ReadersAt, Daemons
    <3>3. QED
      BY <3>1, <3>2
  <2>3. RingIsTail(ring'["new"][s]) /\ ring'["new"][s].seq = emitted[s] /\ Len(<<>>) = 0
        /\ \A k \in Int : Consecutive(<<>>, k)
    BY <1>5, <2>2, FreshRing, EmptySeq
  <2>4. ReadersAt(s)'
    <3>1. \A d \in Daemons : RingIsTail(ring'[d][s]) /\ Consecutive(hand'[d][s], ring'[d][s].seq)
      BY <1>1, <2>1, <2>2, <2>3 DEF ReadersAt, Daemons
    <3>2. QED
      BY <1>1, <2>1, <2>2, <2>3, <3>1, <1>5 DEF ReadersAt, Daemons
  <2>5. TerminalAt(s)'
    <3>1. conn[s] # "new" /\ End(s)' = End(s) /\ cursor[s] = shown[s] /\ End(s) <= emitted[s]
      BY <1>1, <2>1 DEF TerminalAt, End
    <3>2. Consecutive(pipe[s], shown[s])' /\ (conn[s] \in Daemons => conn[s] = "old")
      BY <1>1, <2>1, <3>1 DEF TerminalAt, Daemons, Consecutive
    <3>3. QED
      BY <1>1, <2>1, <2>3, <3>1, <3>2, <1>5 DEF TerminalAt, Daemons
  <2>6. \A t \in Sessions : ReadersAt(t)' /\ TerminalAt(t)'
    BY <1>3, <1>5, <2>4, <2>5
  <2>7. QED
    BY <1>1, <2>6, StreamStays DEF Aligned
<1>6. QED
  BY <1>1, <1>4, <1>5

\* Two readers never run at once while the shells are quiet.
LEMMA OneReads ==
  ASSUME HandInv, ~HandingOver
  PROVE  \/ old = "serving" /\ new = "none" /\ registered["new"] = {}
         \/ old = "exited"
BY DEF HandInv, Up, HandoffTypeOK, Roles, HandingOver

LEMMA AttachAligned ==
  ASSUME HandInv, NEW s \in Sessions, AttachLive(s), Aligned
  PROVE  Aligned' /\ \A t \in Sessions : StreamGoesOn(t)
<1> DEFINE at == ring["old"][s].seq
<1>1. /\ UNCHANGED <<quiet, old, new, snap, emitted, ring, hand, registered, pipe, told>>
      /\ conn[s] = "none" /\ old # "exited"
      /\ conn'[s] = "old" /\ shown'[s] = at /\ cursor'[s] = at
      /\ \A t \in Sessions \ {s} : conn'[t] = conn[t] /\ shown'[t] = shown[t] /\ cursor'[t] = cursor[t]
      /\ HandingOver' = HandingOver
  BY DEF AttachLive, Up, upgradeVars, ptyVars, HandInv, HandoffTypeOK, Daemons, HandingOver
<1>2. ReadersAt(s) /\ TerminalAt(s) /\ pipe[s] = <<>> /\ Len(<<>>) = 0
  BY <1>1, EmptySeq DEF Aligned, TerminalAt, Daemons
<1>3. /\ at \in Nat /\ emitted[s] \in Nat /\ Len(hand["old"][s]) \in Nat
      /\ emitted[s] = at + Len(hand["old"][s]) /\ ring["new"][s].seq \in Nat
  BY <1>1, <1>2, HandTypes, LenProperties DEF HandInv, ReadersAt, Rings, Daemons
<1>4. s \in registered["new"] => ring["new"][s].seq = at
  <2>1. CASE HandingOver
    <3>1. hand["old"][s] = <<>> /\ hand["new"][s] = <<>>
      BY <1>2, <2>1 DEF ReadersAt, Daemons
    <3>2. s \in registered["new"] => emitted[s] = ring["new"][s].seq + Len(hand["new"][s])
      BY <1>2 DEF ReadersAt
    <3>3. QED
      BY <1>2, <1>3, <3>1, <3>2
  <2>2. CASE ~HandingOver
    BY <1>1, <2>2, OneReads
  <2>3. QED
    BY <2>1, <2>2
<1>5. \A t \in Sessions : ReadersAt(t)'
  BY <1>1 DEF Aligned, ReadersAt
<1>6. TerminalAt(s)'
  <2>1. End(s)' = at /\ Consecutive(pipe[s], shown[s])'
    BY <1>1, <1>2, <1>3, EmptySeq DEF End, Consecutive
  <2>2. QED
    BY <1>1, <1>2, <1>3, <1>4, <2>1 DEF TerminalAt, Daemons
<1>7. ASSUME NEW t \in Sessions \ {s} PROVE TerminalAt(t)' /\ StreamGoesOn(t)
  <2>1. TerminalAt(t)'
    BY <1>1 DEF Aligned, TerminalAt, End
  <2>2. QED
    BY <1>1, <2>1, StreamStays
<1>8. StreamGoesOn(s)
  BY <1>1, <1>3 DEF StreamGoesOn, Stream!Next, Stream!Join
<1>9. QED
  BY <1>5, <1>6, <1>7, <1>8 DEF Aligned

LEMMA ReadAligned ==
  ASSUME HandInv, quiet, NEW s \in Sessions, NEW d \in Daemons, NEW n \in 1..MaxChunk,
         Read(d, s, n), Aligned
  PROVE  Aligned' /\ \A t \in Sessions : StreamGoesOn(t)
<1> DEFINE got == [i \in 1..n |-> emitted[s] + i - 1]
<1>1. /\ UNCHANGED <<quiet, old, new, snap, ring, registered, conn, pipe, shown, cursor, told>>
      /\ ~HandingOver /\ ~HandingOver' /\ s \in registered[d] /\ hand[d][s] = <<>>
      /\ d = "old" => old # "exited"
      /\ emitted' = [emitted EXCEPT ![s] = emitted[s] + n]
      /\ hand' = [hand EXCEPT ![d][s] = got]
  BY DEF Read, Up, upgradeVars, terminalVars, HandingOver
<1>2. /\ emitted[s] \in Nat /\ n \in Nat \ {0} /\ emitted'[s] = emitted[s] + n
      /\ \A t \in Sessions \ {s} : emitted'[t] = emitted[t]
      /\ hand'[d][s] = got
      /\ \A e \in Daemons, t \in Sessions : e # d \/ t # s => hand'[e][t] = hand[e][t]
  BY <1>1, HandoffAssumption DEF HandInv, HandoffTypeOK
<1>3. Len(got) = n /\ Consecutive(got, emitted[s]) /\ Len(<<>>) = 0
  <2>1. got \in Seq(Int) /\ Len(got) = n /\ \A i \in 1..n : got[i] = emitted[s] + i - 1
    <3>1. \A i \in 1..n : emitted[s] + i - 1 \in Int
      BY <1>2
    <3>2. QED
      BY <1>2, <3>1
  <2> HIDE DEF got
  <2>2. QED
    BY <2>1, EmptySeq DEF Consecutive
<1> HIDE DEF got
<1>4. ReadersAt(s) /\ TerminalAt(s) /\ ring[d][s].seq \in Nat
  BY HandTypes DEF Aligned, HandInv, Rings
<1>5. /\ emitted[s] = ring[d][s].seq
      /\ \A e \in Daemons \ {d} : e = "old" => old = "exited"
      /\ d = "old" => s \notin registered["new"]
  <2>1. emitted[s] = ring[d][s].seq + Len(hand[d][s])
    BY <1>1, <1>4 DEF ReadersAt, Daemons
  <2>2. QED
    BY <1>1, <1>3, <1>4, <2>1, OneReads DEF Daemons
<1>6. ReadersAt(s)'
  <2>1. \A e \in Daemons : RingIsTail(ring'[e][s]) /\ Consecutive(hand'[e][s], ring'[e][s].seq)
    BY <1>1, <1>2, <1>3, <1>4, <1>5 DEF ReadersAt
  <2>2. old # "exited" => emitted'[s] = ring["old"][s].seq + Len(hand'["old"][s])
    BY <1>1, <1>2, <1>3, <1>4, <1>5 DEF ReadersAt, Daemons
  <2>3. s \in registered["new"] => emitted'[s] = ring["new"][s].seq + Len(hand'["new"][s])
    BY <1>1, <1>2, <1>3, <1>4, <1>5 DEF ReadersAt, Daemons
  <2>4. s \notin registered["new"] => hand'["new"][s] = <<>>
    BY <1>1, <1>2, <1>4 DEF ReadersAt, Daemons
  <2>5. QED
    BY <1>1, <2>1, <2>2, <2>3, <2>4 DEF ReadersAt
<1>7. TerminalAt(s)'
  <2>1. End(s)' = End(s) /\ End(s) \in Nat
    BY <1>1, HandTypes, LenProperties DEF End, HandInv
  <2>2. End(s) <= emitted'[s]
    BY <1>2, <1>4, <2>1 DEF TerminalAt
  <2> HIDE DEF End
  <2>3. QED
    BY <1>1, <1>4, <2>1, <2>2 DEF TerminalAt
<1>8. ASSUME NEW t \in Sessions \ {s} PROVE ReadersAt(t)' /\ TerminalAt(t)' /\ StreamGoesOn(t)
  <2>1. ReadersAt(t)' /\ TerminalAt(t)'
    BY <1>1, <1>2 DEF Aligned, ReadersAt, TerminalAt, End
  <2>2. QED
    BY <1>1, <1>2, <2>1, StreamStays
<1>9. StreamGoesOn(s)
  BY <1>1, <1>2 DEF StreamGoesOn, Stream!Next, Stream!Emit
<1>10. QED
  BY <1>6, <1>7, <1>8, <1>9 DEF Aligned

LEMMA PushAligned ==
  ASSUME HandInv, NEW s \in Sessions, NEW d \in Daemons, PushOut(d, s), Aligned
  PROVE  Aligned' /\ \A t \in Sessions : StreamGoesOn(t)
<1> DEFINE out == hand[d][s]
<1>1. /\ UNCHANGED <<quiet, old, new, snap, emitted, registered, conn, shown, cursor, told>>
      /\ HandingOver' = HandingOver /\ out # <<>> /\ (d = "old" => old # "exited")
      /\ ring'[d][s] = Push(ring[d][s], out) /\ hand'[d][s] = <<>>
      /\ pipe'[s] = IF conn[s] = d THEN pipe[s] \o out ELSE pipe[s]
      /\ \A t \in Sessions \ {s} : pipe'[t] = pipe[t]
      /\ \A e \in Daemons, t \in Sessions :
           e # d \/ t # s => ring'[e][t] = ring[e][t] /\ hand'[e][t] = hand[e][t]
  BY DEF PushOut, Up, upgradeVars, HandingOver, HandInv, HandoffTypeOK
<1>2. /\ ReadersAt(s) /\ TerminalAt(s) /\ Len(<<>>) = 0 /\ Consecutive(<<>>, ring[d][s].seq + Len(out))
      /\ emitted[s] \in Nat /\ shown[s] \in Nat /\ pipe[s] \in Seq(Nat) /\ Len(pipe[s]) \in Nat
      /\ out \in Seq(Nat) /\ Len(out) \in Nat
      /\ \A e \in Daemons : ring[e][s] \in Rings(Nat) /\ ring[e][s].seq \in Nat
  BY HandTypes, LenProperties, EmptySeq DEF Aligned, HandInv, Rings, Consecutive
<1>3. /\ d = "new" => s \in registered["new"] /\ old = "exited"
      /\ d = "old" => s \notin registered["new"]
  <2>1. ~HandingOver
    BY <1>1, <1>2 DEF ReadersAt
  <2>2. QED
    BY <1>1, <1>2, <2>1, OneReads DEF ReadersAt
<1>4. RingIsTail(ring'[d][s]) /\ ring'[d][s].seq = ring[d][s].seq + Len(out)
  <2>1. RingIsTail(ring[d][s]) /\ Consecutive(out, ring[d][s].seq)
    BY <1>2 DEF ReadersAt
  <2>2. QED
    BY <1>1, <1>2, <2>1, PushKeepsTail
<1>5. emitted[s] = ring[d][s].seq + Len(out)
  BY <1>1, <1>2, <1>3 DEF ReadersAt, Daemons
<1> HIDE DEF out
<1>6. ReadersAt(s)'
  <2>1. \A e \in Daemons : RingIsTail(ring'[e][s]) /\ Consecutive(hand'[e][s], ring'[e][s].seq)
    <3>1. ASSUME NEW e \in Daemons, e # d
          PROVE  RingIsTail(ring'[e][s]) /\ Consecutive(hand'[e][s], ring'[e][s].seq)
      BY <1>1, <1>2, <3>1 DEF ReadersAt
    <3>2. Consecutive(hand'[d][s], ring'[d][s].seq)
      BY <1>1, <1>2, <1>4
    <3>3. QED
      BY <1>4, <3>1, <3>2
  <2>2. /\ old # "exited" => emitted[s] = ring'["old"][s].seq + Len(hand'["old"][s])
        /\ s \in registered["new"] => emitted[s] = ring'["new"][s].seq + Len(hand'["new"][s])
    <3>1. emitted[s] = ring'[d][s].seq + Len(hand'[d][s])
      BY <1>1, <1>2, <1>4, <1>5
    <3>2. CASE d = "old"
      BY <1>3, <3>1, <3>2
    <3>3. CASE d = "new"
      BY <1>3, <3>1, <3>3
    <3>4. QED
      BY <3>2, <3>3 DEF Daemons
  <2>3. s \notin registered["new"] => hand'["new"][s] = <<>>
    BY <1>1, <1>2, <1>3 DEF ReadersAt, Daemons
  <2>4. ~HandingOver
    BY <1>1, <1>2 DEF ReadersAt, out
  <2>5. QED
    BY <1>1, <2>1, <2>2, <2>3, <2>4 DEF ReadersAt
<1>7. TerminalAt(s)'
  <2>1. CASE conn[s] = d
    <3>1. ring[d][s].seq = End(s) /\ Consecutive(pipe[s], shown[s]) /\ Consecutive(out, shown[s] + Len(pipe[s]))
      BY <1>2, <2>1 DEF TerminalAt, ReadersAt, End, out
    <3>2. Consecutive(pipe'[s], shown[s]) /\ Len(pipe'[s]) = Len(pipe[s]) + Len(out)
      <4>1. pipe'[s] = pipe[s] \o out /\ shown[s] \in Int
        BY <1>1, <1>2, <2>1 DEF out
      <4>2. QED
        BY <1>2, <3>1, <4>1, ConsecutiveConcat
    <3>3. End(s)' = ring'[d][s].seq /\ End(s)' = emitted[s]
      BY <1>1, <1>2, <1>4, <1>5, <3>1, <3>2 DEF End
    <3>4. Consecutive(pipe[s], shown[s])'
      BY <1>1, <3>2 DEF Consecutive
    <3> HIDE DEF End, Consecutive
    <3>5. /\ End(s)' <= ring'[d][s].seq /\ End(s)' <= emitted'[s]
      BY <1>1, <1>2, <1>4, <3>3
    <3>6. /\ old # "exited" => End(s)' <= ring'["old"][s].seq
          /\ s \in registered["new"] => End(s)' <= ring'["new"][s].seq
      BY <1>3, <3>5 DEF Daemons
    <3>7. conn'[s] \in Daemons /\ ring'[conn'[s]][s].seq = End(s)'
      BY <1>1, <2>1, <3>3
    <3>8. QED
      BY <1>1, <1>2, <3>4, <3>5, <3>6, <3>7 DEF TerminalAt
  <2>2. CASE conn[s] # d
    <3>0. pipe'[s] = pipe[s] /\ shown'[s] = shown[s]
      BY <1>1, <2>2
    <3>1. pipe'[s] = pipe[s] /\ End(s)' = End(s) /\ End(s) \in Nat
          /\ Consecutive(pipe[s], shown[s])' = Consecutive(pipe[s], shown[s])
      BY <1>2, <3>0 DEF End, Consecutive
    <3> HIDE DEF End, Consecutive
    <3>2. conn[s] \in Daemons => ring'[conn[s]][s] = ring[conn[s]][s]
      BY <1>1, <2>2
    <3>3. /\ old # "exited" => End(s) <= ring'["old"][s].seq
          /\ s \in registered["new"] => End(s) <= ring'["new"][s].seq
      <4>1. /\ old # "exited" => End(s) <= ring["old"][s].seq
            /\ s \in registered["new"] => End(s) <= ring["new"][s].seq
        BY <1>2 DEF TerminalAt
      <4>2. CASE d = "old"
        BY <1>2, <1>3, <1>4, <3>1, <4>1, <4>2 DEF Daemons
      <4>3. CASE d = "new"
        BY <1>2, <1>3, <1>4, <3>1, <4>1, <4>3 DEF Daemons
      <4>4. QED
        BY <4>2, <4>3 DEF Daemons
    <3>4. QED
      BY <1>1, <1>2, <3>1, <3>2, <3>3 DEF TerminalAt
  <2>3. QED
    BY <2>1, <2>2
<1>8. ASSUME NEW t \in Sessions \ {s} PROVE ReadersAt(t)' /\ TerminalAt(t)'
  <2>1. ReadersAt(t) /\ TerminalAt(t)
    BY DEF Aligned
  <2>2. \A e \in Daemons : ring'[e][t] = ring[e][t] /\ hand'[e][t] = hand[e][t]
    BY <1>1
  <2>3. conn[t] = "new" => new' \in {"serving", "aside"}
    BY <1>1, <2>1 DEF TerminalAt
  <2>4. QED
    BY <1>1, <2>1, <2>2, <2>3, Undisturbed
<1>9. QED
  BY <1>1, <1>6, <1>7, <1>8, StreamStays DEF Aligned

\* A step that touches neither daemon nor the other terminals.
LEMMA OneTerminal ==
  ASSUME HandInv, Aligned, UNCHANGED <<upgradeVars, ptyVars>>, NEW s \in Sessions,
         \A t \in Sessions \ {s} : /\ conn'[t] = conn[t] /\ pipe'[t] = pipe[t] /\ shown'[t] = shown[t]
                                  /\ cursor'[t] = cursor[t] /\ told'[t] = told[t],
         TerminalAt(s)', StreamGoesOn(s)
  PROVE  Aligned' /\ \A t \in Sessions : StreamGoesOn(t)
<1>1. /\ UNCHANGED <<quiet, old, new, snap, emitted, ring, hand, registered>>
      /\ HandingOver' = HandingOver
  BY DEF upgradeVars, ptyVars, HandingOver
<1>2. \A t \in Sessions : ReadersAt(t)'
  BY <1>1 DEF Aligned, ReadersAt
<1>3. \A t \in Sessions \ {s} : TerminalAt(t)' /\ StreamGoesOn(t)
  <2>1. ASSUME NEW t \in Sessions \ {s} PROVE TerminalAt(t)'
    BY <1>1 DEF Aligned, TerminalAt, End
  <2>2. ASSUME NEW t \in Sessions \ {s} PROVE StreamGoesOn(t)
    BY <1>1, StreamStays
  <2>3. QED
    BY <2>1, <2>2
<1>4. QED
  BY <1>2, <1>3 DEF Aligned

LEMMA ShowAligned ==
  ASSUME HandInv, NEW s \in Sessions, Show(s), Aligned
  PROVE  Aligned' /\ \A t \in Sessions : StreamGoesOn(t)
<1>1. /\ UNCHANGED <<upgradeVars, ptyVars>> /\ pipe[s] # <<>>
      /\ shown'[s] = Head(pipe[s]) + 1 /\ cursor'[s] = cursor[s] + 1 /\ pipe'[s] = Tail(pipe[s])
      /\ conn' = conn /\ told' = told
      /\ \A t \in Sessions \ {s} : /\ conn'[t] = conn[t] /\ pipe'[t] = pipe[t] /\ shown'[t] = shown[t]
                                   /\ cursor'[t] = cursor[t] /\ told'[t] = told[t]
  BY DEF Show, HandInv, HandoffTypeOK
<1>2. /\ pipe[s] \in Seq(Nat) /\ shown[s] \in Nat /\ cursor[s] \in Nat /\ emitted[s] \in Nat
      /\ TerminalAt(s) /\ Len(pipe[s]) \in Nat \ {0} /\ conn[s] \in Daemons
  BY <1>1, HandTypes, LenProperties, EmptySeq DEF HandInv, Aligned, TerminalAt
<1>3. /\ Head(pipe[s]) = shown[s] /\ Len(Tail(pipe[s])) = Len(pipe[s]) - 1
      /\ Consecutive(Tail(pipe[s]), shown[s] + 1)
  <2>1. \A i \in 1..Len(pipe[s]) : pipe[s][i] = shown[s] + i - 1
    BY <1>2 DEF TerminalAt, Consecutive
  <2>2. /\ Head(pipe[s]) = pipe[s][1] /\ Len(Tail(pipe[s])) = Len(pipe[s]) - 1
        /\ \A i \in 1 .. Len(Tail(pipe[s])) : Tail(pipe[s])[i] = pipe[s][i + 1]
    BY <1>1, <1>2, HeadTailProperties
  <2>3. Head(pipe[s]) = shown[s]
    BY <1>2, <2>1, <2>2
  <2>4. ASSUME NEW i \in 1 .. Len(Tail(pipe[s])) PROVE Tail(pipe[s])[i] = shown[s] + 1 + i - 1
    <3>1. i \in Int /\ i + 1 \in 1 .. Len(pipe[s])
      BY <1>2, <2>2
    <3>2. pipe[s][i + 1] = shown[s] + (i + 1) - 1
      BY <2>1, <3>1
    <3>3. Tail(pipe[s])[i] = pipe[s][i + 1]
      BY <2>2
    <3>4. QED
      BY <1>2, <3>1, <3>2, <3>3
  <2>5. QED
    BY <2>2, <2>3, <2>4 DEF Consecutive
<1>4. shown'[s] = shown[s] + 1 /\ End(s)' = End(s) /\ End(s) \in Nat /\ shown[s] < End(s)
  <2>1. shown'[s] = shown[s] + 1 /\ Len(pipe'[s]) = Len(pipe[s]) - 1
    BY <1>1, <1>3
  <2>2. End(s)' = shown'[s] + Len(pipe'[s]) /\ End(s) = shown[s] + Len(pipe[s])
    BY DEF End
  <2>3. Len(pipe[s]) - 1 \in Nat /\ (shown[s] + 1) + (Len(pipe[s]) - 1) = shown[s] + Len(pipe[s])
    BY <1>2
  <2> HIDE DEF End
  <2>4. QED
    BY <1>2, <2>1, <2>2, <2>3
<1>5. Consecutive(pipe[s], shown[s])'
  BY <1>1, <1>3, <1>4 DEF Consecutive
<1>6. UNCHANGED <<quiet, old, new, snap, emitted, ring, hand, registered>>
  BY <1>1 DEF upgradeVars, ptyVars
<1>7. TerminalAt(s)'
  <2> HIDE DEF End, Consecutive
  <2>1. QED
    BY <1>1, <1>2, <1>4, <1>5, <1>6 DEF TerminalAt
<1>8. StreamGoesOn(s)
  <2>1. End(s) <= emitted[s] /\ conn[s] # "none"
    BY <1>2 DEF TerminalAt, Daemons
  <2>2. shown[s] < emitted[s]
    BY <1>2, <1>4, <2>1
  <2>3. QED
    BY <1>1, <1>4, <1>6, <2>1, <2>2 DEF StreamGoesOn, Stream!Next, Stream!Show
<1>9. QED
  BY <1>1, <1>7, <1>8, OneTerminal

LEMMA EndAligned ==
  ASSUME HandInv, NEW s \in Sessions, StreamCloses(s) \/ Gone(s) \/ GiveUp(s), Aligned
  PROVE  Aligned' /\ \A t \in Sessions : StreamGoesOn(t)
<1>1. /\ UNCHANGED <<upgradeVars, ptyVars>> /\ UNCHANGED <<pipe, shown, cursor, told>>
      /\ conn[s] # "none"
      /\ \A t \in Sessions \ {s} : /\ conn'[t] = conn[t] /\ pipe'[t] = pipe[t] /\ shown'[t] = shown[t]
                                   /\ cursor'[t] = cursor[t] /\ told'[t] = told[t]
      /\ \/ conn[s] = "asking" /\ conn'[s] \in {"gone", "gaveup"}
         \/ /\ conn[s] \in Daemons /\ conn'[s] = "asking" /\ pipe[s] = <<>>
            /\ ~Up(conn[s]) \/ s \notin registered[conn[s]]
  BY DEF StreamCloses, Gone, GiveUp, HandInv, HandoffTypeOK, Daemons
<1>2. UNCHANGED <<quiet, old, new, snap, emitted, ring, hand, registered>>
  BY <1>1 DEF upgradeVars, ptyVars
<1>3. TerminalAt(s)
  BY DEF Aligned
<1>4. /\ conn[s] = "old" => old = "exited" \/ s \notin registered["old"]
      /\ conn[s] = "new" => old = "exited" /\ (conn'[s] = "asking" => s \notin registered["new"])
  BY <1>1, <1>3 DEF TerminalAt, Up, Daemons, HandInv, HandoffTypeOK, Roles
<1>5. TerminalAt(s)'
  <2>1. End(s)' = End(s) /\ Consecutive(pipe[s], shown[s])' = Consecutive(pipe[s], shown[s])
    BY <1>1 DEF End, Consecutive
  <2> HIDE DEF End, Consecutive
  <2>2. conn'[s] \in {"asking", "gone", "gaveup"} /\ pipe[s] = <<>>
    BY <1>1, <1>3 DEF TerminalAt, Daemons
  <2>3. conn'[s] = "asking" => old = "exited" \/ s \notin registered["old"]
    BY <1>1, <1>4 DEF Daemons
  <2>4. \/ old = "exited" /\ s \notin registered["new"]
        \/ cursor[s] = shown[s]
    BY <1>1, <1>3, <1>4 DEF TerminalAt, Daemons
  <2>5. QED
    BY <1>1, <1>2, <1>3, <2>1, <2>2, <2>3, <2>4 DEF TerminalAt, Daemons
<1>6. StreamGoesOn(s)
  BY <1>1, <1>2, StreamStays
<1>7. QED
  BY <1>1, <1>5, <1>6, OneTerminal

\* A terminal is reattached to the new daemon only, from where it stands.
LEMMA ReattachAligned ==
  ASSUME HandInv, NEW s \in Sessions, Reattach(s), Aligned
  PROVE  Aligned' /\ \A t \in Sessions : StreamGoesOn(t)
<1> DEFINE r == ring["new"][s]
           lost == Lost(r, cursor[s])
<1>1. TerminalAt(s) /\ ReadersAt(s) /\ conn[s] = "asking" /\ pipe[s] = <<>>
  BY DEF Aligned, TerminalAt, Reattach, Daemons
<1>2. PICK d \in Serving : /\ s \in registered[d]
                          /\ pipe' = [pipe EXCEPT ![s] = SinceTail(ring[d][s], cursor[s])]
                          /\ shown' = [shown EXCEPT ![s] = @ + Lost(ring[d][s], cursor[s])]
                          /\ told' = [told EXCEPT ![s] = @ + Lost(ring[d][s], cursor[s])]
                          /\ cursor' = [cursor EXCEPT ![s] = ring[d][s].seq]
                          /\ conn' = [conn EXCEPT ![s] = d]
  BY DEF Reattach
<1>3. d = "new" /\ new = "serving" /\ old = "exited"
  BY <1>1, <1>2 DEF Serving, Up, TerminalAt, HandInv, HandoffTypeOK, Roles, Daemons
<1>4. /\ UNCHANGED <<upgradeVars, ptyVars>>
      /\ pipe'[s] = SinceTail(r, cursor[s]) /\ shown'[s] = shown[s] + lost /\ told'[s] = told[s] + lost
      /\ cursor'[s] = r.seq /\ conn'[s] = "new" /\ s \in registered["new"]
      /\ \A t \in Sessions \ {s} : /\ conn'[t] = conn[t] /\ pipe'[t] = pipe[t] /\ shown'[t] = shown[t]
                                   /\ cursor'[t] = cursor[t] /\ told'[t] = told[t]
  BY <1>2, <1>3 DEF Reattach, HandInv, HandoffTypeOK
<1>5. UNCHANGED <<quiet, old, new, snap, emitted, ring, hand, registered>>
  BY <1>4 DEF upgradeVars, ptyVars
<1>6. /\ r \in Rings(Nat) /\ r.seq \in Nat /\ RingIsTail(r) /\ emitted[s] \in Nat
      /\ shown[s] \in Nat /\ told[s] \in Nat /\ lost \in Nat
      /\ Len(hand["new"][s]) \in Nat /\ emitted[s] = r.seq + Len(hand["new"][s])
  BY <1>1, <1>4, HandTypes, RingTypes, LenProperties DEF HandInv, ReadersAt, Rings, Daemons
<1>7. cursor[s] = shown[s] /\ shown[s] <= r.seq /\ cursor[s] \in 0 .. r.seq
  <2>1. cursor[s] = shown[s]
    BY <1>1, <1>4 DEF TerminalAt
  <2>2. End(s) = shown[s] /\ End(s) <= r.seq
    BY <1>1, <1>4, <1>6, EmptySeq DEF TerminalAt, End
  <2>3. QED
    BY <1>6, <2>1, <2>2
<1> HIDE DEF r
<1>8. /\ Consecutive(SinceTail(r, cursor[s]), ReplayStart(r, cursor[s]))
      /\ ReplayStart(r, cursor[s]) + Len(SinceTail(r, cursor[s])) = r.seq
      /\ ReplayStart(r, cursor[s]) \in Nat /\ Len(SinceTail(r, cursor[s])) \in Nat
  BY <1>6, <1>7, SinceIsExact, LenProperties
<1>9. ReplayStart(r, cursor[s]) = shown[s] + lost
  <2>1. CASE SinceGap(r, cursor[s]) = NoGap
    BY <1>6, <1>7, <2>1 DEF ReplayStart, Lost
  <2>2. CASE SinceGap(r, cursor[s]) # NoGap
    <3>1. SinceGap(r, cursor[s]) = <<cursor[s], StartSeq(r)>> /\ StartSeq(r) \in Int
      BY <1>6, <2>2, LenProperties DEF SinceGap, StartSeq, Rings
    <3>2. ReplayStart(r, cursor[s]) = StartSeq(r) /\ lost = StartSeq(r) - cursor[s]
      BY <2>2, <3>1 DEF ReplayStart, Lost
    <3>3. QED
      BY <1>6, <1>7, <3>1, <3>2
  <2>3. QED
    BY <2>1, <2>2
<1> HIDE DEF lost
<1>10. End(s)' = r.seq /\ Consecutive(pipe[s], shown[s])'
  BY <1>4, <1>8, <1>9 DEF End, Consecutive
<1>11. TerminalAt(s)'
  <2>1. r.seq <= emitted[s]
    BY <1>6
  <2>2. r.seq <= r.seq /\ ring["new"][s].seq = r.seq
    BY <1>6 DEF r
  <2> HIDE DEF End, Consecutive
  <2>3. QED
    BY <1>3, <1>4, <1>5, <1>10, <2>1, <2>2 DEF TerminalAt, Daemons
<1>12. StreamGoesOn(s)
  <2>1. CASE lost = 0
    BY <1>1, <1>4, <1>5, <1>6, <2>1, StreamStays
  <2>2. CASE lost # 0
    <3>1. lost \in 1 .. (emitted[s] - shown[s])
      <4>1. shown[s] + lost <= r.seq /\ r.seq <= emitted[s]
        BY <1>6, <1>8, <1>9
      <4>2. QED
        BY <1>6, <2>2, <4>1
    <3>2. conn[s] # "none" /\ conn'[s] # "none"
      BY <1>1, <1>4
    <3>3. QED
      BY <1>4, <1>5, <3>1, <3>2 DEF StreamGoesOn, Stream!Next, Stream!Notice
  <2>3. QED
    BY <2>1, <2>2
<1>13. QED
  BY <1>4, <1>11, <1>12, OneTerminal

LEMMA StreamsGoOn ==
  ASSUME HandInv, quiet, Aligned, [HandoffNext]_handoffVars
  PROVE  Aligned' /\ \A s \in Sessions : StreamGoesOn(s)
<1>1. CASE UNCHANGED handoffVars
  <2>1. /\ UNCHANGED <<quiet, old, new, snap, emitted, ring, hand, registered, conn, pipe, shown, cursor, told>>
        /\ HandingOver' = HandingOver
    BY <1>1 DEF handoffVars, upgradeVars, ptyVars, terminalVars, HandingOver
  <2>2. \A s \in Sessions : ReadersAt(s)' /\ TerminalAt(s)'
    BY <2>1 DEF Aligned, ReadersAt, TerminalAt, End
  <2>3. QED
    BY <2>1, <2>2, StreamStays DEF Aligned
<1>2. ASSUME NEW s \in Sessions,
             \/ CreateSession(s) \/ AttachLive(s) \/ ShellExits(s) \/ Adopt(s)
             \/ Show(s) \/ StreamCloses(s) \/ Gone(s) \/ GiveUp(s) \/ Reattach(s)
      PROVE  Aligned' /\ \A t \in Sessions : StreamGoesOn(t)
  BY <1>2, Registering, AttachAligned, AdoptAligned, ShowAligned, EndAligned, ReattachAligned
<1>3. ASSUME NEW s \in Sessions, NEW d \in Daemons,
             \/ \E n \in 1..MaxChunk : Read(d, s, n)
             \/ PushOut(d, s) \/ EndSession(d, s)
      PROVE  Aligned' /\ \A t \in Sessions : StreamGoesOn(t)
  BY <1>3, ReadAligned, PushAligned, Registering, EndsOnNew DEF Daemons
<1>4. CASE \/ Snapshot \/ SpawnNew \/ Ack \/ CommitHandoff \/ PathStep
            \/ RollbackHandoff \/ NewDies \/ NewFailsToBind
  BY <1>4, SnapshotAligned, UpgradeSteps, EndOfNewAligned
<1>5. QED
  BY <1>1, <1>2, <1>3, <1>4 DEF HandoffNext, PathStep

(* While a shell writes nothing during the handover, its terminal sees one uninterrupted *)
(* stream, whatever daemon serves it: every step of the upgrade, of both readers and of   *)
(* the reattachment is a step of TerminalStream or changes none of it.                     *)
THEOREM TheHandoverIsInvisible == HandoffSpec => HandoffIsInvisible
<1>1. HandoffInit => \A s \in Sessions : Stream(s)!Init
  BY DEF HandoffInit, Stream!Init
<1>2. HandoffInit => (quiet => Aligned)
  BY AlignedStarts
<1>3. HandInv /\ (quiet => Aligned) /\ [HandoffNext]_handoffVars
      => (quiet => Aligned)' /\ [quiet => \A s \in Sessions : Stream(s)!Next \/ UNCHANGED Stream(s)!vars]_handoffVars
  <2> SUFFICES ASSUME HandInv, quiet => Aligned, [HandoffNext]_handoffVars
               PROVE  /\ quiet' => Aligned'
                      /\ quiet => \A s \in Sessions : Stream(s)!Next \/ UNCHANGED Stream(s)!vars
    OBVIOUS
  <2>1. quiet' = quiet
    <3>1. ASSUME NEW s \in Sessions,
                 \/ CreateSession(s) \/ AttachLive(s) \/ ShellExits(s) \/ Adopt(s)
                 \/ Show(s) \/ StreamCloses(s) \/ Gone(s) \/ GiveUp(s) \/ Reattach(s)
          PROVE  quiet' = quiet
      BY <3>1 DEF CreateSession, AttachLive, ShellExits, Adopt, Show, StreamCloses, Gone, GiveUp,
                  Reattach, upgradeVars
    <3>2. ASSUME NEW s \in Sessions, NEW d \in Daemons,
                 \/ \E n \in 1..MaxChunk : Read(d, s, n)
                 \/ PushOut(d, s) \/ EndSession(d, s)
          PROVE  quiet' = quiet
      BY <3>2 DEF Read, PushOut, EndSession, upgradeVars
    <3>3. CASE \/ Snapshot \/ SpawnNew \/ Ack \/ CommitHandoff \/ PathStep
              \/ RollbackHandoff \/ NewDies \/ NewFailsToBind
      BY <3>3 DEF Snapshot, SpawnNew, Ack, CommitHandoff, RollbackHandoff, NewDies, NewFailsToBind,
                  PathStep, NewUnlinks, NewServes, StartThird, ThirdBinds, ThirdStepsBack
    <3>4. CASE UNCHANGED handoffVars
      BY <3>4 DEF handoffVars, upgradeVars
    <3>5. QED
      BY <3>1, <3>2, <3>3, <3>4 DEF HandoffNext, PathStep
  <2>2. QED
    BY <2>1, StreamsGoOn DEF StreamGoesOn
<1>4. HandoffSpec => []HandInv
  BY HandStarts, HandSteps, PTL DEF HandoffSpec
<1>5. QED
  BY <1>1, <1>2, <1>3, <1>4, PTL DEF HandoffSpec, HandoffIsInvisible

------------------------------------------------------------------------------
(* The two sockets, whoever starts, dies, hands over or is waited for.            *)

Stages == {"off", "probe", "unlinkControl", "unlinkStream", "bindControl", "bindStream",
           "serving", "handing", "adopt", "await", "exited"}
Serves(p) == stage[p] \in {"serving", "handing"}
Adopts(p) == stage[p] \in {"adopt", "await"}
Takes(p)  == stage[p] \in {"unlinkControl", "unlinkStream", "bindControl", "bindStream"}

\* Who takes the paths finds them as it left them.
PathsOf(p) ==
  /\ stage[p] \in {"unlinkStream", "bindControl"} => control = NoOne
  /\ stage[p] \in {"bindControl", "bindStream"} => stream = NoOne
  /\ stage[p] = "bindStream" => control = p
  /\ Serves(p) => control = p /\ stream = p

\* A successor has the masters its predecessor has; only a kill takes it away.
HeirOf(p) ==
  stage[p] = "handing" =>
    /\ heir[p] \in Procs \ {p}
    /\ Adopts(heir[p]) \/ (stage[heir[p]] = "exited" /\ crashed)
    /\ ~crashed => (p \in holders <=> heir[p] \in holders)

\* As long as no two daemons are on their way to the sockets at once.
InTurn ==
  /\ \A p, q \in Coming : p = q
  /\ \A p \in Procs : PathsOf(p) /\ HeirOf(p)
  /\ \A p, q \in Procs : Takes(p) => ~Serves(q)
  /\ \A p, q \in Procs : Adopts(q) /\ Serves(p) => stage[p] = "handing" /\ heir[p] = q
  /\ opened /\ ~crashed => holders # {}

BootInv ==
  /\ BootTypeOK
  /\ \A p \in Procs : stage[p] = "probe" => p \notin holders
  /\ ~raced => InTurn

LEMMA BootStarts == BootInit => BootInv
<1> SUFFICES ASSUME BootInit PROVE BootInv
  OBVIOUS
<1>1. \A p \in Procs : stage[p] = "off"
  BY DEF BootInit
<1>2. BootTypeOK
  BY DEF BootInit, BootTypeOK
<1>3. InTurn
  BY <1>1 DEF BootInit, InTurn, Coming, PathsOf, HeirOf, Serves, Takes, Adopts
<1>4. QED
  BY <1>1, <1>2, <1>3 DEF BootInv

LEMMA BootInvImplies == BootInv => BootTypeOK /\ SocketsAreOwned
BY DEF BootInv, InTurn, PathsOf, Serves, SocketsAreOwned, NoOrphan, SocketsCostNoShell, BootTypeOK

LEMMA ServerAnswers ==
  ASSUME BootInv, ~raced, NEW p \in Procs, Serves(p) PROVE Answers
BY BootAssumption DEF BootInv, InTurn, PathsOf, Serves, Answers, Alive

\* One daemon goes a step further.
LEMMA Moved ==
  ASSUME BootTypeOK, NEW p \in Procs, NEW b \in Stages, stage' = [stage EXCEPT ![p] = b]
  PROVE  /\ stage' \in [Procs -> Stages]
         /\ stage'[p] = b /\ \A q \in Procs \ {p} : stage'[q] = stage[q]
BY DEF BootTypeOK, Stages

LEMMA ProbeKeeps == ASSUME BootInv, NEW p \in Procs, Probe(p) PROVE BootInv'
<1> DEFINE b == IF Answers THEN "exited" ELSE "unlinkControl"
<1>1. /\ stage[p] = "probe" /\ stage' = [stage EXCEPT ![p] = b] /\ b \in Stages
      /\ raced' = (raced \/ (~Answers /\ Coming # {}))
      /\ UNCHANGED <<heir, control, stream, holders, crashed, spent, opened, link, awaits>>
  BY DEF Probe, Step, Stages, linkVars
<1>2. /\ stage' \in [Procs -> Stages]
      /\ stage'[p] = b /\ \A q \in Procs \ {p} : stage'[q] = stage[q]
  BY <1>1, Moved DEF BootInv
<1>3. p \notin holders
  BY <1>1 DEF BootInv
<1>4. BootTypeOK' /\ \A q \in Procs : stage'[q] = "probe" => q \notin holders'
  BY <1>1, <1>2, <1>3 DEF BootInv, BootTypeOK, Alive, Stages
<1>5. ASSUME ~raced' PROVE InTurn'
  <2>1. ~raced /\ InTurn /\ (~Answers => Coming = {})
    BY <1>1, <1>5 DEF BootInv, BootTypeOK
  <2>2. CASE Answers
    BY <1>1, <1>2, <2>1, <2>2 DEF InTurn, Coming, PathsOf, HeirOf, Serves, Takes, Adopts
  <2>3. CASE ~Answers
    <3>1. \A q \in Procs : ~Serves(q) /\ ~Takes(q) /\ ~Adopts(q)
      BY <2>1, <2>3, ServerAnswers DEF Coming, Takes, Adopts
    <3>2. \A q \in Procs : ~Serves(q)' /\ ~Adopts(q)' /\ (Takes(q)' <=> q = p)
      BY <1>1, <1>2, <2>3, <3>1 DEF Serves, Takes, Adopts
    <3>3. QED
      BY <1>1, <1>2, <2>1, <2>3, <3>1, <3>2
         DEF InTurn, Coming, PathsOf, HeirOf, Serves, Takes, Adopts
  <2>4. QED
    BY <2>2, <2>3
<1>6. QED
  BY <1>4, <1>5 DEF BootInv

\* A socket path loses its file.
LEMMA UnlinkKeeps ==
  ASSUME BootInv, NEW p \in Procs, UnlinkControl(p) \/ UnlinkStream(p) PROVE BootInv'
<1> DEFINE b == IF UnlinkControl(p) THEN "unlinkStream" ELSE "bindControl"
<1>1. /\ Takes(p) /\ stage' = [stage EXCEPT ![p] = b] /\ b \in Stages \ {"probe"}
      /\ UNCHANGED <<heir, holders, crashed, spent, raced, opened, link, awaits>>
      /\ \/ /\ stage[p] = "unlinkControl" /\ b = "unlinkStream"
            /\ control' = NoOne /\ stream' = stream
         \/ /\ stage[p] = "unlinkStream" /\ b = "bindControl"
            /\ stream' = NoOne /\ control' = control
  BY DEF UnlinkControl, UnlinkStream, Step, Stages, Takes, linkVars
<1> HIDE DEF b
<1>2. /\ stage' \in [Procs -> Stages]
      /\ stage'[p] = b /\ \A q \in Procs \ {p} : stage'[q] = stage[q]
  BY <1>1, Moved DEF BootInv
<1>3. BootTypeOK' /\ \A q \in Procs : stage'[q] = "probe" => q \notin holders'
  BY <1>1, <1>2 DEF BootInv, BootTypeOK, Alive, Stages
<1>4. ASSUME ~raced' PROVE InTurn'
  <2>1. InTurn /\ p \in Coming
    BY <1>1, <1>4 DEF BootInv, Coming, Takes
  <2>2. \A q \in Procs : ~Serves(q) /\ (q # p => ~Takes(q) /\ ~Adopts(q))
    BY <1>1, <2>1 DEF InTurn, Coming, Takes, Adopts
  <2>3. \A q \in Procs : ~Serves(q)' /\ ~Adopts(q)' /\ (Takes(q)' <=> q = p)
    BY <1>1, <1>2, <2>2 DEF Serves, Takes, Adopts
  <2>4. \A q \in Procs : PathsOf(q)' /\ HeirOf(q)'
    BY <1>1, <1>2, <2>1, <2>2, <2>3 DEF InTurn, PathsOf, HeirOf, Serves, Takes
  <2>5. Coming' = {p}
    BY <2>3 DEF Coming, Takes, Adopts
  <2>6. QED
    BY <1>1, <2>1, <2>3, <2>4, <2>5 DEF InTurn
<1>5. QED
  BY <1>3, <1>4 DEF BootInv

\* A socket path gets a file; a daemon that came alone never finds one.
LEMMA BindKeeps ==
  ASSUME BootInv, NEW p \in Procs, BindControl(p) \/ BindStream(p) PROVE BootInv'
<1>1. PICK b \in Stages \ {"off", "probe"} :
        /\ Takes(p) /\ stage' = [stage EXCEPT ![p] = b]
        /\ UNCHANGED <<heir, crashed, spent, raced, opened, link, awaits>>
        /\ control' \in {control, p} /\ stream' \in {stream, p}
        /\ \/ holders' = holders /\ b # "exited"
           \/ holders' = holders \ {p} /\ b = "exited"
        /\ \/ /\ stage[p] = "bindControl" /\ control = NoOne /\ b = "bindStream"
              /\ control' = p /\ stream' = stream /\ holders' = holders
           \/ /\ stage[p] = "bindStream" /\ stream = NoOne /\ b = "serving"
              /\ stream' = p /\ control' = control /\ holders' = holders
           \/ stage[p] = "bindControl" /\ control # NoOne
           \/ stage[p] = "bindStream" /\ stream # NoOne
  <2>1. CASE BindControl(p)
    <3>1. {"bindStream", "exited"} \subseteq Stages \ {"off", "probe"}
      BY DEF Stages
    <3>2. QED
      BY <2>1, <3>1 DEF BindControl, Step, Takes, linkVars
  <2>2. CASE BindStream(p)
    <3>1. {"serving", "exited"} \subseteq Stages \ {"off", "probe"}
      BY DEF Stages
    <3>2. QED
      BY <2>2, <3>1 DEF BindStream, Step, Takes, linkVars
  <2>3. QED
    BY <2>1, <2>2
<1>2. /\ stage' \in [Procs -> Stages]
      /\ stage'[p] = b /\ \A q \in Procs \ {p} : stage'[q] = stage[q]
  BY <1>1, Moved DEF BootInv
<1>3. BootTypeOK' /\ \A q \in Procs : stage'[q] = "probe" => q \notin holders'
  <2>1. /\ control' \in Procs \cup {NoOne} /\ stream' \in Procs \cup {NoOne}
        /\ holders \subseteq {q \in Procs : Alive(q)} /\ stage[p] \notin {"off", "exited"}
    BY <1>1 DEF BootInv, BootTypeOK, Takes
  <2>2. b # "off"
    BY <1>1
  <2>3. holders' \subseteq {q \in Procs : Alive(q)'}
    BY <1>1, <1>2, <2>1, <2>2 DEF Alive
  <2>4. QED
    BY <1>1, <1>2, <2>1, <2>3 DEF BootInv, BootTypeOK, Stages
<1>4. ASSUME ~raced' PROVE InTurn'
  <2>1. InTurn /\ p \in Coming
    BY <1>1, <1>4 DEF BootInv, Coming, Takes
  <2>2. \A q \in Procs : ~Serves(q) /\ (q # p => ~Takes(q) /\ ~Adopts(q))
    BY <1>1, <2>1 DEF InTurn, Coming, Takes, Adopts
  <2>3. /\ stage[p] = "bindControl" => control = NoOne /\ stream = NoOne
        /\ stage[p] = "bindStream" => control = p /\ stream = NoOne
    BY <2>1 DEF InTurn, PathsOf
  <2>4. /\ holders' = holders
        /\ \/ b = "bindStream" /\ control' = p /\ stream' = NoOne
           \/ b = "serving" /\ control' = p /\ stream' = p
    BY <1>1, <2>3
  <2>5. \A q \in Procs \ {p} : ~Serves(q)' /\ ~Takes(q)' /\ ~Adopts(q)'
    BY <1>2, <2>2 DEF Serves, Takes, Adopts
  <2>6. ~Adopts(p)' /\ (Takes(p)' => ~Serves(p)')
    BY <1>2, <2>4 DEF Serves, Takes, Adopts
  <2>7. \A q \in Procs : PathsOf(q)' /\ HeirOf(q)'
    <3>1. PathsOf(p)' /\ HeirOf(p)'
      BY <1>2, <2>4 DEF PathsOf, HeirOf, Serves
    <3>2. \A q \in Procs \ {p} : PathsOf(q)' /\ HeirOf(q)'
      BY <2>5 DEF PathsOf, HeirOf, Serves, Takes
    <3>3. QED
      BY <3>1, <3>2
  <2>8. Coming' \subseteq {p}
    BY <2>5 DEF Coming, Takes, Adopts
  <2>9. QED
    BY <1>1, <2>1, <2>4, <2>5, <2>6, <2>7, <2>8 DEF InTurn
<1>5. QED
  BY <1>3, <1>4 DEF BootInv

LEMMA CrashKeeps == ASSUME BootInv, NEW p \in Procs, Crash(p) PROVE BootInv'
<1>1. /\ stage' = [stage EXCEPT ![p] = "exited"] /\ "exited" \in Stages /\ Alive(p)
      /\ holders' = holders \ {p} /\ crashed' = TRUE /\ spent' \in BOOLEAN
      /\ UNCHANGED <<heir, control, stream, raced, opened, link, awaits>>
  BY DEF Crash, Stages, linkVars, BootInv, BootTypeOK
<1>2. /\ stage' \in [Procs -> Stages]
      /\ stage'[p] = "exited" /\ \A q \in Procs \ {p} : stage'[q] = stage[q]
  BY <1>1, Moved DEF BootInv
<1>3. BootTypeOK' /\ \A q \in Procs : stage'[q] = "probe" => q \notin holders'
  BY <1>1, <1>2 DEF BootInv, BootTypeOK, Alive, Stages
<1>4. ASSUME ~raced' PROVE InTurn'
  <2>1. InTurn
    BY <1>1, <1>4 DEF BootInv
  <2>2. \A q \in Procs : /\ Serves(q)' => Serves(q) /\ q # p
                         /\ Takes(q)' => Takes(q) /\ q # p
                         /\ Adopts(q)' => Adopts(q) /\ q # p
    BY <1>2 DEF Serves, Takes, Adopts
  <2>3. Coming' \subseteq Coming
    BY <2>2 DEF Coming, Takes, Adopts
  <2>4. \A q \in Procs : PathsOf(q)'
    BY <1>1, <1>2, <2>1, <2>2 DEF InTurn, PathsOf, Serves
  <2>5. \A q \in Procs : HeirOf(q)'
    <3> SUFFICES ASSUME NEW q \in Procs, stage'[q] = "handing" PROVE HeirOf(q)'
      BY DEF HeirOf
    <3>1. stage[q] = "handing" /\ heir[q] \in Procs \ {q}
          /\ (Adopts(heir[q]) \/ stage[heir[q]] = "exited")
      BY <1>2, <2>1 DEF InTurn, HeirOf
    <3>2. Adopts(heir[q])' \/ stage'[heir[q]] = "exited"
      BY <1>1, <1>2, <3>1 DEF Adopts
    <3>3. QED
      BY <1>1, <3>1, <3>2 DEF HeirOf
  <2>6. \A q, r \in Procs : Takes(q)' => ~Serves(r)'
    BY <2>1, <2>2 DEF InTurn
  <2>7. \A q, r \in Procs : Adopts(q)' /\ Serves(r)' => stage'[r] = "handing" /\ heir'[r] = q
    BY <1>1, <1>2, <2>1, <2>2 DEF InTurn
  <2>8. QED
    BY <1>1, <2>1, <2>3, <2>4, <2>5, <2>6, <2>7 DEF InTurn
<1>5. QED
  BY <1>3, <1>4 DEF BootInv

\* The predecessor is the only one that serves, and nobody else is coming.
LEMMA SpawnHeirKeeps ==
  ASSUME BootInv, NEW p \in Procs, NEW n \in Procs, SpawnHeir(p, n) PROVE BootInv'
<1>1. /\ stage[p] = "serving" /\ stage[n] = "off" /\ p # n
      /\ stage' = [stage EXCEPT ![p] = "handing", ![n] = "adopt"]
      /\ heir' = [heir EXCEPT ![p] = n]
      /\ holders' = IF p \in holders THEN holders \cup {n} ELSE holders
      /\ raced' = (raced \/ Coming # {})
      /\ UNCHANGED <<control, stream, crashed, spent, opened, link, awaits>>
  BY DEF SpawnHeir, linkVars
<1>2. /\ stage' \in [Procs -> Stages] /\ stage'[p] = "handing" /\ stage'[n] = "adopt"
      /\ \A q \in Procs \ {p, n} : stage'[q] = stage[q]
      /\ heir' \in [Procs -> Procs \cup {NoOne}] /\ heir'[p] = n
      /\ \A q \in Procs \ {p} : heir'[q] = heir[q]
  BY <1>1 DEF BootInv, BootTypeOK, Stages
<1>3. n \notin holders /\ holders \subseteq Procs
  BY <1>1 DEF BootInv, BootTypeOK, Alive
<1>4. BootTypeOK' /\ \A q \in Procs : stage'[q] = "probe" => q \notin holders'
  <2>1. holders' \subseteq {q \in Procs : Alive(q)'}
    BY <1>1, <1>2 DEF BootInv, BootTypeOK, Alive
  <2>2. QED
    BY <1>1, <1>2, <1>3, <2>1 DEF BootInv, BootTypeOK, Stages
<1>5. ASSUME ~raced' PROVE InTurn'
  <2>1. InTurn /\ Coming = {} /\ ~raced
    BY <1>1, <1>5 DEF BootInv, BootTypeOK
  <2>2. control = p /\ stream = p /\ \A q \in Procs \ {p} : ~Serves(q)
    BY <1>1, <2>1 DEF InTurn, PathsOf, Serves
  <2>3. \A q \in Procs : ~Takes(q) /\ ~Adopts(q)
    BY <2>1 DEF Coming, Takes, Adopts
  <2>4. \A q \in Procs : ~Takes(q)' /\ (Adopts(q)' <=> q = n) /\ (Serves(q)' <=> q = p)
    BY <1>1, <1>2, <2>2, <2>3 DEF Takes, Adopts, Serves
  <2>5. Coming' = {n}
    BY <2>4 DEF Coming, Takes, Adopts
  <2>6. \A q \in Procs : PathsOf(q)'
    BY <1>1, <2>2, <2>4 DEF PathsOf, Serves, Takes
  <2>7. \A q \in Procs : HeirOf(q)'
    <3>1. HeirOf(p)'
      BY <1>1, <1>2, <1>3, <2>4 DEF HeirOf
    <3>2. \A q \in Procs \ {p} : stage'[q] # "handing"
      BY <2>4 DEF Serves
    <3>3. QED
      BY <3>1, <3>2 DEF HeirOf
  <2>8. opened' /\ ~crashed' => holders' # {}
    BY <1>1, <2>1 DEF InTurn
  <2>9. QED
    BY <1>2, <2>4, <2>5, <2>6, <2>7, <2>8 DEF InTurn
<1>6. QED
  BY <1>4, <1>5 DEF BootInv

LEMMA BootAckKeeps == ASSUME BootInv, NEW p \in Procs, AckAdopt(p) PROVE BootInv'
<1>1. /\ stage[p] = "adopt" /\ stage' = [stage EXCEPT ![p] = "await"] /\ "await" \in Stages
      /\ UNCHANGED <<heir, control, stream, holders, crashed, spent, raced, opened, link, awaits>>
  BY DEF AckAdopt, Step, Stages, linkVars
<1>2. /\ stage' \in [Procs -> Stages]
      /\ stage'[p] = "await" /\ \A q \in Procs \ {p} : stage'[q] = stage[q]
  BY <1>1, Moved DEF BootInv
<1>3. BootTypeOK' /\ \A q \in Procs : stage'[q] = "probe" => q \notin holders'
  BY <1>1, <1>2 DEF BootInv, BootTypeOK, Alive, Stages
<1>4. \A q \in Procs : /\ Serves(q)' <=> Serves(q)
                       /\ Takes(q)' <=> Takes(q)
                       /\ Adopts(q)' <=> Adopts(q)
  BY <1>1, <1>2 DEF Serves, Takes, Adopts
<1>5. ASSUME ~raced' PROVE InTurn'
  <2>1. InTurn
    BY <1>1, <1>5 DEF BootInv
  <2>2. Coming' = Coming
    BY <1>4 DEF Coming, Takes, Adopts
  <2>3. \A q \in Procs : PathsOf(q)'
    BY <1>1, <1>2, <1>4, <2>1 DEF InTurn, PathsOf
  <2>4. \A q \in Procs : HeirOf(q)'
    BY <1>1, <1>2, <1>4, <2>1 DEF InTurn, HeirOf, Adopts
  <2>5. QED
    BY <1>1, <1>2, <1>4, <2>1, <2>2, <2>3, <2>4 DEF InTurn, Serves
<1>6. QED
  BY <1>3, <1>5 DEF BootInv

\* The successor has the masters its predecessor leaves.
LEMMA BootCommitKeeps == ASSUME BootInv, NEW p \in Procs, Commit(p) PROVE BootInv'
<1>1. /\ stage[p] = "handing" /\ stage' = [stage EXCEPT ![p] = "exited"] /\ "exited" \in Stages
      /\ holders' = holders \ {p} /\ stage[heir[p]] = "await"
      /\ UNCHANGED <<heir, control, stream, crashed, spent, raced, opened, link, awaits>>
  BY DEF Commit, Step, Stages, linkVars
<1>2. /\ stage' \in [Procs -> Stages]
      /\ stage'[p] = "exited" /\ \A q \in Procs \ {p} : stage'[q] = stage[q]
  BY <1>1, Moved DEF BootInv
<1>3. BootTypeOK' /\ \A q \in Procs : stage'[q] = "probe" => q \notin holders'
  BY <1>1, <1>2 DEF BootInv, BootTypeOK, Alive, Stages
<1>4. ASSUME ~raced' PROVE InTurn'
  <2>1. InTurn
    BY <1>1, <1>4 DEF BootInv
  <2>2. \A q \in Procs \ {p} : ~Serves(q)
    <3>1. control = p
      BY <1>1, <2>1 DEF InTurn, PathsOf, Serves
    <3>2. QED
      BY <2>1, <3>1 DEF InTurn, PathsOf
  <2>3. \A q \in Procs : ~Serves(q)' /\ (Takes(q)' => Takes(q)) /\ (Adopts(q)' => Adopts(q))
    BY <1>2, <2>2 DEF Serves, Takes, Adopts
  <2>4. \A q \in Procs : ~Takes(q)'
    BY <1>1, <2>1, <2>3 DEF InTurn, Serves
  <2>5. Coming' \subseteq Coming
    BY <2>3 DEF Coming, Takes, Adopts
  <2>6. \A q \in Procs : PathsOf(q)' /\ HeirOf(q)'
    BY <2>3, <2>4 DEF PathsOf, HeirOf, Serves, Takes
  <2>7. opened' /\ ~crashed' => holders' # {}
    <3>1. opened /\ ~crashed => holders # {} /\ (p \in holders <=> heir[p] \in holders)
                                /\ heir[p] # p
      BY <1>1, <2>1 DEF InTurn, HeirOf
    <3>2. QED
      BY <1>1, <3>1
  <2>8. QED
    BY <2>1, <2>3, <2>4, <2>5, <2>6, <2>7 DEF InTurn
<1>5. QED
  BY <1>3, <1>4 DEF BootInv

LEMMA BootRollbackKeeps == ASSUME BootInv, NEW p \in Procs, Rollback(p) PROVE BootInv'
<1> DEFINE n == heir[p]
<1>1. /\ stage[p] = "handing"
      /\ stage' = [stage EXCEPT ![p] = "serving", ![n] = "exited"]
      /\ holders' = holders \ {n} /\ heir' = [heir EXCEPT ![p] = NoOne]
      /\ UNCHANGED <<control, stream, crashed, spent, raced, opened, link, awaits>>
  BY DEF Rollback, linkVars
<1>2. /\ stage' \in [Procs -> Stages] /\ heir' \in [Procs -> Procs \cup {NoOne}]
      /\ stage'[p] \in {"serving", "exited"} /\ (n # p => stage'[p] = "serving")
      /\ n \in Procs => stage'[n] = "exited"
      /\ \A q \in Procs \ {p, n} : stage'[q] = stage[q]
      /\ \A q \in Procs \ {p} : heir'[q] = heir[q]
  BY <1>1 DEF BootInv, BootTypeOK, Stages
<1> HIDE DEF n
<1>3. BootTypeOK' /\ \A q \in Procs : stage'[q] = "probe" => q \notin holders'
  <2>1. holders' \subseteq {q \in Procs : Alive(q)'}
    BY <1>1, <1>2 DEF BootInv, BootTypeOK, Alive
  <2>2. \A q \in Procs : stage'[q] = "probe" => q \notin holders'
    BY <1>1, <1>2 DEF BootInv
  <2>3. QED
    BY <1>1, <1>2, <2>1, <2>2 DEF BootInv, BootTypeOK, Stages
<1>4. ASSUME ~raced' PROVE InTurn'
  <2>1. InTurn
    BY <1>1, <1>4 DEF BootInv
  <2>2. /\ n \in Procs \ {p} /\ (Adopts(n) \/ stage[n] = "exited")
        /\ ~crashed => (p \in holders <=> n \in holders)
    BY <1>1, <2>1 DEF InTurn, HeirOf, n
  <2>3. control = p /\ stream = p /\ \A q \in Procs \ {p} : ~Serves(q)
    BY <1>1, <2>1 DEF InTurn, PathsOf, Serves
  <2>4. \A q \in Procs : ~Takes(q) /\ (q # n => ~Adopts(q))
    BY <1>1, <2>1 DEF InTurn, Serves, n
  <2>5. \A q \in Procs : ~Takes(q)' /\ ~Adopts(q)' /\ (Serves(q)' <=> q = p)
    BY <1>2, <2>2, <2>3, <2>4 DEF Takes, Adopts, Serves
  <2>6. Coming' = {}
    BY <2>5 DEF Coming, Takes, Adopts
  <2>7. \A q \in Procs : PathsOf(q)'
    BY <1>1, <2>3, <2>5 DEF PathsOf, Serves, Takes
  <2>8. \A q \in Procs : HeirOf(q)'
    BY <1>2, <2>2, <2>5 DEF HeirOf, Serves
  <2>9. opened' /\ ~crashed' => holders' # {}
    <3>1. opened /\ ~crashed => holders # {}
      BY <2>1 DEF InTurn
    <3>2. QED
      BY <1>1, <2>2, <3>1
  <2>10. QED
    BY <2>5, <2>6, <2>7, <2>8, <2>9 DEF InTurn
<1>5. QED
  BY <1>3, <1>4 DEF BootInv

\* Its predecessor is the only one that served.
LEMMA AwaitKeeps == ASSUME BootInv, NEW p \in Procs, Await(p) PROVE BootInv'
<1>1. /\ stage[p] = "await" /\ stage' = [stage EXCEPT ![p] = "unlinkControl"]
      /\ "unlinkControl" \in Stages /\ (~Answers \/ \A q \in Predecessor(p) : stage[q] = "exited")
      /\ UNCHANGED <<heir, control, stream, holders, crashed, spent, raced, opened, link, awaits>>
  BY DEF Await, Step, Stages, linkVars
<1>2. /\ stage' \in [Procs -> Stages]
      /\ stage'[p] = "unlinkControl" /\ \A q \in Procs \ {p} : stage'[q] = stage[q]
  BY <1>1, Moved DEF BootInv
<1>3. BootTypeOK' /\ \A q \in Procs : stage'[q] = "probe" => q \notin holders'
  BY <1>1, <1>2 DEF BootInv, BootTypeOK, Alive, Stages
<1>4. ASSUME ~raced' PROVE InTurn'
  <2>1. InTurn /\ ~raced /\ p \in Coming
    BY <1>1, <1>4 DEF BootInv, Coming
  <2>2. \A q \in Procs : ~Serves(q)
    <3>1. CASE ~Answers
      BY <2>1, <3>1, ServerAnswers
    <3>2. CASE \A q \in Predecessor(p) : stage[q] = "exited"
      BY <1>1, <2>1, <3>2 DEF InTurn, Adopts, Serves, Predecessor
    <3>3. QED
      BY <1>1, <3>1, <3>2
  <2>3. \A q \in Procs \ {p} : ~Takes(q) /\ ~Adopts(q)
    BY <2>1 DEF InTurn, Coming, Takes, Adopts
  <2>4. \A q \in Procs : ~Serves(q)' /\ ~Adopts(q)' /\ (Takes(q)' <=> q = p)
    BY <1>2, <2>2, <2>3 DEF Serves, Takes, Adopts
  <2>5. Coming' = {p}
    BY <2>4 DEF Coming, Takes, Adopts
  <2>6. \A q \in Procs : PathsOf(q)' /\ HeirOf(q)'
    BY <1>2, <2>4 DEF PathsOf, HeirOf, Serves, Takes
  <2>7. QED
    BY <1>1, <2>1, <2>4, <2>5, <2>6 DEF InTurn
<1>5. QED
  BY <1>3, <1>4 DEF BootInv

\* A client starts a daemon, which first probes.
LEMMA SpawnDaemonKeeps ==
  ASSUME BootInv, NEW c \in Clients, NEW p \in Procs, SpawnDaemon(c, p) PROVE BootInv'
<1>1. /\ stage[p] = "off" /\ stage' = [stage EXCEPT ![p] = "probe"] /\ "probe" \in Stages
      /\ awaits' = [awaits EXCEPT ![c] = p]
      /\ UNCHANGED <<heir, control, stream, holders, crashed, spent, raced, opened, link>>
  BY DEF SpawnDaemon, Step, Stages
<1>2. /\ stage' \in [Procs -> Stages]
      /\ stage'[p] = "probe" /\ \A q \in Procs \ {p} : stage'[q] = stage[q]
  BY <1>1, Moved DEF BootInv
<1>3. BootTypeOK' /\ \A q \in Procs : stage'[q] = "probe" => q \notin holders'
  BY <1>1, <1>2 DEF BootInv, BootTypeOK, Alive, Stages
<1>4. \A q \in Procs : /\ Serves(q)' <=> Serves(q)
                       /\ Takes(q)' <=> Takes(q)
                       /\ Adopts(q)' <=> Adopts(q)
                       /\ stage'[q] # stage[q] => stage[q] = "off" /\ stage'[q] = "probe"
  BY <1>1, <1>2 DEF Serves, Takes, Adopts
<1>5. ASSUME ~raced' PROVE InTurn'
  <2>1. InTurn
    BY <1>1, <1>5 DEF BootInv
  <2>2. Coming' = Coming
    BY <1>4 DEF Coming, Takes, Adopts
  <2>3. \A q \in Procs : PathsOf(q)'
    BY <1>1, <1>4, <2>1 DEF InTurn, PathsOf
  <2>4. \A q \in Procs : HeirOf(q)'
    BY <1>1, <1>4, <2>1 DEF InTurn, HeirOf
  <2>5. QED
    BY <1>1, <1>4, <2>1, <2>2, <2>3, <2>4 DEF InTurn, Serves
<1>6. QED
  BY <1>3, <1>5 DEF BootInv

\* Clients connect, ask, open a shell: the daemons stay where they are.
LEMMA ClientKeeps ==
  ASSUME BootInv, UNCHANGED <<stage, heir, control, stream, crashed, spent, raced>>,
         link' \in [Clients -> Procs \cup {NoOne, NotYet}],
         awaits' \in [Clients -> Procs \cup {NoOne}],
         \/ UNCHANGED <<holders, opened>>
         \/ \E p \in Procs : stage[p] = "serving" /\ holders' = holders \cup {p} /\ opened' = TRUE
  PROVE  BootInv'
<1>1. CASE UNCHANGED <<holders, opened>>
  BY <1>1 DEF BootInv, BootTypeOK, InTurn, Alive, Coming, PathsOf, HeirOf, Serves, Takes, Adopts
<1>2. ASSUME NEW p \in Procs, stage[p] = "serving", holders' = holders \cup {p}, opened' = TRUE
      PROVE  BootInv'
  <2>1. BootTypeOK' /\ \A q \in Procs : stage'[q] = "probe" => q \notin holders'
    BY <1>2 DEF BootInv, BootTypeOK, Alive
  <2>2. ASSUME ~raced' PROVE InTurn'
    <3>1. InTurn
      BY <2>2 DEF BootInv
    <3>2. control = p /\ stream = p
      BY <1>2, <3>1 DEF InTurn, PathsOf, Serves
    <3>3. \A q \in Procs : stage[q] # "handing"
      BY <1>2, <3>1, <3>2 DEF InTurn, PathsOf, Serves
    <3>4. QED
      BY <1>2, <3>1, <3>3 DEF InTurn, Coming, PathsOf, HeirOf, Serves, Takes, Adopts
  <2>3. QED
    BY <2>1, <2>2 DEF BootInv
<1>3. QED
  BY <1>1, <1>2

LEMMA BootSteps == BootInv /\ [BootNext]_bootVars => BootInv'
<1> SUFFICES ASSUME BootInv, [BootNext]_bootVars PROVE BootInv'
  OBVIOUS
<1>1. /\ link \in [Clients -> Procs \cup {NoOne, NotYet}]
      /\ awaits \in [Clients -> Procs \cup {NoOne}] /\ control \in Procs \cup {NoOne}
  BY DEF BootInv, BootTypeOK
<1>2. ASSUME NEW p \in Procs, Boot(p) PROVE BootInv'
  BY <1>2, ProbeKeeps, UnlinkKeeps, BindKeeps, BootAckKeeps, BootCommitKeeps, AwaitKeeps DEF Boot
<1>3. ASSUME NEW c \in Clients, Asks(c) \/ Connect(c) \/ WaitOver(c) \/ LinkLost(c) \/ Open(c)
      PROVE  BootInv'
  <2>1. /\ UNCHANGED <<stage, heir, control, stream, crashed, spent, raced>>
        /\ link' \in [Clients -> Procs \cup {NoOne, NotYet}]
        /\ awaits' \in [Clients -> Procs \cup {NoOne}]
    BY <1>1, <1>3 DEF Asks, Connect, WaitOver, LinkLost, Open, daemonVars
  <2>2. \/ UNCHANGED <<holders, opened>>
        \/ \E p \in Procs : stage[p] = "serving" /\ holders' = holders \cup {p} /\ opened' = TRUE
    BY <1>3 DEF Asks, Connect, WaitOver, LinkLost, Open, daemonVars
  <2>3. QED
    BY <2>1, <2>2, ClientKeeps
<1>4. CASE UNCHANGED bootVars
  <2>1. UNCHANGED <<stage, heir, control, stream, holders, opened, crashed, spent, raced, link, awaits>>
    BY <1>4 DEF bootVars, daemonVars, linkVars
  <2>2. QED
    BY <1>1, <2>1, ClientKeeps
<1>5. QED
  BY <1>2, <1>3, <1>4, CrashKeeps, BootRollbackKeeps, SpawnHeirKeeps, SpawnDaemonKeeps
     DEF BootNext, ClientStep

\* As long as no two daemons are on their way to the sockets at once, a daemon that serves
\* is the one both paths lead to, and short of a kill an opened shell always has a daemon
\* that holds its master (serve, run_handoff_adopt).
THEOREM TheSocketsAreOwned == BootSpec => [](BootTypeOK /\ SocketsAreOwned)
<1>1. QED
  BY BootStarts, BootSteps, BootInvImplies, PTL DEF BootSpec
==============================================================================
