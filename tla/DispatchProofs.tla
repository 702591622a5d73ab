--------------------------- MODULE DispatchProofs ---------------------------
(***************************************************************************)
(* What the lock on the request row guarantees, for any number of requests, *)
(* drivers and threads: a request has one trip at most, the one its row     *)
(* names, and a trip is created for an open request only.                   *)
(***************************************************************************)
EXTENDS Dispatch, TLAPS

\* A row no driver was matched to names none.
Undriven == \A q \in Requests : request[q].status \in {"none", "open"} => request[q].driver = NoDriver

\* Only accepting handlers need a driver, and they have one.
HasDriver ==
  \A t \in Threads : session[t] # Idle /\ session[t].op = "accept" => session[t].driver \in Drivers

\* The request an accepting handler holds the lock on stays open until it commits.
LockedIsOpen ==
  \A t \in Threads : At(t, "accept", "write") => request[session[t].request].status = "open"

\* No row is locked twice.
LocksExclude == \A t, u \in Threads : t # u => Rows(t) \cap Rows(u) = {}

IInv == TypeOK /\ OneTripPerMatch /\ Undriven /\ HasDriver /\ LockedIsOpen /\ LocksExclude

-----------------------------------------------------------------------------
\* Thread t goes from handler h to handler g, and the others stay where they are.
Moves(t, h, g) ==
  /\ session[t] = h /\ session'[t] = g
  /\ \A u \in Threads \ {t} : session'[u] = session[u]
  /\ session' \in [Threads -> Handler \cup {Idle}]

\* A begun handler is a record of type Handler.
LEMMA Begun ==
  ASSUME TypeOK, NEW t \in Threads, session[t] # Idle
  PROVE  session[t] \in Handler
BY DEF TypeOK

\* A handler record differs from the idle one.
LEMMA NotIdle == \A h \in Handler : h # Idle
BY DEF Handler, Idle

\* Goto changes the place of thread t and nothing else.
LEMMA GotoMoves ==
  ASSUME TypeOK, NEW t \in Threads, session[t] # Idle,
         NEW pc \in {"list", "update", "expire", "act", "lock", "write"}, Goto(t, pc)
  PROVE  Moves(t, session[t], [session[t] EXCEPT !.pc = pc])
<1>1. session[t] \in Handler BY Begun
<1>2. [session[t] EXCEPT !.pc = pc] \in Handler BY <1>1 DEF Handler
<1> QED BY <1>2 DEF Goto, Moves, TypeOK

\* Return makes thread t idle and changes nothing else.
LEMMA ReturnMoves ==
  ASSUME TypeOK, NEW t \in Threads, Return(t)
  PROVE  Moves(t, session[t], Idle)
BY DEF Return, Moves, TypeOK

-----------------------------------------------------------------------------
(* What a move of one thread needs to keep the parts about handlers *)

\* The rows locked by a handler h.
RowsOf(h) ==
  {q \in Requests : /\ h # Idle
                    /\ \/ h.pc = "expire" /\ q \in h.list
                       \/ h.op = "accept" /\ h.pc = "write" /\ q = h.request}

LEMMA RowsAre ==
  ASSUME NEW t \in Threads
  PROVE  Rows(t) = RowsOf(session[t]) /\ Rows(t)' = RowsOf(session'[t])
BY DEF Rows, RowsOf

LEMMA HasDriverKept ==
  ASSUME HasDriver, NEW t \in Threads, NEW g, Moves(t, session[t], g),
         g # Idle /\ g.op = "accept" => g.driver \in Drivers
  PROVE  HasDriver'
BY DEF HasDriver, Moves

\* The rows thread t locks next are rows no other thread has locked.
LEMMA LocksExcludeKept ==
  ASSUME LocksExclude, NEW t \in Threads, NEW g, Moves(t, session[t], g),
         RowsOf(g) \cap LockedByOthers(t) = {}
  PROVE  LocksExclude'
<1> SUFFICES ASSUME NEW u \in Threads, NEW v \in Threads, u # v
             PROVE  Rows(u)' \cap Rows(v)' = {}
  BY DEF LocksExclude
<1>1. \A w \in Threads \ {t} : Rows(w)' = Rows(w) /\ Rows(w) \subseteq LockedByOthers(t)
  BY RowsAre DEF Moves, LockedByOthers
<1>2. Rows(t)' = RowsOf(g)
  BY RowsAre DEF Moves
<1> QED BY <1>1, <1>2 DEF LocksExclude

\* Rows others have locked keep their status, and so does a row t locks.
LEMMA LockedIsOpenKept ==
  ASSUME TypeOK, LockedIsOpen, NEW t \in Threads, NEW g, Moves(t, session[t], g),
         g # Idle /\ g.op = "accept" /\ g.pc = "write" => request'[g.request].status = "open",
         \A q \in LockedByOthers(t) : request'[q].status = request[q].status
  PROVE  LockedIsOpen'
<1> SUFFICES ASSUME NEW u \in Threads, At(u, "accept", "write")'
             PROVE  request'[session'[u].request].status = "open"
  BY DEF LockedIsOpen
<1>1. CASE u = t BY <1>1 DEF At, Moves
<1>2. CASE u # t
  <2>1. session'[u] = session[u] BY <1>2 DEF Moves
  <2>2. At(u, "accept", "write") BY <2>1 DEF At
  <2>3. session[u].request \in Requests BY <2>2, Begun DEF At, Handler
  <2>4. session[u].request \in Rows(u) BY <2>2, <2>3 DEF At, Rows
  <2>5. session[u].request \in LockedByOthers(t) BY <2>4, <1>2 DEF LockedByOthers
  <2> QED BY <2>1, <2>2, <2>5 DEF LockedIsOpen
<1> QED BY <1>1, <1>2

\* Handlers that only move, and write no row.
LEMMA OnlyMoves ==
  ASSUME IInv, NEW t \in Threads, NEW g, Moves(t, session[t], g),
         UNCHANGED <<request, trips>>,
         presence' \in [Drivers -> Presence],
         g # Idle /\ g.op = "accept" => g.driver \in Drivers,
         g # Idle /\ g.op = "accept" /\ g.pc = "write" => request[g.request].status = "open",
         RowsOf(g) \cap LockedByOthers(t) = {}
  PROVE  IInv'
<1>1. TypeOK' BY DEF IInv, TypeOK, Moves
<1>2. OneTripPerMatch' /\ Undriven' BY DEF IInv, OneTripPerMatch, Undriven
<1>3. HasDriver' BY HasDriverKept DEF IInv
<1>4. LockedIsOpen' BY LockedIsOpenKept DEF IInv
<1>5. LocksExclude' BY LocksExcludeKept DEF IInv
<1> QED BY <1>1, <1>2, <1>3, <1>4, <1>5 DEF IInv

\* Handlers that commit new statuses and give their locks back.
LEMMA RowsWritten ==
  ASSUME IInv, NEW t \in Threads, NEW g, Moves(t, session[t], g),
         UNCHANGED <<presence, trips>>,
         request' \in [Requests -> RequestRow],
         \A q \in Requests :
           /\ request'[q].driver = request[q].driver
           /\ request'[q].status = "matched" => request[q].status = "matched"
           /\ request'[q].status \in {"none", "open"} => request[q].status \in {"none", "open"},
         \A q \in LockedByOthers(t) : request'[q].status = request[q].status,
         RowsOf(g) = {},
         g # Idle /\ g.op = "accept" => g.pc # "write" /\ g.driver \in Drivers
  PROVE  IInv'
<1>1. TypeOK' BY DEF IInv, TypeOK, Moves
<1>2. OneTripPerMatch' BY DEF IInv, OneTripPerMatch
<1>3. Undriven' BY DEF IInv, Undriven
<1>4. HasDriver' BY HasDriverKept DEF IInv
<1>5. LockedIsOpen' BY LockedIsOpenKept DEF IInv
<1>6. LocksExclude' BY LocksExcludeKept DEF IInv
<1> QED BY <1>1, <1>2, <1>3, <1>4, <1>5, <1>6 DEF IInv

\* Rows locked by t are not locked by another thread.
LEMMA OwnLocks ==
  ASSUME LocksExclude, NEW t \in Threads
  PROVE  RowsOf(session[t]) \cap LockedByOthers(t) = {}
BY RowsAre DEF LocksExclude, LockedByOthers

-----------------------------------------------------------------------------
(* The handlers keep the invariant *)

LEMMA BeginKeeps ==
  ASSUME IInv, NEW t \in Threads, NEW op \in {"browse", "create", "accept", "cancel"},
         NEW q \in Requests, NEW d \in Drivers \cup {NoDriver},
         op = "accept" => d \in Drivers, Begin(t, op, q, d, "list")
  PROVE  IInv'
<1> DEFINE g == [op |-> op, pc |-> "list", request |-> q, driver |-> d,
                 list |-> {}, seen |-> request[q].status]
<1>1. TypeOK BY DEF IInv
<1>2. request[q].status \in {"none", "open"} \cup Closed BY <1>1 DEF TypeOK, RequestRow
<1>3. g \in Handler BY <1>2 DEF Handler
<1>4. Moves(t, session[t], g) BY <1>1, <1>3 DEF Begin, Moves, TypeOK
<1>5. RowsOf(g) = {} BY <1>3, NotIdle DEF RowsOf
<1>6. UNCHANGED <<request, presence, trips>> BY DEF Begin
<1>7. g.op = op /\ g.pc = "list" /\ g.driver = d OBVIOUS
<1> HIDE DEF g
<1>8. presence' \in [Drivers -> Presence]
  BY <1>1, <1>6 DEF TypeOK
<1>9. RowsOf(g) \cap LockedByOthers(t) = {} BY <1>5
<1> QED BY <1>4, <1>6, <1>7, <1>8, <1>9, OnlyMoves

\* Going to a place where no row is locked.
LEMMA GotoKeeps ==
  ASSUME IInv, NEW t \in Threads, session[t] # Idle,
         NEW pc \in {"update", "act", "lock", "write"}, Goto(t, pc),
         pc = "write" => session[t].op # "accept",
         UNCHANGED <<request, presence, trips>>
  PROVE  IInv'
<1> DEFINE g == [session[t] EXCEPT !.pc = pc]
<1>1. TypeOK BY DEF IInv
<1>2. session[t] \in Handler BY <1>1, Begun
<1>3. Moves(t, session[t], g) BY <1>1, GotoMoves
<1>4. g \in Handler /\ g.pc = pc /\ g.op = session[t].op /\ g.driver = session[t].driver
  BY <1>2 DEF Handler
<1> HIDE DEF g
<1>5. g # Idle BY <1>4, NotIdle
<1>6. RowsOf(g) = {} BY <1>4, <1>5 DEF RowsOf
<1>7. presence' \in [Drivers -> Presence]
  BY <1>1 DEF TypeOK
<1>8. g.op = "accept" => g.driver \in Drivers BY <1>4 DEF IInv, HasDriver
<1>9. RowsOf(g) \cap LockedByOthers(t) = {} BY <1>6
<1>10. g.op = "accept" => g.pc # "write" BY <1>4
<1> QED BY <1>3, <1>7, <1>8, <1>9, <1>10, OnlyMoves

LEMMA ReturnKeeps ==
  ASSUME IInv, NEW t \in Threads, Return(t), UNCHANGED <<request, trips>>,
         presence' \in [Drivers -> Presence]
  PROVE  IInv'
<1>1. TypeOK BY DEF IInv
<1>2. Moves(t, session[t], Idle) BY <1>1, ReturnMoves
<1>3. RowsOf(Idle) = {} BY DEF RowsOf
<1>5. RowsOf(Idle) \cap LockedByOthers(t) = {} BY <1>3
<1> QED BY <1>2, <1>5, OnlyMoves

LEMMA ListKeeps ==
  ASSUME IInv, NEW t \in Threads, ListExpirable(t)
  PROVE  IInv'
<1> DEFINE pc == IF Expirable = {} THEN "act" ELSE "update"
           g == [session[t] EXCEPT !.list = Expirable, !.pc = pc]
<1>1. TypeOK BY DEF IInv
<1>2. session[t] \in Handler BY <1>1, Begun DEF ListExpirable
<1>3. pc \in {"act", "update"} /\ Expirable \subseteq Requests BY DEF Expirable
<1>4. g \in Handler /\ g.pc = pc /\ g.op = session[t].op /\ g.driver = session[t].driver
  BY <1>2, <1>3 DEF Handler
<1>5. session' = [session EXCEPT ![t] = g] BY DEF ListExpirable
<1> HIDE DEF g, pc
<1>6. Moves(t, session[t], g) BY <1>1, <1>4, <1>5 DEF Moves, TypeOK
<1>7. RowsOf(g) = {} BY <1>3, <1>4 DEF RowsOf
<1>8. UNCHANGED <<request, presence, trips>> BY DEF ListExpirable
<1>9. presence' \in [Drivers -> Presence]
  BY <1>1, <1>8 DEF TypeOK
<1>10. session[t] # Idle BY DEF ListExpirable
<1>11. g.op = "accept" => g.driver \in Drivers BY <1>4, <1>10 DEF IInv, HasDriver
<1>12. g.pc # "write" BY <1>3, <1>4
<1>13. RowsOf(g) \cap LockedByOthers(t) = {} BY <1>7
<1> QED BY <1>6, <1>8, <1>9, <1>11, <1>12, <1>13, OnlyMoves

LEMMA UpdateKeeps ==
  ASSUME IInv, NEW t \in Threads, UpdateExpired(t)
  PROVE  IInv'
<1> DEFINE g == [session[t] EXCEPT !.pc = "expire"]
<1>1. TypeOK BY DEF IInv
<1>2. session[t] # Idle /\ Goto(t, "expire") BY DEF UpdateExpired
<1>3. session[t] \in Handler BY <1>1, <1>2, Begun
<1>4. Moves(t, session[t], g) BY <1>1, <1>2, GotoMoves
<1>5. g \in Handler /\ g.pc = "expire" /\ g.op = session[t].op /\ g.driver = session[t].driver
      /\ g.list = session[t].list
  BY <1>3 DEF Handler
<1> HIDE DEF g
<1>6. RowsOf(g) \subseteq session[t].list BY <1>5 DEF RowsOf
<1>7. RowsOf(g) \cap LockedByOthers(t) = {} BY <1>6 DEF UpdateExpired
<1>8. UNCHANGED <<request, presence, trips>> BY DEF UpdateExpired
<1>10. presence' \in [Drivers -> Presence] BY <1>1, <1>8 DEF TypeOK
<1>11. g.op = "accept" => g.driver \in Drivers BY <1>2, <1>5 DEF IInv, HasDriver
<1> QED BY <1>4, <1>5, <1>7, <1>8, <1>10, <1>11, OnlyMoves

LEMMA ExpireKeeps ==
  ASSUME IInv, NEW t \in Threads, CommitExpired(t)
  PROVE  IInv'
<1> DEFINE g == [session[t] EXCEPT !.pc = "act"]
<1>1. TypeOK BY DEF IInv
<1>2. session[t] # Idle /\ session[t].pc = "expire" /\ Goto(t, "act") BY DEF CommitExpired
<1>3. session[t] \in Handler BY <1>1, <1>2, Begun
<1>4. Moves(t, session[t], g) BY <1>1, <1>2, GotoMoves
<1>5. g \in Handler /\ g.pc = "act" /\ g.op = session[t].op /\ g.driver = session[t].driver
  BY <1>3 DEF Handler
<1> HIDE DEF g
<1>6. RowsOf(g) = {} BY <1>5 DEF RowsOf
<1>7. RowsOf(session[t]) = session[t].list BY <1>2, <1>3 DEF RowsOf, Handler
<1>8. session[t].list \cap LockedByOthers(t) = {} BY <1>7, OwnLocks DEF IInv
<1>9. UNCHANGED <<presence, trips>> BY DEF CommitExpired
<1>10. \A q \in Requests :
         request'[q] = IF q \in session[t].list THEN [request[q] EXCEPT !.status = "expired"]
                       ELSE request[q]
  BY DEF CommitExpired
<1>11. \A q \in Requests : request[q] \in RequestRow BY <1>1 DEF TypeOK
<1>12. \A q \in Requests :
         /\ request'[q] \in RequestRow /\ request'[q].driver = request[q].driver
         /\ request'[q].status = IF q \in session[t].list THEN "expired" ELSE request[q].status
  <2> TAKE q \in Requests
  <2>1. request[q] \in RequestRow BY <1>11
  <2>2. CASE q \in session[t].list
    <3>1. request'[q] = [request[q] EXCEPT !.status = "expired"] BY <1>10, <2>2
    <3> QED BY <2>1, <2>2, <3>1 DEF RequestRow, Closed
  <2>3. CASE q \notin session[t].list BY <1>10, <2>1, <2>3
  <2> QED BY <2>2, <2>3
<1>13. request' \in [Requests -> RequestRow] BY <1>12 DEF CommitExpired
<1>14. LockedByOthers(t) \subseteq Requests BY DEF LockedByOthers, Rows
<1>15. \A q \in LockedByOthers(t) : request'[q].status = request[q].status
  BY <1>8, <1>12, <1>14
<1>17. g.op = "accept" => g.driver \in Drivers BY <1>2, <1>5 DEF IInv, HasDriver
<1>18. \A q \in Requests :
         /\ request'[q].driver = request[q].driver
         /\ request'[q].status = "matched" => request[q].status = "matched"
         /\ request'[q].status \in {"none", "open"} => request[q].status \in {"none", "open"}
  BY <1>12
<1>19. g.op = "accept" => g.pc # "write" BY <1>5
<1> QED BY <1>4, <1>6, <1>9, <1>13, <1>15, <1>17, <1>18, <1>19, RowsWritten

\* Thread t writes a row that no other thread has locked, and returns.
LEMMA RowWritten ==
  ASSUME IInv, NEW t \in Threads, NEW q \in Requests, q \notin LockedByOthers(t),
         NEW row \in RequestRow, request' = [request EXCEPT ![q] = row],
         row.driver = request[q].driver, row.status # "matched",
         row.status \in {"none", "open"} => request[q].status \in {"none", "open"},
         Return(t), UNCHANGED <<presence, trips>>
  PROVE  IInv'
<1>1. TypeOK BY DEF IInv
<1>2. Moves(t, session[t], Idle) BY <1>1, ReturnMoves
<1>3. RowsOf(Idle) = {} BY DEF RowsOf
<1>4. \A p \in Requests : request'[p] = IF p = q THEN row ELSE request[p] BY <1>1 DEF TypeOK
<1>5. request' \in [Requests -> RequestRow] BY <1>1 DEF TypeOK
<1>6. LockedByOthers(t) \subseteq Requests BY DEF LockedByOthers, Rows
<1>7. \A p \in LockedByOthers(t) : request'[p].status = request[p].status BY <1>4, <1>6
<1>8. \A p \in Requests :
        /\ request'[p].driver = request[p].driver
        /\ request'[p].status = "matched" => request[p].status = "matched"
        /\ request'[p].status \in {"none", "open"} => request[p].status \in {"none", "open"}
  BY <1>4
<1> QED BY <1>2, <1>3, <1>5, <1>7, <1>8, RowsWritten

\* A row locked for a match is open, so it is not the row inserted here.
LEMMA CreateKeeps ==
  ASSUME IInv, NEW t \in Threads, CommitCreate(t)
  PROVE  IInv'
<1> DEFINE q == session[t].request
<1>1. TypeOK BY DEF IInv
<1>2. session[t] \in Handler BY <1>1, Begun DEF CommitCreate, At
<1>3. q \in Requests /\ request[q].status = "none" BY <1>2 DEF CommitCreate, Handler
<1>4. PICK late \in BOOLEAN :
        request' = [request EXCEPT ![q] = [status |-> "open", due |-> late, driver |-> NoDriver]]
  BY DEF CommitCreate
<1> DEFINE row == [status |-> "open", due |-> late, driver |-> NoDriver]
<1>5. row \in RequestRow /\ row.driver = NoDriver /\ row.status = "open" BY DEF RequestRow
<1>6. request' = [request EXCEPT ![q] = row] BY <1>4
<1>7. request[q].driver = NoDriver BY <1>3 DEF IInv, Undriven
<1>8. Return(t) /\ UNCHANGED <<presence, trips>> BY DEF CommitCreate
<1> HIDE DEF row, q
<1>10. \A p \in Requests :
         request'[p] = IF p = q THEN row ELSE request[p]
  BY <1>1, <1>6 DEF TypeOK
<1>11. request' \in [Requests -> RequestRow] BY <1>1, <1>5, <1>6 DEF TypeOK
<1>12. Moves(t, session[t], Idle) BY <1>1, <1>8, ReturnMoves
<1>13. TypeOK' BY <1>1, <1>5, <1>8, <1>10, <1>11, <1>12 DEF TypeOK, Moves
<1>14. OneTripPerMatch'
  <2>1. \A p \in Requests : request'[p].driver = request[p].driver BY <1>3, <1>5, <1>7, <1>10
  <2> QED BY <2>1, <1>8 DEF IInv, OneTripPerMatch
<1>15. Undriven' BY <1>5, <1>10 DEF IInv, Undriven
<1>16. HasDriver' BY <1>12, HasDriverKept DEF IInv
<1>17. LockedIsOpen'
  <2> SUFFICES ASSUME NEW u \in Threads, At(u, "accept", "write")'
               PROVE  request'[session'[u].request].status = "open"
    BY DEF LockedIsOpen
  <2>1. u # t BY <1>12 DEF At, Moves
  <2>2. session'[u] = session[u] BY <1>12, <2>1 DEF Moves
  <2>3. At(u, "accept", "write") BY <2>2 DEF At
  <2>4. request[session[u].request].status = "open" BY <2>3 DEF IInv, LockedIsOpen
  <2>5. session[u].request \in Requests BY <1>1, <2>3, Begun DEF At, Handler
  <2> QED BY <2>2, <2>4, <2>5, <1>5, <1>10
<1>18. LocksExclude'
  <2>1. RowsOf(Idle) = {} BY DEF RowsOf
  <2> QED BY <2>1, <1>12, LocksExcludeKept DEF IInv
<1> QED BY <1>13, <1>14, <1>15, <1>16, <1>17, <1>18 DEF IInv

LEMMA CancelKeeps ==
  ASSUME IInv, NEW t \in Threads, CommitCancel(t)
  PROVE  IInv'
<1> DEFINE q == session[t].request
           row == [request[q] EXCEPT !.status = "cancelled"]
<1>1. TypeOK BY DEF IInv
<1>2. session[t] \in Handler BY <1>1, Begun DEF CommitCancel, At
<1>3. q \in Requests /\ q \notin LockedByOthers(t) BY <1>2 DEF CommitCancel, Handler
<1>4. request[q] \in RequestRow BY <1>1, <1>3 DEF TypeOK
<1>5. row \in RequestRow /\ row.driver = request[q].driver /\ row.status = "cancelled"
  BY <1>4 DEF RequestRow, Closed
<1>6. request' = [request EXCEPT ![q] = row] BY DEF CommitCancel
<1>7. Return(t) /\ UNCHANGED <<presence, trips>> BY DEF CommitCancel
<1> HIDE DEF row, q
<1> QED BY <1>3, <1>5, <1>6, <1>7, RowWritten

LEMMA LockKeeps ==
  ASSUME IInv, NEW t \in Threads, LockRequest(t)
  PROVE  IInv'
<1> DEFINE q == session[t].request
           g == [session[t] EXCEPT !.pc = "write"]
<1>1. TypeOK BY DEF IInv
<1>2. session[t] # Idle /\ session[t].op = "accept" BY DEF LockRequest, At
<1>3. UNCHANGED <<request, presence, trips>> BY DEF LockRequest
<1>4. presence' \in [Drivers -> Presence]
  BY <1>1, <1>3 DEF TypeOK
<1>5. CASE Return(t) BY <1>3, <1>4, <1>5, ReturnKeeps
<1>6. CASE request[q].status = "open" /\ Goto(t, "write")
  <2>1. session[t] \in Handler BY <1>1, <1>2, Begun
  <2>2. Moves(t, session[t], g) BY <1>1, <1>2, <1>6, GotoMoves
  <2>3. g \in Handler /\ g.pc = "write" /\ g.op = "accept" /\ g.driver = session[t].driver
        /\ g.request = q
    BY <1>2, <2>1 DEF Handler
  <2>4. q \notin LockedByOthers(t) BY DEF LockRequest
  <2>5. g.driver \in Drivers BY <1>2, <2>3 DEF IInv, HasDriver
  <2> HIDE DEF g, q
  <2>6. RowsOf(g) \cap LockedByOthers(t) = {} BY <2>3, <2>4 DEF RowsOf
  <2>7. request[g.request].status = "open" BY <1>6, <2>3
  <2> QED BY <1>3, <1>4, <2>2, <2>5, <2>6, <2>7, OnlyMoves
<1> QED BY <1>5, <1>6 DEF LockRequest

LEMMA MatchKeeps ==
  ASSUME IInv, NEW t \in Threads, CommitMatch(t)
  PROVE  IInv'
<1> DEFINE q == session[t].request
           d == session[t].driver
           row == [request[q] EXCEPT !.status = "matched", !.driver = d]
<1>1. TypeOK BY DEF IInv
<1>2. session[t] \in Handler BY <1>1, Begun DEF CommitMatch, At
<1>3. At(t, "accept", "write") /\ Return(t) /\ UNCHANGED presence BY DEF CommitMatch
<1>4. q \in Requests /\ d \in Drivers BY <1>2, <1>3 DEF At, Handler, IInv, HasDriver
<1>5. request[q].status = "open" BY <1>3 DEF IInv, LockedIsOpen
<1>6. request[q].driver = NoDriver BY <1>4, <1>5 DEF IInv, Undriven
<1>7. request[q] \in RequestRow BY <1>1, <1>4 DEF TypeOK
<1>8. row \in RequestRow /\ row.driver = d /\ row.status = "matched"
  BY <1>4, <1>7 DEF RequestRow, Closed
<1>9. request' = [request EXCEPT ![q] = row] /\ trips' = trips \cup {<<q, d>>} BY DEF CommitMatch
<1>11. Moves(t, session[t], Idle) BY <1>1, <1>3, ReturnMoves
<1>12. q \in RowsOf(session[t]) BY <1>3, <1>4 DEF RowsOf, At
<1> HIDE DEF row, q, d
<1>13. q \notin LockedByOthers(t) BY <1>12, OwnLocks DEF IInv
<1>14. \A p \in Requests : request'[p] = IF p = q THEN row ELSE request[p]
  BY <1>1, <1>9 DEF TypeOK
<1>15. request' \in [Requests -> RequestRow] BY <1>1, <1>8, <1>9 DEF TypeOK
<1>16. d # NoDriver BY <1>4, DispatchAssumption
<1>17. TypeOK'
  BY <1>1, <1>3, <1>4, <1>8, <1>9, <1>11, <1>14, <1>15, <1>16 DEF TypeOK, Moves
<1>18. OneTripPerMatch'
  <2>1. {p \in Requests : request'[p].driver # NoDriver}
          = {p \in Requests : request[p].driver # NoDriver} \cup {q}
    BY <1>4, <1>8, <1>14, <1>16
  <2>2. \A p \in {r \in Requests : request[r].driver # NoDriver} :
          request'[p].driver = request[p].driver
    BY <1>6, <1>14
  <2>3. request'[q].driver = d BY <1>4, <1>8, <1>14
  <2> QED BY <1>9, <2>1, <2>2, <2>3 DEF IInv, OneTripPerMatch
<1>19. Undriven' BY <1>8, <1>14 DEF IInv, Undriven
<1>20. HasDriver' BY <1>11, HasDriverKept DEF IInv
<1>21. LockedByOthers(t) \subseteq Requests BY DEF LockedByOthers, Rows
<1>22. LockedIsOpen'
  <2>1. \A p \in LockedByOthers(t) : request'[p].status = request[p].status
    BY <1>13, <1>14, <1>21
  <2> QED BY <1>1, <1>11, <2>1, LockedIsOpenKept DEF IInv
<1>23. LocksExclude'
  <2>1. RowsOf(Idle) = {} BY DEF RowsOf
  <2> QED BY <2>1, <1>11, LocksExcludeKept DEF IInv
<1> QED BY <1>17, <1>18, <1>19, <1>20, <1>22, <1>23 DEF IInv

\* Steps that are not a handler's leave the handlers and their locks alone.
LEMMA HandlersStay ==
  ASSUME IInv, UNCHANGED <<trips, session>>, presence' \in [Drivers -> Presence],
         request' \in [Requests -> RequestRow],
         \A q \in Requests : /\ request'[q].status = request[q].status
                             /\ request'[q].driver = request[q].driver
  PROVE  IInv'
<1>1. TypeOK' BY DEF IInv, TypeOK
<1>2. OneTripPerMatch' BY DEF IInv, OneTripPerMatch
<1>3. Undriven' /\ HasDriver' BY DEF IInv, Undriven, HasDriver
<1>4. LockedIsOpen'
  <2> SUFFICES ASSUME NEW t \in Threads, At(t, "accept", "write")
               PROVE  request'[session[t].request].status = "open"
    BY DEF LockedIsOpen, At
  <2>1. session[t].request \in Requests BY Begun DEF IInv, At, Handler
  <2> QED BY <2>1 DEF IInv, LockedIsOpen
<1>5. LocksExclude'
  <2>1. \A t \in Threads : Rows(t)' = Rows(t) BY DEF Rows
  <2> QED BY <2>1 DEF IInv, LocksExclude
<1> QED BY <1>1, <1>2, <1>3, <1>4, <1>5 DEF IInv

-----------------------------------------------------------------------------
(* The theorems *)

LEMMA HandlerKeeps ==
  ASSUME IInv, NEW t \in Threads, HandlerNext(t)
  PROVE  IInv'
<1>1. TypeOK BY DEF IInv
<1>2. UNCHANGED presence => presence' \in [Drivers -> Presence] BY <1>1 DEF TypeOK
<1>3. CASE BeginBrowse(t) BY <1>3, BeginKeeps DEF BeginBrowse
<1>4. ASSUME NEW q \in Requests, BeginCreate(t, q) PROVE IInv'
  BY <1>4, BeginKeeps DEF BeginCreate
<1>5. ASSUME NEW q \in Requests, BeginCancel(t, q) PROVE IInv'
  BY <1>5, BeginKeeps DEF BeginCancel
<1>6. ASSUME NEW q \in Requests, NEW d \in Drivers, BeginAccept(t, q, d) PROVE IInv'
  BY <1>6, BeginKeeps DEF BeginAccept
<1>7. CASE ListExpirable(t) BY <1>7, ListKeeps
<1>8. CASE UpdateExpired(t) BY <1>8, UpdateKeeps
<1>9. CASE CommitExpired(t) BY <1>9, ExpireKeeps
<1>10. CASE EndBrowse(t)
  <2>1. presence' \in [Drivers -> Presence] BY <1>1, <1>10 DEF EndBrowse, MarkOffline, TypeOK, Presence
  <2> QED BY <1>10, <2>1, ReturnKeeps DEF EndBrowse
<1>11. CASE CheckNoOpenRequest(t)
  <2>1. CASE Return(t) BY <1>2, <1>11, <2>1, ReturnKeeps DEF CheckNoOpenRequest
  <2>2. CASE Goto(t, "write")
    <3>1. session[t] # Idle /\ session[t].op = "create" BY <1>11 DEF CheckNoOpenRequest, At
    <3>2. UNCHANGED <<request, presence, trips>> BY <1>11 DEF CheckNoOpenRequest
    <3>3. session[t].op # "accept" BY <3>1
    <3> QED BY <2>2, <3>1, <3>2, <3>3, GotoKeeps
  <2> QED BY <1>11, <2>1, <2>2 DEF CheckNoOpenRequest
<1>12. CASE CommitCreate(t) BY <1>12, CreateKeeps
<1>13. CASE RefuseCancel(t) BY <1>2, <1>13, ReturnKeeps DEF RefuseCancel
<1>14. CASE CommitCancel(t) BY <1>14, CancelKeeps
<1>15. CASE CheckPresence(t)
  <2>1. session[t] # Idle BY <1>15 DEF CheckPresence, At
  <2>2. CASE Goto(t, "lock") /\ UNCHANGED presence
    BY <1>15, <2>1, <2>2, GotoKeeps DEF CheckPresence
  <2>3. CASE MarkOffline(session[t].driver) /\ Return(t)
    <3>1. presence' \in [Drivers -> Presence] BY <1>1, <2>3 DEF MarkOffline, TypeOK, Presence
    <3> QED BY <1>15, <2>3, <3>1, ReturnKeeps DEF CheckPresence
  <2> QED BY <1>15, <2>2, <2>3 DEF CheckPresence
<1>16. CASE LockRequest(t) BY <1>16, LockKeeps
<1>17. CASE CommitMatch(t) BY <1>17, MatchKeeps
<1>18. CASE Abort(t) BY <1>2, <1>18, ReturnKeeps DEF Abort
<1> QED BY <1>3, <1>4, <1>5, <1>6, <1>7, <1>8, <1>9, <1>10, <1>11, <1>12, <1>13, <1>14,
           <1>15, <1>16, <1>17, <1>18 DEF HandlerNext

LEMMA NextKeeps == IInv /\ [Next]_vars => IInv'
<1> SUFFICES ASSUME IInv, [Next]_vars PROVE IInv' OBVIOUS
<1>1. TypeOK BY DEF IInv
<1>2. ASSUME NEW t \in Threads, HandlerNext(t) PROVE IInv' BY <1>2, HandlerKeeps
<1>3. ASSUME NEW d \in Drivers, PresenceNext(d) PROVE IInv'
  <2>1. presence' \in [Drivers -> Presence] /\ UNCHANGED <<request, trips, session>>
    BY <1>1, <1>3 DEF PresenceNext, UpsertDriverPresence, TouchDriverPresence,
       GetDriverPresence, CleanupPresence, PresenceGoesStale, SetPresence, TypeOK, Presence
  <2>2. request' \in [Requests -> RequestRow] BY <1>1, <2>1 DEF TypeOK
  <2> QED BY <2>1, <2>2, HandlersStay
<1>4. ASSUME NEW q \in Requests, DepartureTimePasses(q) PROVE IInv'
  <2>1. UNCHANGED <<presence, trips, session>> BY <1>4 DEF DepartureTimePasses
  <2>2. presence' \in [Drivers -> Presence] BY <1>1, <2>1 DEF TypeOK
  <2>3. \A p \in Requests : request[p] \in RequestRow BY <1>1 DEF TypeOK
  <2>4. \A p \in Requests :
          request'[p] = IF p = q THEN [request[p] EXCEPT !.due = TRUE] ELSE request[p]
    BY <1>1, <1>4 DEF DepartureTimePasses, TypeOK
  <2>5. \A p \in Requests : /\ request'[p].status = request[p].status
                            /\ request'[p].driver = request[p].driver
                            /\ request'[p] \in RequestRow
    BY <2>3, <2>4 DEF RequestRow
  <2>6. request' \in [Requests -> RequestRow]
    BY <1>1, <1>4, <2>5 DEF DepartureTimePasses, TypeOK
  <2> QED BY <2>1, <2>2, <2>5, <2>6, HandlersStay
<1>5. CASE UNCHANGED vars
  <2>1. UNCHANGED <<request, presence, trips, session>> BY <1>5 DEF vars
  <2>2. presence' \in [Drivers -> Presence] /\ request' \in [Requests -> RequestRow]
    BY <1>1, <2>1 DEF TypeOK
  <2> QED BY <2>1, <2>2, HandlersStay
<1> QED BY <1>2, <1>3, <1>4, <1>5 DEF Next

LEMMA InitHolds == Init => IInv
<1> SUFFICES ASSUME Init PROVE IInv OBVIOUS
<1>1. TypeOK BY DEF Init, TypeOK, RequestRow, Presence, Closed
<1>2. OneTripPerMatch /\ Undriven BY DEF Init, OneTripPerMatch, Undriven
<1>3. \A t \in Threads : session[t] = Idle BY DEF Init
<1>4. HasDriver /\ LockedIsOpen BY <1>3 DEF HasDriver, LockedIsOpen, At
<1>5. LocksExclude BY <1>3 DEF LocksExclude, Rows
<1> QED BY <1>1, <1>2, <1>4, <1>5 DEF IInv

\* Locks exclude each other, a locked request stays open, and the rows name the
\* trips, in every reachable state.
THEOREM InductiveInvariant == Spec => []IInv
BY InitHolds, NextKeeps, PTL DEF Spec

\* Rows and handlers are well typed; a matched request names its driver.
THEOREM TypeCorrect == Spec => []TypeOK
<1>1. IInv => TypeOK BY DEF IInv
<1> QED BY <1>1, InductiveInvariant, PTL

\* accept_request has a single winner: a request has at most one trip, and it is
\* the one of the driver the row names.
THEOREM SingleWinner == Spec => []OneTripPerMatch
<1>1. IInv => OneTripPerMatch BY DEF IInv
<1> QED BY <1>1, InductiveInvariant, PTL

\* accept_request creates a trip only for a request that is still open then.
THEOREM TripsForOpenRequests == Spec => TripForOpenRequest
<1> DEFINE Step == \A q \in Requests, d \in Drivers :
                     <<q, d>> \in trips' /\ <<q, d>> \notin trips => request[q].status = "open"
<1>1. IInv /\ [Next]_vars => [Step]_vars
  <2> SUFFICES ASSUME IInv, [Next]_vars, NEW q \in Requests, NEW d \in Drivers,
                      <<q, d>> \in trips', <<q, d>> \notin trips
               PROVE  request[q].status = "open"
    OBVIOUS
  <2>1. trips' # trips OBVIOUS
  <2>2. PICK t \in Threads : HandlerNext(t)
    BY <2>1 DEF Next, vars, PresenceNext, UpsertDriverPresence, TouchDriverPresence,
       GetDriverPresence, CleanupPresence, PresenceGoesStale, SetPresence, DepartureTimePasses
  <2>3. CommitMatch(t)
    BY <2>1, <2>2 DEF HandlerNext, BeginBrowse, BeginCreate, BeginCancel, BeginAccept, Begin,
       ListExpirable, UpdateExpired, CommitExpired, EndBrowse, CheckNoOpenRequest, CommitCreate,
       RefuseCancel, CommitCancel, CheckPresence, LockRequest, Abort
  <2>4. At(t, "accept", "write") /\ trips' = trips \cup {<<session[t].request, session[t].driver>>}
    BY <2>3 DEF CommitMatch
  <2>5. q = session[t].request BY <2>4
  <2> QED BY <2>4, <2>5 DEF IInv, LockedIsOpen
<1> QED BY <1>1, InductiveInvariant, PTL DEF Spec, TripForOpenRequest
=============================================================================
