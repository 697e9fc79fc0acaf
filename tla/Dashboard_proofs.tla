-------------------------- MODULE Dashboard_proofs --------------------------
(***************************************************************************)
(* Type correctness of the dashboard, that the table and the canvas show   *)
(* what the page holds, and that the last broadcast handled makes up for   *)
(* all that were missed: for any chains, updates and requests.             *)
(***************************************************************************)
EXTENDS Dashboard, SequenceTheorems, TLAPS

\* Lemma: the empty snapshot and an unused request are what TypeOK expects.
LEMMA DashboardConstants ==
  /\ Empty \in Snapshots /\ NoRows \in [Chains -> RowsOf]
  /\ Unused \in Requests /\ NotStored \in [hit : BOOLEAN, val : Snapshots]
  /\ "all" \in Tabs
BY DashboardAssumption DEF DashboardAssumption, Empty, Snapshots, NoRows, NoRow, RowsOf,
     Titles, Unused, Requests, NotStored, Tabs

\* Lemma: the empty wire is one.
LEMMA EmptyWire == MaxWire \in Nat /\ <<>> \in Seq(Snapshots) /\ Len(<<>>) <= MaxWire
<1>1. MaxWire \in Nat
  BY DashboardAssumption DEF DashboardAssumption
<1>. QED BY <1>1

\* Lemma: taking the oldest broadcast, and adding one.
LEMMA WireSteps ==
  ASSUME WireOK
  PROVE  /\ wire # <<>> => Head(wire) \in Snapshots
         /\ wire # <<>> => Tail(wire) \in Seq(Snapshots) /\ Len(Tail(wire)) <= MaxWire
         /\ \A s \in Snapshots : Len(wire) < MaxWire =>
              Append(wire, s) \in Seq(Snapshots) /\ Len(Append(wire, s)) <= MaxWire
<1>1. wire \in Seq(Snapshots) /\ Len(wire) \in Nat /\ Len(wire) <= MaxWire /\ MaxWire \in Nat
  BY EmptyWire DEF WireOK
<1>2. ASSUME wire # <<>>
      PROVE  /\ Head(wire) \in Snapshots
             /\ Tail(wire) \in Seq(Snapshots) /\ Len(Tail(wire)) = Len(wire) - 1
  BY <1>1, <1>2
<1>3. ASSUME NEW s \in Snapshots
      PROVE  Append(wire, s) \in Seq(Snapshots) /\ Len(Append(wire, s)) = Len(wire) + 1
  BY <1>1, <1>3
<1>. QED BY <1>1, <1>2, <1>3

\* Lemma: the filter of a tab leaves a snapshot.
LEMMA FilteredType ==
  ASSUME NEW d \in Snapshots, NEW t
  PROVE  Filtered(d, t) \in Snapshots
BY DashboardAssumption DEF DashboardAssumption, Filtered, Snapshots

\* Lemma: a new and a changed row are rows.
LEMMA RowTypes ==
  ASSUME NEW row \in RowsOf, NEW n \in Updates
  PROVE  NewRow(n) \in RowsOf /\ ChangedRow(row, n) \in RowsOf
BY DashboardAssumption DEF DashboardAssumption, NewRow, ChangedRow, RowsOf, Titles, Updates

\* Lemma: updateTableStable leaves rows.
LEMMA RowsAfterType ==
  ASSUME NEW old \in [Chains -> RowsOf], NEW f \in Snapshots
  PROVE  RowsAfter(old, f) \in [Chains -> RowsOf]
<1> SUFFICES ASSUME NEW c \in Chains PROVE RowsAfter(old, f)[c] \in RowsOf
  BY DEF RowsAfter
<1>1. CASE f[c] = 0
  BY <1>1, DashboardConstants DEF RowsAfter, NoRows
<1>2. CASE f[c] # 0
  <2>1. f[c] \in Updates
    BY <1>2, DashboardAssumption DEF DashboardAssumption, Snapshots, Updates
  <2>. QED BY <2>1, <1>2, RowTypes DEF RowsAfter
<1>. QED BY <1>1, <1>2

\* Lemma: whatever the table held, updateTableStable makes it show f.
LEMMA RowsAfterShows ==
  ASSUME NEW old \in [Chains -> RowsOf], NEW f \in Snapshots
  PROVE  Shows(RowsAfter(old, f), f)
<1> SUFFICES ASSUME NEW c \in Chains
             PROVE  LET r == RowsAfter(old, f)
                    IN  /\ r[c].n = f[c]
                        /\ f[c] # 0 => r[c].flag = (Title[f[c]] # NoTitle)
                        /\ f[c] = 0 => r[c] = NoRow
  BY DEF Shows
<1>1. CASE f[c] = 0
  BY <1>1 DEF RowsAfter, NoRow
<1>2. CASE f[c] # 0 /\ old[c].n = 0
  BY <1>2 DEF RowsAfter, NewRow
<1>3. CASE f[c] # 0 /\ old[c].n # 0
  <2>1. RowsAfter(old, f)[c] = ChangedRow(old[c], f[c])
    BY <1>3 DEF RowsAfter
  <2>2. ChangedRow(old[c], f[c]).n = f[c]
    BY DEF ChangedRow, NewRow
  <2>3. ChangedRow(old[c], f[c]).flag = (Title[f[c]] # NoTitle)
    BY DEF ChangedRow, NewRow
  <2>. QED BY <2>1, <2>2, <2>3, <1>3
<1>. QED BY <1>1, <1>2, <1>3

\* Lemma: an empty allStatus has nothing on any tab.
LEMMA FilteredEmpty ==
  ASSUME NEW d, IsEmpty(d), NEW t
  PROVE  IsEmpty(Filtered(d, t))
BY DEF IsEmpty, Filtered, Empty

\* Lemma: refreshView leaves a table and a canvas.
LEMMA RefreshType ==
  ASSUME NEW d \in Snapshots, NEW t \in Tabs, NEW old \in [Chains -> RowsOf],
         NEW oldNote \in Notes, grid \in Snapshots,
         RefreshView(d, t, old, oldNote)
  PROVE  rows' \in [Chains -> RowsOf] /\ note' \in Notes /\ grid' \in Snapshots
<1>1. CASE IsEmpty(d)
  BY <1>1 DEF RefreshView
<1>2. CASE ~IsEmpty(d)
  <2>1. Filtered(d, t) \in Snapshots
    BY FilteredType
  <2>2. RowsAfter(old, Filtered(d, t)) \in [Chains -> RowsOf]
    BY <2>1, RowsAfterType
  <2>. QED BY <1>2, <2>1, <2>2 DEF RefreshView, Notes
<1>. QED BY <1>1, <1>2

\* Lemma: after refreshView the table and the canvas show the statuses.
LEMMA RefreshShows ==
  ASSUME NEW d \in Snapshots, NEW t \in Tabs, NEW old \in [Chains -> RowsOf],
         NEW oldNote \in Notes, RefreshView(d, t, old, oldNote)
  PROVE  /\ ~IsEmpty(d) => Shows(rows', Filtered(d, t))
         /\ IsEmpty(Filtered(d, t)) \/ grid' = Filtered(d, t)
<1>1. CASE IsEmpty(d)
  BY <1>1, FilteredEmpty
<1>2. CASE ~IsEmpty(d)
  <2>1. Shows(RowsAfter(old, Filtered(d, t)), Filtered(d, t))
    BY FilteredType, RowsAfterShows
  <2>. QED BY <1>2, <2>1 DEF RefreshView
<1>. QED BY <1>1, <1>2

-----------------------------------------------------------------------------

\* Lemma: loadState keeps the page's types.
LEMMA LoadedType ==
  ASSUME PageOK, told \in BOOLEAN, NEW val \in Snapshots, Loaded(val),
         hidden' = hidden, tab' = tab
  PROVE  PageOK' /\ told' \in BOOLEAN
<1>1. CASE IsEmpty(val)
  BY <1>1 DEF Loaded, PageOK, viewVars
<1>2. CASE ~IsEmpty(val)
  <2>1. /\ RefreshView(val, tab, rows, note) /\ data' = val
        /\ told' = (told /\ (val = cached \/ wire # <<>>))
    BY <1>2 DEF Loaded
  <2>2. rows' \in [Chains -> RowsOf] /\ note' \in Notes /\ grid' \in Snapshots
    BY <2>1, RefreshType DEF PageOK
  <2>. QED BY <2>1, <2>2 DEF PageOK
<1>. QED BY <1>1, <1>2

\* Lemma: the requests that outlive a page are requests, none of them its own.
LEMMA AbandonedType ==
  ASSUME RequestsOK
  PROVE  /\ Abandoned \in [Slots -> Requests]
         /\ \A i \in Slots : ~Abandoned[i].page
         /\ \A i \in Slots : Abandoned[i].pc = "unused" => Abandoned[i] = Unused
<1> SUFFICES ASSUME NEW i \in Slots
             PROVE  /\ Abandoned[i] \in Requests
                    /\ ~Abandoned[i].page
                    /\ Abandoned[i].pc = "unused" => Abandoned[i] = Unused
  BY DEF Abandoned
<1>1. request[i] \in Requests /\ (request[i].pc = "unused" => request[i] = Unused)
  BY DEF RequestsOK
<1>2. CASE request[i].store
  <2>1. Abandoned[i] = [request[i] EXCEPT !.page = FALSE]
    BY <1>2 DEF Abandoned
  <2>2. request[i].pc # "unused"
    BY <1>1, <1>2 DEF Unused
  <2>. QED BY <1>1, <2>1, <2>2 DEF Requests
<1>3. CASE ~request[i].store
  <2>1. Abandoned[i] = Unused
    BY <1>3 DEF Abandoned
  <2>. QED BY <2>1, DashboardConstants DEF Unused
<1>. QED BY <1>2, <1>3

\* Lemma: an update changes what the server has.
LEMMA UpdateType ==
  ASSUME ServerOK, NEW c \in Chains, Update(c)
  PROVE  ServerOK'
<1>1. count + 1 \in 0..MaxUpdates
  BY DashboardAssumption DEF DashboardAssumption, Update, ServerOK
<1>2. cached' \in Snapshots
  BY <1>1 DEF Update, ServerOK, Snapshots
<1>. QED BY <1>1, <1>2 DEF Update, ServerOK

\* Lemma: a new load adds one request of the page, and one behind it if the
\* worker has an answer.
LEMMA LoadRequests ==
  ASSUME RequestsOK, WorkerOK, Load
  PROVE  RequestsOK'
<1> DEFINE hit == worker /\ stored.hit
           mine == [pc |-> IF hit THEN "answered" ELSE "asked", page |-> TRUE,
                    store |-> worker /\ ~hit,
                    val |-> IF hit THEN stored.val ELSE Empty]
           behind == [Unused EXCEPT !.pc = "asked", !.store = TRUE]
<1>1. PICK i, j \in Slots :
        request' = [k \in Slots |-> IF k = i THEN mine
                                    ELSE IF k = j THEN behind ELSE Abandoned[k]]
  BY DEF Load
<1>2. mine \in Requests /\ behind \in Requests
  BY DashboardConstants DEF Requests, Unused, WorkerOK
<1>3. mine.pc # "unused" /\ behind.pc # "unused" /\ ~behind.page
  BY DEF Unused
<1> HIDE DEF mine, behind
<1>4. request' \in [Slots -> Requests]
  BY <1>1, <1>2, AbandonedType
<1>5. \A k \in Slots : request'[k].pc = "unused" => request'[k] = Unused
  BY <1>1, <1>3, AbandonedType
<1>6. \A k \in Slots : request'[k].page => k = i
  BY <1>1, <1>3, AbandonedType
<1>. QED BY <1>4, <1>5, <1>6 DEF RequestsOK

\* Lemma: a request that ends or is answered leaves the others alone.
LEMMA RequestEnds ==
  ASSUME RequestsOK, cached \in Snapshots, NEW i \in Slots,
         \/ request' = [request EXCEPT ![i] = Unused]
         \/ /\ request[i].pc = "asked"
            /\ request' = [request EXCEPT ![i].pc = "answered", ![i].val = cached]
  PROVE  RequestsOK'
<1>1. request[i] \in Requests
  BY DEF RequestsOK
<1>2. /\ request'[i] \in Requests
      /\ request'[i].pc = "unused" => request'[i] = Unused
      /\ request'[i].page => request[i].page
  <2>1. CASE request' = [request EXCEPT ![i] = Unused]
    BY <2>1, DashboardConstants DEF RequestsOK, Unused
  <2>2. CASE /\ request[i].pc = "asked"
             /\ request' = [request EXCEPT ![i].pc = "answered", ![i].val = cached]
    <3>1. request'[i] = [request[i] EXCEPT !.pc = "answered", !.val = cached]
      BY <2>2 DEF RequestsOK
    <3>. QED BY <1>1, <3>1 DEF Requests
  <2>. QED BY <2>1, <2>2
<1>3. /\ DOMAIN request' = Slots
      /\ \A k \in Slots \ {i} : request'[k] = request[k]
      /\ request' = [k \in Slots |-> request'[k]]
  BY DEF RequestsOK
<1>4. request' \in [Slots -> Requests]
  BY <1>2, <1>3 DEF RequestsOK
<1>. QED BY <1>2, <1>3, <1>4 DEF RequestsOK

\* Lemma: TypeOK is an invariant of the dashboard.
LEMMA TypeStep == TypeOK /\ [Next]_vars => TypeOK'
<1> SUFFICES ASSUME TypeOK, [Next]_vars PROVE TypeOK'
  OBVIOUS
<1> USE DEF TypeOK
<1>1. ASSUME NEW c \in Chains, Update(c) PROVE TypeOK'
  BY <1>1, UpdateType DEF Update, WireOK, PageOK, RequestsOK, WorkerOK, HistoryOK,
     wireVars, pageVars, viewVars, workerVars, historyVars
<1>2. ASSUME Tick PROVE TypeOK'
  <2>1. WireOK'
    BY <1>2, WireSteps DEF Tick, WireOK, ServerOK
  <2>2. told' \in BOOLEAN
    BY <1>2 DEF Tick
  <2>. QED BY <1>2, <2>1, <2>2 DEF Tick, ServerOK, PageOK, RequestsOK, WorkerOK,
           HistoryOK, pageVars, viewVars, workerVars
<1>3. ASSUME Restart PROVE TypeOK'
  <2>1. \A i \in Slots : request'[i] = Unused \/ request'[i] = request[i]
    BY <1>3 DEF Restart
  <2>2. request' \in [Slots -> Requests]
    BY <1>3, DashboardConstants DEF Restart, RequestsOK
  <2>3. RequestsOK'
    BY <2>1, <2>2 DEF RequestsOK, Unused
  <2>4. ServerOK' /\ WireOK'
    BY <1>3, DashboardConstants, EmptyWire DEF Restart, ServerOK, WireOK
  <2>. QED BY <1>3, <2>3, <2>4 DEF Restart, PageOK, WorkerOK, HistoryOK, pageVars, viewVars
<1>4. ASSUME OnMessage PROVE TypeOK'
  <2>1. Head(wire) \in Snapshots /\ WireOK'
    BY <1>4, WireSteps DEF OnMessage, WireOK
  <2>2. PageOK' /\ told' \in BOOLEAN
    <3>1. CASE hidden
      BY <1>4, <3>1 DEF OnMessage, PageOK, HistoryOK, viewVars
    <3>2. CASE ~hidden
      <4>1. /\ RefreshView(Head(wire), tab, rows, note) /\ data' = Head(wire)
            /\ told' = told /\ hidden' = hidden /\ tab' = tab
        BY <1>4, <3>2 DEF OnMessage
      <4>2. rows' \in [Chains -> RowsOf] /\ note' \in Notes /\ grid' \in Snapshots
        BY <2>1, <4>1, RefreshType DEF PageOK
      <4>. QED BY <2>1, <4>1, <4>2 DEF PageOK, HistoryOK
    <3>. QED BY <3>1, <3>2
  <2>. QED BY <1>4, <2>1, <2>2 DEF OnMessage, ServerOK, RequestsOK, WorkerOK, HistoryOK,
           serverVars, workerVars
<1>5. ASSUME OnClose PROVE TypeOK'
  <2>1. WireOK' /\ told' \in BOOLEAN
    BY <1>5, EmptyWire DEF OnClose, WireOK, HistoryOK
  <2>. QED BY <1>5, <2>1 DEF OnClose, ServerOK, PageOK, RequestsOK, WorkerOK, HistoryOK,
           serverVars, pageVars, viewVars, workerVars
<1>6. ASSUME Connect PROVE TypeOK'
  BY <1>6 DEF Connect, ServerOK, WireOK, PageOK, RequestsOK, WorkerOK, HistoryOK,
     serverVars, pageVars, viewVars, workerVars, historyVars
<1>7. ASSUME ToggleHidden PROVE TypeOK'
  BY <1>7 DEF ToggleHidden, ServerOK, WireOK, PageOK, RequestsOK, WorkerOK, HistoryOK,
     serverVars, wireVars, viewVars, workerVars, historyVars
<1>8. ASSUME Resize PROVE TypeOK'
  <2>1. grid' \in Snapshots
    BY <1>8, FilteredType DEF Resize, PageOK
  <2>. QED BY <1>8, <2>1 DEF Resize, ServerOK, WireOK, PageOK, RequestsOK, WorkerOK,
           HistoryOK, serverVars, wireVars, workerVars, historyVars
<1>9. ASSUME NEW t \in Tabs, SwitchTab(t) PROVE TypeOK'
  <2>1. rows' \in [Chains -> RowsOf] /\ note' \in Notes /\ grid' \in Snapshots
    BY <1>9, RefreshType, DashboardConstants DEF SwitchTab, PageOK, Notes
  <2>. QED BY <1>9, <2>1 DEF SwitchTab, ServerOK, WireOK, PageOK, RequestsOK, WorkerOK,
           HistoryOK, serverVars, wireVars, workerVars, historyVars
<1>10. ASSUME Load PROVE TypeOK'
  <2>1. RequestsOK'
    BY <1>10, LoadRequests
  <2>2. PageOK' /\ WireOK' /\ HistoryOK'
    BY <1>10, DashboardConstants, EmptyWire
       DEF Load, PageOK, WireOK, HistoryOK, ServerOK, Notes
  <2>. QED BY <1>10, <2>1, <2>2 DEF Load, ServerOK, WorkerOK, serverVars
<1>11. ASSUME Activate PROVE TypeOK'
  BY <1>11, DashboardConstants DEF Activate, ServerOK, WireOK, PageOK, RequestsOK,
     WorkerOK, HistoryOK, serverVars, wireVars, pageVars, viewVars, historyVars
<1>12. ASSUME NEW i \in Slots, Serve(i) \/ Fail(i) PROVE TypeOK'
  <2>1. RequestsOK'
    BY <1>12, RequestEnds DEF Serve, Fail, ServerOK
  <2>. QED BY <1>12, <2>1 DEF Serve, Fail, ServerOK, WireOK, PageOK, WorkerOK, HistoryOK,
           serverVars, wireVars, pageVars, viewVars, historyVars
<1>13. ASSUME NEW i \in Slots, Return(i) PROVE TypeOK'
  <2>1. RequestsOK'
    BY <1>13, RequestEnds DEF Return, ServerOK
  <2>2. request[i].val \in Snapshots
    BY DEF RequestsOK, Requests
  <2>3. WorkerOK'
    BY <1>13, <2>2 DEF Return, WorkerOK
  <2>4. PageOK' /\ told' \in BOOLEAN
    <3>1. CASE request[i].page
      BY <1>13, <3>1, <2>2, LoadedType DEF Return, HistoryOK
    <3>2. CASE ~request[i].page
      BY <1>13, <3>2 DEF Return, PageOK, HistoryOK, viewVars
    <3>. QED BY <3>1, <3>2
  <2>. QED BY <1>13, <2>1, <2>3, <2>4 DEF Return, ServerOK, WireOK, HistoryOK,
           serverVars, wireVars
<1>14. ASSUME UNCHANGED vars PROVE TypeOK'
  BY <1>14 DEF vars, ServerOK, WireOK, PageOK, RequestsOK, WorkerOK, HistoryOK,
     serverVars, wireVars, pageVars, viewVars, workerVars, historyVars
<1>. QED
  BY <1>1, <1>2, <1>3, <1>4, <1>5, <1>6, <1>7, <1>8, <1>9, <1>10, <1>11,
     <1>12, <1>13, <1>14 DEF Next

\* Theorem: whatever the order of broadcasts, requests and restarts, the state
\* of server, page and service worker has its type, and only one request is
\* the page's own.
THEOREM DashboardTypeCorrect == Spec => []TypeOK
<1>1. Init => TypeOK
  <2> SUFFICES ASSUME Init PROVE TypeOK
    OBVIOUS
  <2>1. ServerOK /\ WireOK /\ PageOK /\ WorkerOK /\ HistoryOK
    <3>1. 0 \in 0..MaxUpdates
      BY DashboardAssumption DEF DashboardAssumption
    <3>. QED BY <3>1, DashboardConstants, EmptyWire
             DEF Init, ServerOK, WireOK, PageOK, WorkerOK, HistoryOK, Notes
  <2>2. RequestsOK
    BY DashboardConstants DEF Init, RequestsOK, Requests, Unused
  <2>. QED BY <2>1, <2>2 DEF TypeOK
<1>. QED BY <1>1, TypeStep, PTL DEF Spec

-----------------------------------------------------------------------------
(* What the page shows *)

View == TableShowsData /\ GridShowsData

\* Lemma: a step that leaves the page's statuses, tab, table and canvas alone
\* leaves what they show alone.
LEMMA ViewUntouched ==
  ASSUME View, UNCHANGED <<tab, data, rows, grid>>
  PROVE  View'
<1>1. Filtered(data, tab)' = Filtered(data, tab)
  BY DEF Filtered
<1>. QED BY <1>1 DEF View, TableShowsData, GridShowsData, Shows, IsEmpty

\* Lemma: a step that refreshes the view with the statuses it leaves behind.
LEMMA ViewRefreshed ==
  ASSUME NEW d \in Snapshots, NEW t \in Tabs, NEW old \in [Chains -> RowsOf],
         NEW oldNote \in Notes, RefreshView(d, t, old, oldNote),
         data' = d, tab' = t
  PROVE  View'
<1>1. Filtered(data, tab)' = Filtered(d, t)
  BY DEF Filtered
<1>2. /\ ~IsEmpty(d) => Shows(rows', Filtered(d, t))
      /\ IsEmpty(Filtered(d, t)) \/ grid' = Filtered(d, t)
  BY RefreshShows
<1>. QED BY <1>1, <1>2 DEF View, TableShowsData, GridShowsData, Shows, IsEmpty

\* Lemma: View is kept by every step.
LEMMA ViewStep == TypeOK /\ View /\ [Next]_vars => View'
<1> SUFFICES ASSUME TypeOK, View, [Next]_vars PROVE View'
  OBVIOUS
<1>1. PageOK
  BY DEF TypeOK
<1>2. ASSUME OnMessage PROVE View'
  <2>1. CASE hidden
    BY <1>2, <2>1, ViewUntouched DEF OnMessage, viewVars
  <2>2. CASE ~hidden
    <3>1. /\ RefreshView(Head(wire), tab, rows, note)
          /\ data' = Head(wire) /\ tab' = tab /\ wire # <<>>
      BY <1>2, <2>2 DEF OnMessage
    <3>2. Head(wire) \in Snapshots
      BY <3>1, WireSteps DEF TypeOK
    <3>. QED BY <1>1, <3>1, <3>2, ViewRefreshed DEF PageOK
  <2>. QED BY <2>1, <2>2
<1>3. ASSUME NEW t \in Tabs, SwitchTab(t) PROVE View'
  BY <1>1, <1>3, DashboardConstants, ViewRefreshed DEF SwitchTab, PageOK, Notes
<1>4. ASSUME Resize PROVE View'
  <2>1. Filtered(data, tab)' = Filtered(data, tab)
    BY <1>4 DEF Resize, Filtered
  <2>. QED BY <1>4, <2>1 DEF Resize, View, TableShowsData, GridShowsData, Shows, IsEmpty
<1>5. ASSUME Load PROVE View'
  <2>1. IsEmpty(data')
    BY <1>5 DEF Load, IsEmpty
  <2>2. IsEmpty(Filtered(data, tab)')
    BY <2>1 DEF IsEmpty, Filtered, Empty
  <2>. QED BY <2>1, <2>2 DEF View, TableShowsData, GridShowsData, IsEmpty
<1>6. ASSUME NEW i \in Slots, Return(i) PROVE View'
  <2>1. tab' = tab /\ request[i].val \in Snapshots
    BY <1>6 DEF Return, TypeOK, RequestsOK, Requests
  <2>2. CASE request[i].page /\ ~IsEmpty(request[i].val)
    <3>1. /\ RefreshView(request[i].val, tab, rows, note)
          /\ data' = request[i].val
      BY <1>6, <2>2 DEF Return, Loaded
    <3>. QED BY <1>1, <2>1, <3>1, ViewRefreshed DEF PageOK
  <2>3. CASE ~(request[i].page /\ ~IsEmpty(request[i].val))
    BY <1>6, <2>3, <2>1, ViewUntouched DEF Return, Loaded, viewVars
  <2>. QED BY <2>2, <2>3
<1>7. ASSUME NEW c \in Chains, Update(c) PROVE View'
  BY <1>7, ViewUntouched DEF Update, pageVars, viewVars
<1>8. ASSUME Tick \/ Restart \/ OnClose \/ Connect \/ ToggleHidden \/ Activate PROVE View'
  BY <1>8, ViewUntouched
     DEF Tick, Restart, OnClose, Connect, ToggleHidden, Activate, pageVars, viewVars
<1>9. ASSUME NEW i \in Slots, Serve(i) \/ Fail(i) PROVE View'
  BY <1>9, ViewUntouched DEF Serve, Fail, pageVars, viewVars
<1>10. ASSUME UNCHANGED vars PROVE View'
  BY <1>10, ViewUntouched DEF vars, pageVars, viewVars
<1>. QED
  BY <1>2, <1>3, <1>4, <1>5, <1>6, <1>7, <1>8, <1>9, <1>10 DEF Next

\* Lemma: the page starts with nothing to show.
LEMMA ViewInit == Init => View
<1> SUFFICES ASSUME Init PROVE View
  OBVIOUS
<1>1. IsEmpty(data) /\ IsEmpty(Filtered(data, tab))
  BY FilteredEmpty DEF Init, IsEmpty
<1>. QED BY <1>1 DEF View, TableShowsData, GridShowsData

\* Theorem: after any sequence of broadcasts, late answers, tab switches,
\* reloads and restarts of the server the table has exactly the rows of the
\* tab's chains, each with its latest status and alert.
THEOREM TableAlwaysShowsData == Spec => []TableShowsData
<1>1. Spec => []TypeOK
  BY DashboardTypeCorrect
<1>2. View => TableShowsData
  BY DEF View
<1>. QED BY <1>1, <1>2, ViewInit, ViewStep, PTL DEF Spec

\* Theorem: the canvas shows the same chains as the table, resizing included.
THEOREM GridAlwaysShowsData == Spec => []GridShowsData
<1>1. Spec => []TypeOK
  BY DashboardTypeCorrect
<1>2. View => GridShowsData
  BY DEF View
<1>. QED BY <1>1, <1>2, ViewInit, ViewStep, PTL DEF Spec

-----------------------------------------------------------------------------
(* How the page catches up *)

\* A page that was told has the last broadcast, or it is the last on the wire;
\* and nothing is newer than it unless an update waits for the ticker.
Told == (told /\ ~update) => IF wire = <<>> THEN data = cached
                             ELSE wire[Len(wire)] = cached

\* Lemma: a step of which neither the server nor the wire nor the page notices.
LEMMA ToldUntouched ==
  ASSUME Told, UNCHANGED <<told, update, wire, data, cached>>
  PROVE  Told'
BY DEF Told

\* Lemma: Told is kept by every step.
LEMMA ToldStep == TypeOK /\ Told /\ [Next]_vars => Told'
<1> SUFFICES ASSUME TypeOK, Told, [Next]_vars PROVE Told'
  OBVIOUS
<1>1. wire \in Seq(Snapshots)
  BY DEF TypeOK, WireOK
<1>2. ASSUME NEW c \in Chains, Update(c) PROVE Told'
  BY <1>2 DEF Update, Told
<1>3. ASSUME Tick PROVE Told'
  <2>1. CASE wire' = Append(wire, cached) /\ cached' = cached
    <3>1. wire' # <<>> /\ wire'[Len(wire')] = cached
      BY <1>1, <2>1
    <3>. QED BY <2>1, <3>1 DEF Told
  <2>2. CASE ~told'
    BY <2>2 DEF Told
  <2>. QED BY <1>3, <2>1, <2>2 DEF Tick
<1>4. ASSUME Restart PROVE Told'
  BY <1>4 DEF Restart, Told
<1>5. ASSUME OnMessage PROVE Told'
  <2>1. wire # <<>> /\ wire' = Tail(wire) /\ cached' = cached /\ update' = update
    BY <1>5 DEF OnMessage, serverVars
  <2>2. CASE Len(wire) = 1
    <3>1. wire' = <<>> /\ Head(wire) = wire[Len(wire)]
      BY <1>1, <2>1, <2>2
    <3>2. CASE hidden
      <4>1. ~(Len(wire) > 1)
        BY <2>2
      <4>2. told' = (told /\ Len(wire) > 1)
        BY <1>5, <3>2 DEF OnMessage
      <4>3. ~told'
        BY <4>1, <4>2
      <4>. QED BY <4>3 DEF Told
    <3>3. CASE ~hidden
      BY <1>5, <2>1, <3>1, <3>3 DEF OnMessage, Told
    <3>. QED BY <3>2, <3>3
  <2>3. CASE Len(wire) # 1
    <3>1. wire' # <<>> /\ wire'[Len(wire')] = wire[Len(wire)]
      <4>0. Len(wire) \in Nat \ {0}
        BY <1>1, <2>1, EmptySeq, Zenon
      <4>1. Len(wire) \in Nat /\ Len(wire) > 1
        BY <4>0, <2>3
      <4>2. Len(wire') = Len(wire) - 1
        BY <1>1, <2>1
      <4>3. \A k \in 1..Len(wire') : wire'[k] = wire[k + 1]
        BY <1>1, <2>1
      <4>4. Len(wire') \in 1..Len(wire') /\ Len(wire') + 1 = Len(wire)
        BY <4>1, <4>2
      <4>. QED BY <4>3, <4>4
    <3>2. told' => told
      BY <1>5 DEF OnMessage
    <3>. QED BY <2>1, <3>1, <3>2 DEF Told
  <2>. QED BY <2>2, <2>3
<1>6. ASSUME OnClose PROVE Told'
  BY <1>6 DEF OnClose, Told, serverVars, pageVars
<1>7. ASSUME Load PROVE Told'
  BY <1>7 DEF Load, Told
<1>8. ASSUME NEW i \in Slots, Return(i) PROVE Told'
  <2>1. UNCHANGED <<wire, cached, update>>
    BY <1>8 DEF Return, serverVars, wireVars
  <2>2. CASE request[i].page /\ ~IsEmpty(request[i].val)
    <3>1. data' = request[i].val /\ told' = (told /\ (request[i].val = cached \/ wire # <<>>))
      BY <1>8, <2>2 DEF Return, Loaded
    <3>. QED BY <2>1, <3>1 DEF Told
  <2>3. CASE ~(request[i].page /\ ~IsEmpty(request[i].val))
    BY <1>8, <2>1, <2>3, ToldUntouched DEF Return, Loaded
  <2>. QED BY <2>2, <2>3
<1>9. ASSUME NEW t \in Tabs, SwitchTab(t) PROVE Told'
  BY <1>9, ToldUntouched DEF SwitchTab, serverVars, wireVars, historyVars
<1>10. ASSUME Connect \/ ToggleHidden \/ Resize \/ Activate PROVE Told'
  BY <1>10, ToldUntouched
     DEF Connect, ToggleHidden, Resize, Activate, serverVars, wireVars, pageVars, historyVars
<1>11. ASSUME NEW i \in Slots, Serve(i) \/ Fail(i) PROVE Told'
  BY <1>11, ToldUntouched DEF Serve, Fail, serverVars, wireVars, pageVars, historyVars
<1>12. ASSUME UNCHANGED vars PROVE Told'
  BY <1>12, ToldUntouched DEF vars, serverVars, wireVars, pageVars, historyVars
<1>. QED
  BY <1>2, <1>3, <1>4, <1>5, <1>6, <1>7, <1>8, <1>9, <1>10, <1>11, <1>12 DEF Next

\* Theorem: however many broadcasts a page has missed, the next one that it
\* handles brings it level with the server.
THEOREM PageAlwaysShowsLatest == Spec => []PageShowsLatest
<1>1. Spec => []TypeOK
  BY DashboardTypeCorrect
<1>2. Init => Told
  BY DEF Init, Told
<1>3. Told => PageShowsLatest
  BY DEF Told, PageShowsLatest
<1>. QED BY <1>1, <1>2, <1>3, ToldStep, PTL DEF Spec
=============================================================================
