----------------------------- MODULE Dashboard -----------------------------
(***************************************************************************)
(* From the status of the chains to what a person reads on the dashboard:  *)
(* the goroutine of td2/dashboard/server.go, one page of static/status.js  *)
(* with its canvas (grid.js), and the service worker between the page and  *)
(* the server (sw.js).                                                     *)
(*                                                                         *)
(* The server keeps the latest status of each chain and, at most once a    *)
(* second, broadcasts all of them.  A page asks for them once, when it is  *)
(* loaded, and from then on lives on broadcasts.  A broadcast may miss it: *)
(* its listener is busy, its connection is down, or it is hidden.          *)
(*                                                                         *)
(* A status is the number of the update that brought it; 0 is no status.   *)
(* asked and told are history variables: no action reads them.             *)
(***************************************************************************)
EXTENDS Naturals, Sequences

CONSTANTS
  Chains,      \* the configured chains, by name
  Network,     \* chain -> its `network` setting
  Title,       \* update -> the alert that it reports, or NoTitle
  NoTitle,     \* the title of a row that shows no alert
  MaxUpdates,  \* bound: updates that the chains send
  MaxWire,     \* bound: broadcasts on their way to the page
  MaxRequests  \* bound: requests for the state under way at one time

Networks == {"mainnet", "testnet", "unset"}

Tabs == {"all", "mainnet", "testnet"}

Updates == 1..MaxUpdates

ASSUME DashboardAssumption ==
  /\ MaxUpdates \in Nat \ {0}
  /\ MaxWire \in Nat \ {0}
  /\ MaxRequests \in Nat
  /\ Network \in [Chains -> Networks]
  /\ DOMAIN Title = Updates

Snapshots == [Chains -> 0..MaxUpdates]

\* statusCache before the first update is "{}".
Empty == [c \in Chains |-> 0]

Slots == 1..MaxRequests

VARIABLES
  cached,    \* statusCache: the latest status of each chain
  update,    \* something has arrived since the last broadcast
  count,     \* the number of updates so far
  link,      \* the page's websocket is open
  wire,      \* broadcasts the page has still to handle, oldest first
  hidden,    \* the page is in the background
  tab,       \* currentTab
  data,      \* allStatus
  rows,      \* chain -> its row of the table
  note,      \* what else the table holds: skeleton rows, "No chains found."
  grid,      \* the statuses drawn on the canvas
  request,   \* slot -> a request for the state
  worker,    \* a service worker controls the page
  stored,    \* the worker's cached response for the state
  asked,     \* history: what the server had when the page was loaded
  told       \* history: the page has, or is about to get, the last broadcast

serverVars == <<cached, update, count>>
wireVars == <<link, wire>>
viewVars == <<rows, note, grid>>
pageVars == <<hidden, tab, data, viewVars>>
workerVars == <<request, worker, stored>>
historyVars == <<asked, told>>
vars == <<serverVars, wireVars, pageVars, workerVars, historyVars>>

NoRow == [n |-> 0, flag |-> FALSE, title |-> NoTitle]

NoRows == [c \in Chains |-> NoRow]

Unused == [pc |-> "unused", page |-> FALSE, store |-> FALSE, val |-> Empty]

NotStored == [hit |-> FALSE, val |-> Empty]

\* The first load: no service worker yet, the request is under way.
Init ==
  /\ cached = Empty /\ update = FALSE /\ count = 0
  /\ link = FALSE /\ wire = <<>>
  /\ hidden = FALSE /\ tab = "all" /\ data = Empty
  /\ rows = NoRows /\ note = "skeleton" /\ grid = Empty
  /\ request = [i \in Slots |->
                  IF i = 1 THEN [Unused EXCEPT !.pc = "asked", !.page = TRUE]
                  ELSE Unused]
  /\ worker = FALSE /\ stored = NotStored
  /\ asked = Empty /\ told = FALSE
-----------------------------------------------------------------------------
(* The server's goroutine *)

IsEmpty(s) == s = Empty

UpdateQuiet(c) ==            \* a bug: only a new chain is worth a broadcast
  /\ count < MaxUpdates
  /\ count' = count + 1
  /\ cached' = [cached EXCEPT ![c] = count + 1]
  /\ update' = (update \/ cached[c] = 0)
  /\ UNCHANGED <<wireVars, pageVars, workerVars, historyVars>>

\* A status arrives from updateChan: the map, the cached JSON, the flag.
Update(c) ==
  /\ count < MaxUpdates
  /\ count' = count + 1
  /\ cached' = [cached EXCEPT ![c] = count + 1]
  /\ update' = TRUE
  /\ UNCHANGED <<wireVars, pageVars, workerVars, historyVars>>

\* The ticker of one second.  The error of Send is dropped and the flag reset
\* whether or not the page's listener took the message.
Tick ==
  /\ update /\ update' = FALSE
  /\ \/ /\ link /\ Len(wire) < MaxWire
        /\ wire' = Append(wire, cached) /\ told' = TRUE
     \/ wire' = wire /\ told' = FALSE
  /\ UNCHANGED <<cached, count, link, pageVars, workerVars, asked>>

\* The process ends and starts again with nothing cached; every connection
\* is lost, a request that had not been answered fails.
Restart ==
  /\ ~IsEmpty(cached)
  /\ cached' = Empty /\ update' = FALSE
  /\ link' = FALSE /\ wire' = <<>>
  /\ request' = [i \in Slots |-> IF request[i].pc = "asked" THEN Unused
                                 ELSE request[i]]
  /\ told' = FALSE
  /\ UNCHANGED <<count, pageVars, worker, stored, asked>>

-----------------------------------------------------------------------------
(* The page *)

\* groupByNetwork and getFilteredStatus.
Filtered(d, t) ==
  [c \in Chains |-> IF t = "all" \/ Network[c] = t THEN d[c] ELSE 0]

\* A new row for update n; hasAlert and alertTitle.
NewRow(n) == [n |-> n, flag |-> Title[n] # NoTitle, title |-> Title[n]]

\* An existing row: everything is compared and set, but the icon with its
\* title only when an alert comes or goes.
ChangedRow(row, n) ==
  IF row.flag = NewRow(n).flag THEN [NewRow(n) EXCEPT !.title = row.title]
  ELSE NewRow(n)

RowsAfterKeeping(old, f) ==  \* a bug: rows of chains that are gone stay
  [c \in Chains |->
     IF f[c] = 0 THEN old[c]
     ELSE IF old[c].n = 0 THEN NewRow(f[c]) ELSE ChangedRow(old[c], f[c])]

\* The rows are keyed by the chain's name; those of other chains are removed.
RowsAfter(old, f) ==
  [c \in Chains |->
     IF f[c] = 0 THEN NoRow
     ELSE IF old[c].n = 0 THEN NewRow(f[c]) ELSE ChangedRow(old[c], f[c])]

\* refreshView with statuses d on tab t, the table holding oldRows and
\* oldNote: updateTableStable, drawSeries.  Both begin with an early return
\* when no chain passes the filter; the canvas then keeps what it had.
RefreshView(d, t, oldRows, oldNote) ==
  LET f == Filtered(d, t)
      empty == IsEmpty(f)
  IN
  IF IsEmpty(d) THEN rows' = oldRows /\ note' = oldNote /\ grid' = grid
  ELSE /\ rows' = RowsAfter(oldRows, f)
       /\ note' = IF empty THEN "none found"
                  ELSE IF oldNote = "skeleton" THEN "nothing" ELSE oldNote
       /\ grid' = IF empty THEN grid ELSE f

\* A broadcast: every message carries all chains.
OnMessage ==
  /\ wire # <<>>
  /\ wire' = Tail(wire)
  /\ IF hidden
     THEN /\ told' = (told /\ Len(wire) > 1)
          /\ UNCHANGED <<data, viewVars>>
     ELSE /\ data' = Head(wire)
          /\ RefreshView(Head(wire), tab, rows, note)
          /\ UNCHANGED told
  /\ UNCHANGED <<serverVars, link, hidden, tab, workerVars, asked>>

\* The connection breaks; connect is called again after three seconds, and
\* asks for nothing.
OnClose ==
  /\ link
  /\ link' = FALSE /\ wire' = <<>>
  /\ told' = (told /\ wire = <<>>)
  /\ UNCHANGED <<serverVars, pageVars, workerVars, asked>>

Connect ==
  /\ ~link
  /\ link' = TRUE
  /\ UNCHANGED <<serverVars, wire, pageVars, workerVars, historyVars>>

ToggleHidden ==
  /\ hidden' = ~hidden
  /\ UNCHANGED <<serverVars, wireVars, tab, data, viewVars, workerVars,
                 historyVars>>

\* The table is emptied before it is filled for the new tab.
SwitchTab(t) ==
  /\ tab # t
  /\ tab' = t
  /\ RefreshView(data, t, NoRows, "nothing")
  /\ UNCHANGED <<serverVars, wireVars, hidden, data, workerVars, historyVars>>

ResizeUnfiltered ==          \* a bug: draws the chains of every tab
  /\ ~IsEmpty(data) /\ ~IsEmpty(Filtered(data, tab))
  /\ grid' = data
  /\ UNCHANGED <<serverVars, wireVars, hidden, tab, data, rows, note,
                 workerVars, historyVars>>

\* The window is resized: the canvas is drawn again, nothing else.
Resize ==
  /\ ~IsEmpty(data) /\ ~IsEmpty(Filtered(data, tab))
  /\ grid' = Filtered(data, tab)
  /\ UNCHANGED <<serverVars, wireVars, hidden, tab, data, rows, note,
                 workerVars, historyVars>>

-----------------------------------------------------------------------------
(* Requests for the state: loadState, the service worker, the handler *)

AbandonedNever ==            \* a bug: the old page goes on listening
  request

\* The requests that outlive the page: those whose answer the worker stores.
Abandoned ==
  [i \in Slots |-> IF request[i].store THEN [request[i] EXCEPT !.page = FALSE]
                   ELSE Unused]

\* The page is loaded anew and asks for the state.  Without a worker the
\* request goes to the server.  With one, it does too unless a response is
\* cached: then that one is the answer, and another request refreshes the
\* cache behind it.
Load ==
  LET free == {i \in Slots : Abandoned[i].pc = "unused"}
      hit == worker /\ stored.hit
  IN
  /\ \E i, j \in free :
       /\ hit <=> i # j
       /\ request' = [k \in Slots |->
            IF k = i
            THEN [pc |-> IF hit THEN "answered" ELSE "asked", page |-> TRUE,
                  store |-> worker /\ ~hit,
                  val |-> IF hit THEN stored.val ELSE Empty]
            ELSE IF k = j
            THEN [Unused EXCEPT !.pc = "asked", !.store = TRUE]
            ELSE Abandoned[k]]
  /\ link' = FALSE /\ wire' = <<>>
  /\ tab' = "all" /\ data' = Empty
  /\ rows' = NoRows /\ note' = "skeleton" /\ grid' = Empty
  /\ asked' = cached /\ told' = FALSE
  /\ UNCHANGED <<serverVars, hidden, worker, stored>>

\* The handler of /state writes the cached JSON.
Serve(i) ==
  /\ request[i].pc = "asked"
  /\ request' = [request EXCEPT ![i].pc = "answered", ![i].val = cached]
  /\ UNCHANGED <<serverVars, wireVars, pageVars, worker, stored, historyVars>>

\* The request fails, or its answer is torn by the write of statusCache that
\* it is not locked against; the page logs it and does not ask again.
Fail(i) ==
  /\ request[i].pc = "asked"
  /\ request' = [request EXCEPT ![i] = Unused]
  /\ UNCHANGED <<serverVars, wireVars, pageVars, worker, stored, historyVars>>

\* loadState takes an answer that has a Status, whatever it has by then.
Loaded(val) ==
  IF IsEmpty(val) THEN UNCHANGED <<data, viewVars, told>>
  ELSE /\ data' = val
       /\ RefreshView(val, tab, rows, note)
       /\ told' = (told /\ (val = cached \/ wire # <<>>))

\* An answer arrives: the worker stores it, the page uses it.
Return(i) ==
  /\ request[i].pc = "answered"
  /\ request' = [request EXCEPT ![i] = Unused]
  /\ stored' = IF request[i].store THEN [hit |-> TRUE, val |-> request[i].val]
               ELSE stored
  /\ IF request[i].page THEN Loaded(request[i].val)
     ELSE UNCHANGED <<data, viewVars, told>>
  /\ UNCHANGED <<serverVars, wireVars, hidden, tab, worker, asked>>

\* The worker is registered, or replaced by one with another CACHE_NAME: it
\* takes over the page, and deletes every other cache.
Activate ==
  /\ ~worker \/ stored.hit
  /\ worker' = TRUE /\ stored' = NotStored
  /\ UNCHANGED <<serverVars, wireVars, pageVars, request, historyVars>>

-----------------------------------------------------------------------------
Next ==
  \/ \E c \in Chains : Update(c)
  \/ Tick \/ Restart
  \/ OnMessage \/ OnClose \/ Connect
  \/ ToggleHidden \/ Resize \/ \E t \in Tabs : SwitchTab(t)
  \/ Load \/ Activate
  \/ \E i \in Slots : Serve(i) \/ Fail(i) \/ Return(i)

Spec == Init /\ [][Next]_vars

-----------------------------------------------------------------------------
(* Properties *)

Titles == {Title[n] : n \in Updates} \cup {NoTitle}

Notes == {"skeleton", "nothing", "none found"}

RowsOf == [n : 0..MaxUpdates, flag : BOOLEAN, title : Titles]

Requests == [pc : {"unused", "asked", "answered"}, page : BOOLEAN,
             store : BOOLEAN, val : Snapshots]

ServerOK == cached \in Snapshots /\ update \in BOOLEAN /\ count \in 0..MaxUpdates

WireOK == link \in BOOLEAN /\ wire \in Seq(Snapshots) /\ Len(wire) <= MaxWire

PageOK ==
  /\ hidden \in BOOLEAN /\ tab \in Tabs /\ data \in Snapshots
  /\ rows \in [Chains -> RowsOf] /\ note \in Notes /\ grid \in Snapshots

RequestsOK ==
  /\ request \in [Slots -> Requests]
  /\ \A i \in Slots : request[i].pc = "unused" => request[i] = Unused
  /\ \A i, j \in Slots : request[i].page /\ request[j].page => i = j

WorkerOK == worker \in BOOLEAN /\ stored \in [hit : BOOLEAN, val : Snapshots]

HistoryOK == asked \in Snapshots /\ told \in BOOLEAN

\* Besides types: only one request is the page's, and a request that is over
\* leaves nothing behind.
TypeOK == ServerOK /\ WireOK /\ PageOK /\ RequestsOK /\ WorkerOK /\ HistoryOK

\* The table r shows the statuses f.
Shows(r, f) ==
  \A c \in Chains :
    /\ r[c].n = f[c]
    /\ f[c] # 0 => r[c].flag = (Title[f[c]] # NoTitle)
    /\ f[c] = 0 => r[c] = NoRow

\* The table, which is never built anew but changed in place, has a row for
\* each chain of the tab and no other, with that chain's latest status and an
\* alert icon exactly when it has an alert.  What the icon's title says is
\* left out: it stays when one alert takes the place of another.
TableShowsData == ~IsEmpty(data) => Shows(rows, Filtered(data, tab))

\* The canvas shows what the table shows, unless the tab has no chains.
GridShowsData ==
  LET f == Filtered(data, tab) IN IsEmpty(f) \/ grid = f

\* Whatever a page has missed before (broadcasts while it was hidden, while it
\* reconnected, or dropped by a busy listener), the next broadcast that it
\* handles makes up for all of it: a page that was told of the last one has
\* exactly what the server has.
PageShowsLatest == (told /\ wire = <<>> /\ ~update) => data = cached

\* sw.js:52, "For API requests and dynamic data, always go network first": the
\* state that a page is given after a load is not older than what the server
\* had when the page asked for it.
StateNetworkFirst ==
  \A i \in Slots, c \in Chains :
    (request[i].page /\ request[i].pc = "answered" /\ request[i].val[c] # 0)
      => request[i].val[c] >= asked[c]
=============================================================================
