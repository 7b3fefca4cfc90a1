------------------------------- MODULE Dashboard -------------------------------
(***************************************************************************)
(* The Qt dashboard, MainWindow, before /api/latest.  A request leaves     *)
(* every three seconds and at every click on the refresh button, whether   *)
(* or not the last was answered, so that answers may overtake each other.  *)
(* An answer replaces latestArray, on which all views are built: the host  *)
(* selector, the cards and charts of the host it names, and one page of    *)
(* the table of hosts.  In between the user selects hosts and turns pages. *)
(* Everything runs on Qt's event loop; the score table behind the          *)
(* interface changes as reports arrive and entries expire.                 *)
(***************************************************************************)
EXTENDS Integers, Sequences, FiniteSets, SequencesExt

CONSTANTS
  Hosts,         \* the hosts that report
  Slots,         \* bound: the requests that may be under way
  PAGE_SIZE,     \* rows of the table of hosts on one page: 5
  MAX_HISTORY,   \* points kept of a host: 60
  MaxReports,    \* bound: how many reports the manager processes
  MaxFailures,   \* bound: how many requests fail
  None           \* no entry, nothing shown

ASSUME DashboardAssumption ==
  /\ IsFiniteSet(Hosts)
  /\ PAGE_SIZE \in Nat \ {0} /\ MAX_HISTORY \in Nat \ {0}
  /\ MaxReports \in Nat /\ MaxFailures \in Nat
  /\ None \notin Nat /\ None \notin Hosts

VARIABLES
  host_scores,   \* the manager's host_scores_: the report of each host's entry
  reports,       \* how many reports the manager has processed
  request,       \* of each slot: "free", "sent", or "answered" and the answer
  failures,      \* how many requests have failed
  latestArray,   \* the last answer: the hosts and their reports, in any order
  hostSelector,  \* its items, and the current one, 0 for none
  currentHost,   \* the host of cards, charts and detail tables
  shown,         \* the values in the cards (and what the next trend badge compares with)
  historyMap,    \* the points of each host, by their reports
  hostPage,      \* the page of hostsTable, from 0
  hostsTable,    \* the rows on it
  enabled        \* which page buttons are enabled

manager == <<host_scores, reports>>
network == <<request, failures>>
view == <<currentHost, shown>>
pager == <<hostPage, hostsTable, enabled>>
vars == <<manager, network, latestArray, hostSelector, view, historyMap, pager>>

PageButtons == {"first", "prev", "next", "last"}

Init ==
  /\ host_scores = [h \in Hosts |-> None] /\ reports = 0
  /\ request = [s \in Slots |-> [state |-> "free"]] /\ failures = 0
  /\ latestArray = <<>>
  /\ hostSelector = [items |-> <<>>, index |-> 0]
  /\ currentHost = None /\ shown = None
  /\ historyMap = [h \in Hosts |-> <<>>]
  /\ hostPage = 0 /\ hostsTable = <<>> /\ enabled = PageButtons

-----------------------------------------------------------------------------
(* The manager and the network.                                            *)

\* A report enters the score table.
Report(h) ==
  /\ reports < MaxReports
  /\ reports' = reports + 1
  /\ host_scores' = [host_scores EXCEPT ![h] = reports']
  /\ UNCHANGED <<network, latestArray, hostSelector, view, historyMap, pager>>

\* The sweep, or a restart of the manager, removes an entry.
Expire(h) ==
  /\ host_scores[h] # None
  /\ host_scores' = [host_scores EXCEPT ![h] = None]
  /\ UNCHANGED <<reports, network, latestArray, hostSelector, view, historyMap, pager>>

Entries == {[hostname |-> h, report |-> host_scores[h]] : h \in {g \in Hosts : host_scores[g] # None}}

\* The handler of /api/latest: a copy of the table, in the order of an unordered_map.
Serve(s) ==
  /\ request[s].state = "sent"
  /\ \E array \in SetToSeqs(Entries) :
       request' = [request EXCEPT ![s] = [state |-> "answered", array |-> array]]
  /\ UNCHANGED <<manager, failures, latestArray, hostSelector, view, historyMap, pager>>

\* fetchData, by the timer, the button or the constructor.
FetchData(s) ==
  /\ request[s].state = "free"
  /\ request' = [request EXCEPT ![s] = [state |-> "sent"]]
  /\ UNCHANGED <<manager, failures, latestArray, hostSelector, view, historyMap, pager>>

\* A reply with an error, or with something that is no array, changes a label.
OnReplyFailed(s) ==
  /\ request[s].state # "free" /\ failures < MaxFailures
  /\ request' = [request EXCEPT ![s] = [state |-> "free"]]
  /\ failures' = failures + 1
  /\ UNCHANGED <<manager, latestArray, hostSelector, view, historyMap, pager>>

-----------------------------------------------------------------------------
(* The views.                                                              *)

Hostnames(array) == [i \in 1..Len(array) |-> array[i].hostname]

\* Defect for TypeOK: the history is cut before the point is appended, and only if too long.
AppendData_CutsFirst(array) ==
  historyMap' = [h \in Hosts |->
    IF \E i \in 1..Len(array) : array[i].hostname = h
    THEN LET point == array[CHOOSE i \in 1..Len(array) : array[i].hostname = h].report
             old == historyMap[h]
         IN Append(IF Len(old) > MAX_HISTORY THEN Tail(old) ELSE old, point)
    ELSE historyMap[h]]

\* appendData for every element: the new point is kept and the oldest goes when there are
\* too many.  Hosts that are gone keep theirs.
AppendData(array) ==
  historyMap' = [h \in Hosts |->
    IF \E i \in 1..Len(array) : array[i].hostname = h
    THEN LET point == array[CHOOSE i \in 1..Len(array) : array[i].hostname = h].report
             longer == Append(historyMap[h], point)
         IN IF Len(longer) > MAX_HISTORY THEN Tail(longer) ELSE longer
    ELSE historyMap[h]]

\* Defect for ChoiceKept: the selector keeps its position instead of its text.
RefillSelector_KeepsIndex(array) ==
  hostSelector' = [items |-> Hostnames(array),
                   index |-> IF hostSelector.index \in 1..Len(array) THEN hostSelector.index ELSE 1]

\* The selector's items are replaced; its text is selected again if it is still there,
\* the first item otherwise.
RefillSelector(array) ==
  LET again == {i \in 1..Len(array) : hostSelector.index # 0 /\
                  array[i].hostname = hostSelector.items[hostSelector.index]}
  IN hostSelector' = [items |-> Hostnames(array),
                      index |-> IF again = {} THEN 1 ELSE CHOOSE i \in again : TRUE]

TotalPages(total) == IF total = 0 THEN 1 ELSE (total + PAGE_SIZE - 1) \div PAGE_SIZE

Least(m, n) == IF m < n THEN m ELSE n
Greatest(m, n) == IF m < n THEN n ELSE m

\* The page a button asks for; "none" is a call that no button sent.
AskedFor(button, total) ==
  [first |-> 0, prev |-> Greatest(0, hostPage - 1),
   next |-> Least(TotalPages(total) - 1, hostPage + 1),
   last |-> TotalPages(total) - 1, none |-> hostPage][button]

PageRows(array, page) ==
  SubSeq(array, page * PAGE_SIZE + 1, Least((page + 1) * PAGE_SIZE, Len(array)))

\* The buttons that are enabled on a page.
ButtonsOn(page, total) ==
  (IF page = 0 THEN {} ELSE {"first", "prev"})
    \cup (IF page >= TotalPages(total) - 1 THEN {} ELSE {"next", "last"})

\* Defect for ViewsAgree: without the qBound that follows the buttons.
ShowPage_NoBound(button, array) ==
  LET page == AskedFor(button, Len(array))
  IN /\ hostPage' = page
     /\ hostsTable' = PageRows(array, page)
     /\ enabled' = ButtonsOn(page, Len(array))

\* onPageButton: the page is brought into the range there is, and the table filled again.
ShowPage(button, array) ==
  LET page == Greatest(0, Least(AskedFor(button, Len(array)), TotalPages(Len(array)) - 1))
  IN /\ hostPage' = page
     /\ hostsTable' = PageRows(array, page)
     /\ enabled' = ButtonsOn(page, Len(array))

\* updateAllForCurrentHost.
UpdateAllForCurrentHost(array, index) ==
  /\ currentHost' = array[index].hostname
  /\ shown' = array[index]

-----------------------------------------------------------------------------
(* The slots of the event loop.                                            *)

\* Defect for Converges: an empty answer is not stored.
OnEmptyReply_NotStored(s) ==
  /\ request[s].state = "answered" /\ request[s].array = <<>>
  /\ request' = [request EXCEPT ![s] = [state |-> "free"]]
  /\ hostSelector' = [items |-> <<>>, index |-> 0]
  /\ UNCHANGED <<manager, failures, latestArray, view, historyMap, pager>>

\* onReplyFinished of an empty array: only the selector is cleared.
OnEmptyReply(s) ==
  /\ request[s].state = "answered" /\ request[s].array = <<>>
  /\ request' = [request EXCEPT ![s] = [state |-> "free"]]
  /\ latestArray' = <<>>
  /\ hostSelector' = [items |-> <<>>, index |-> 0]
  /\ UNCHANGED <<manager, failures, view, historyMap, pager>>

\* onReplyFinished of a list of hosts.
OnReplyFinished(s) ==
  /\ request[s].state = "answered" /\ request[s].array # <<>>
  /\ request' = [request EXCEPT ![s] = [state |-> "free"]]
  /\ latestArray' = request[s].array
  /\ AppendData(latestArray')
  /\ RefillSelector(latestArray')
  /\ ShowPage("none", latestArray')
  /\ UpdateAllForCurrentHost(latestArray', hostSelector'.index)
  /\ UNCHANGED <<manager, failures>>

\* onHostSelected, by the selector or by a double click on a row of the table whose host
\* the selector lists.
OnHostSelected(i) ==
  /\ i \in DOMAIN hostSelector.items /\ i # hostSelector.index
  /\ hostSelector' = [hostSelector EXCEPT !.index = i]
  /\ UpdateAllForCurrentHost(latestArray, i)
  /\ UNCHANGED <<manager, network, latestArray, historyMap, pager>>

\* onPageButton, by a click on a button that the last call left enabled.
OnPageButton(button) ==
  /\ button \in enabled
  /\ ShowPage(button, latestArray)
  /\ UNCHANGED <<manager, network, latestArray, hostSelector, view, historyMap>>

-----------------------------------------------------------------------------
OnReply(s) == OnEmptyReply(s) \/ OnReplyFinished(s)

Next ==
  \/ \E h \in Hosts : Report(h) \/ Expire(h)
  \/ \E s \in Slots : FetchData(s) \/ Serve(s) \/ OnReplyFailed(s)
  \/ \E s \in Slots : OnEmptyReply(s) \/ OnReplyFinished(s)
  \/ \E i \in 1..Len(hostSelector.items) : OnHostSelected(i)
  \/ \E button \in PageButtons : OnPageButton(button)

\* The timer fires again and again, and every request is answered unless it fails.
Fairness ==
  /\ WF_vars(\E s \in Slots : FetchData(s))
  /\ \A s \in Slots : WF_vars(Serve(s)) /\ WF_vars(OnReply(s))

Spec == Init /\ [][Next]_vars /\ Fairness

-----------------------------------------------------------------------------
(* Properties.                                                             *)

Item == [hostname : Hosts, report : 1..MaxReports]

\* An answer names no host twice.
IsAnswer(array) == array \in Seq(Item) /\ IsInjective(Hostnames(array))

\* The shape of the state: a history has at most MAX_HISTORY points, and the selector has
\* a current item exactly when it has items.
TypeOK ==
  /\ host_scores \in [Hosts -> 1..MaxReports \cup {None}] /\ reports \in 0..MaxReports
  /\ \A s \in Slots : \/ request[s].state \in {"free", "sent"}
                      \/ request[s].state = "answered" /\ IsAnswer(request[s].array)
  /\ failures \in 0..MaxFailures
  /\ IsAnswer(latestArray) /\ hostsTable \in Seq(Item)
  /\ hostSelector.items \in Seq(Hosts)
  /\ hostSelector.index \in 0..Len(hostSelector.items)
  /\ hostSelector.index = 0 <=> hostSelector.items = <<>>
  /\ currentHost \in Hosts \cup {None} /\ shown \in Item \cup {None}
  /\ \A h \in Hosts : historyMap[h] \in Seq(1..MaxReports) /\ Len(historyMap[h]) <= MAX_HISTORY
  /\ hostPage \in Nat /\ enabled \subseteq PageButtons

\* All views show the same answer, whatever the user has clicked between the answers and
\* however many hosts came and went: the selector lists its hosts, cards and charts are
\* those of the selected one and end with the same report, and the table shows a page
\* that exists.  (Of an empty answer only the selector takes note.)
ViewsAgree ==
  /\ hostSelector.items = Hostnames(latestArray)
  /\ latestArray # <<>> =>
       /\ shown = latestArray[hostSelector.index]
       /\ currentHost = shown.hostname
       /\ shown.report = historyMap[currentHost][Len(historyMap[currentHost])]
       /\ hostPage < TotalPages(Len(latestArray))
       /\ hostsTable = PageRows(latestArray, hostPage) /\ hostsTable # <<>>

\* A reply never takes the user to another host while the chosen one is listed, in whatever
\* order the hosts are sent and whatever answers overtook each other.
ChoiceKept ==
  [][\A h \in Hosts :
       h = currentHost /\ (\E i \in DOMAIN latestArray : latestArray[i].hostname = h)
         /\ (\E i \in DOMAIN latestArray' : latestArray'[i].hostname = h)
         /\ (\E s \in Slots : request'[s] # request[s])
       => currentHost' = h]_vars

\* What the views show is what the manager knows.
UpToDate ==
  /\ ToSet(latestArray) = Entries
  /\ ToSet(hostSelector.items) = {e.hostname : e \in Entries}
  /\ Entries # {} => shown \in Entries /\ ToSet(hostsTable) \subseteq Entries

\* Once the manager's table has stopped changing, the views come to show it and stay there:
\* an old answer may overwrite a newer one, but not for ever.
Converges == <>[]UpToDate
=============================================================================
