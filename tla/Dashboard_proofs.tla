-------------------------- MODULE Dashboard_proofs --------------------------
(***************************************************************************)
(* The views of the dashboard agree for any hosts, any number of requests  *)
(* under way, any page size and any length of the history.                 *)
(*                                                                         *)
(* What the user may select is any host of the last answer, so that the    *)
(* history of each of them must end with its report (HistoryInv); and an   *)
(* answer names no host twice, or a history would get two points at once.  *)
(***************************************************************************)
EXTENDS Dashboard, FunctionTheorems, FiniteSetTheorems, SequenceTheorems, TLAPS

\* The history of every host of the last answer ends with its report.
HistoryInv ==
  \A i \in DOMAIN latestArray :
    LET points == historyMap[latestArray[i].hostname]
    IN points # <<>> /\ points[Len(points)] = latestArray[i].report

\* There is a state for every slot, and a history for every host.
Slotted ==
  /\ request = [s \in Slots |-> request[s]]
  /\ historyMap = [h \in Hosts |-> historyMap[h]]
  /\ hostSelector = [items |-> hostSelector.items, index |-> hostSelector.index]

IInv == TypeOK /\ Slotted /\ HistoryInv /\ ViewsAgree

-----------------------------------------------------------------------------
\* An answer is a sequence of items, and its host names are a sequence of as many.
LEMMA AnswerShape ==
  ASSUME NEW array, IsAnswer(array)
  PROVE  /\ array \in Seq(Item) /\ Len(array) \in Nat /\ DOMAIN array = 1..Len(array)
         /\ \A i \in DOMAIN array : array[i].hostname \in Hosts /\ array[i].report \in 1..MaxReports
         /\ Hostnames(array) \in Seq(Hosts) /\ Len(Hostnames(array)) = Len(array)
         /\ \A i \in DOMAIN array : Hostnames(array)[i] = array[i].hostname
         /\ \A i, j \in DOMAIN array : array[i].hostname = array[j].hostname => i = j
         /\ array = <<>> <=> Len(array) = 0
         /\ Hostnames(array) = <<>> <=> array = <<>>
<1>1. array \in Seq(Item)
  BY DEF IsAnswer
<1>2. \A i \in DOMAIN array : array[i] \in Item
  BY <1>1
<1>3. \A i \in DOMAIN array : array[i].hostname \in Hosts /\ array[i].report \in 1..MaxReports
  BY <1>2 DEF Item
<1>4. Hostnames(array) \in [1..Len(array) -> Hosts] /\ Len(array) \in Nat
  BY <1>1, <1>3 DEF Hostnames
<1>5. Hostnames(array) \in Seq(Hosts) /\ Len(Hostnames(array)) = Len(array)
  BY <1>4
<1>6. \A i, j \in DOMAIN array : array[i].hostname = array[j].hostname => i = j
  BY <1>1 DEF IsAnswer, IsInjective, Hostnames
<1>. QED  BY <1>1, <1>3, <1>4, <1>5, <1>6 DEF Hostnames

\* The copy of the score table is an answer.
LEMMA EntriesAnswer ==
  ASSUME host_scores \in [Hosts -> 1..MaxReports \cup {None}],
         NEW array \in SetToSeqs(Entries)
  PROVE  IsAnswer(array)
<1>. DEFINE listed == {g \in Hosts : host_scores[g] # None}
            f == [h \in listed |-> [hostname |-> h, report |-> host_scores[h]]]
<1>1. IsFiniteSet(listed)
  BY DashboardAssumption, FS_Subset
<1>2. f \in Surjection(listed, Entries)
  BY DEF Entries, Surjection
<1>3. IsFiniteSet(Entries)
  BY <1>1, <1>2, FS_Surjection, Zenon DEF ExistsSurjection
<1>4. Cardinality(Entries) \in Nat
  BY <1>3, FS_CardinalityType
<1>5. Entries \subseteq Item
  BY DEF Entries, Item
<1>6. /\ array \in [1..Cardinality(Entries) -> Entries]
      /\ \A i, j \in 1..Cardinality(Entries) : i # j => array[i] # array[j]
  BY DEF SetToSeqs
<1>7. array \in Seq(Item) /\ Len(array) = Cardinality(Entries)
  BY <1>4, <1>5, <1>6
<1>8. \A e, g \in Entries : e.hostname = g.hostname => e = g
  BY DEF Entries
<1>9. IsInjective(Hostnames(array))
  BY <1>6, <1>7, <1>8 DEF IsInjective, Hostnames
<1>. QED  BY <1>7, <1>9 DEF IsAnswer

\* A history after a point was appended and, if need be, the oldest removed.
Grown(old, point) ==
  IF Len(Append(old, point)) > MAX_HISTORY THEN Tail(Append(old, point)) ELSE Append(old, point)

\* A point is added at the end of a history that stays within its length.
LEMMA PointAdded ==
  ASSUME NEW old \in Seq(1..MaxReports), Len(old) <= MAX_HISTORY, NEW point \in 1..MaxReports
  PROVE  /\ Grown(old, point) \in Seq(1..MaxReports) /\ Len(Grown(old, point)) <= MAX_HISTORY
         /\ Grown(old, point) # <<>> /\ Grown(old, point)[Len(Grown(old, point))] = point
<1>. DEFINE longer == Append(old, point)
            n == Len(old)
<1>1. /\ longer \in Seq(1..MaxReports) /\ n \in Nat /\ Len(longer) = n + 1
      /\ longer[n + 1] = point /\ MAX_HISTORY \in Nat \ {0} /\ n <= MAX_HISTORY
  BY DashboardAssumption
<1>2. CASE n + 1 > MAX_HISTORY
  <2>1. Grown(old, point) = Tail(longer)
    BY <1>1, <1>2 DEF Grown
  <2>. HIDE DEF longer, n
  <2>2. n >= 1 /\ longer # <<>>
    BY <1>1, <1>2
  <2>3. /\ Tail(longer) \in Seq(1..MaxReports) /\ Len(Tail(longer)) = n
        /\ Tail(longer)[n] = longer[n + 1]
    BY <1>1, <2>2
  <2>4. Tail(longer) # <<>>
    BY <2>2, <2>3
  <2>. QED  BY <1>1, <2>1, <2>3, <2>4
<1>3. CASE ~(n + 1 > MAX_HISTORY)
  <2>1. Grown(old, point) = longer
    BY <1>1, <1>3 DEF Grown
  <2>. HIDE DEF longer, n
  <2>2. longer # <<>> /\ n + 1 <= MAX_HISTORY
    BY <1>1, <1>3
  <2>. QED  BY <1>1, <2>1, <2>2
<1>. QED  BY <1>2, <1>3

\* appendData gives each host of an answer its point.
LEMMA HistoryAppended ==
  ASSUME NEW array, IsAnswer(array), AppendData(array), historyMap = [h \in Hosts |-> historyMap[h]],
         \A h \in Hosts : historyMap[h] \in Seq(1..MaxReports) /\ Len(historyMap[h]) <= MAX_HISTORY
  PROVE  /\ historyMap' = [h \in Hosts |-> historyMap'[h]]
         /\ \A h \in Hosts : historyMap'[h] \in Seq(1..MaxReports) /\ Len(historyMap'[h]) <= MAX_HISTORY
         /\ \A i \in DOMAIN array :
              LET points == historyMap'[array[i].hostname]
              IN points # <<>> /\ points[Len(points)] = array[i].report
<1>. USE AnswerShape
<1>1. historyMap' = [h \in Hosts |-> historyMap'[h]]
  BY DEF AppendData
<1>2. ASSUME NEW i \in DOMAIN array
      PROVE  LET points == historyMap'[array[i].hostname]
             IN /\ points \in Seq(1..MaxReports) /\ Len(points) <= MAX_HISTORY
                /\ points # <<>> /\ points[Len(points)] = array[i].report
  <2>. DEFINE h == array[i].hostname
              k == CHOOSE j \in 1..Len(array) : array[j].hostname = h
  <2>1. k = i
    <3>1. i \in 1..Len(array) /\ array[i].hostname = h
      OBVIOUS
    <3>2. k \in 1..Len(array) /\ array[k].hostname = h
      BY <3>1
    <3>. QED  BY <3>1, <3>2
  <2>2. h \in Hosts /\ array[i].report \in 1..MaxReports
    OBVIOUS
  <2>3. historyMap'[h] = LET longer == Append(historyMap[h], array[k].report)
                         IN IF Len(longer) > MAX_HISTORY THEN Tail(longer) ELSE longer
    BY <2>2 DEF AppendData
  <2>4. historyMap[h] \in Seq(1..MaxReports) /\ Len(historyMap[h]) <= MAX_HISTORY
    BY <2>2
  <2>5. historyMap'[h] = Grown(historyMap[h], array[i].report)
    BY <2>1, <2>3 DEF Grown
  <2>. HIDE DEF h, k
  <2>6. /\ Grown(historyMap[h], array[i].report) \in Seq(1..MaxReports)
        /\ Len(Grown(historyMap[h], array[i].report)) <= MAX_HISTORY
        /\ Grown(historyMap[h], array[i].report) # <<>>
        /\ Grown(historyMap[h], array[i].report)[Len(Grown(historyMap[h], array[i].report))]
             = array[i].report
    BY <2>2, <2>4, PointAdded, Zenon
  <2>7. /\ historyMap'[h] \in Seq(1..MaxReports) /\ Len(historyMap'[h]) <= MAX_HISTORY
        /\ historyMap'[h] # <<>> /\ historyMap'[h][Len(historyMap'[h])] = array[i].report
    BY <2>5, <2>6, Zenon
  <2>. QED  BY <2>7 DEF h
<1>3. ASSUME NEW h \in Hosts, ~\E i \in 1..Len(array) : array[i].hostname = h
      PROVE  historyMap'[h] = historyMap[h]
  BY <1>3 DEF AppendData
<1>4. ASSUME NEW h \in Hosts
      PROVE  historyMap'[h] \in Seq(1..MaxReports) /\ Len(historyMap'[h]) <= MAX_HISTORY
  <2>1. CASE \E i \in 1..Len(array) : array[i].hostname = h
    <3>1. PICK i \in DOMAIN array : array[i].hostname = h
      BY <2>1
    <3>. QED  BY <3>1, <1>2
  <2>2. CASE ~\E i \in 1..Len(array) : array[i].hostname = h
    BY <2>2, <1>3
  <2>. QED  BY <2>1, <2>2
<1>. QED  BY <1>1, <1>2, <1>4

\* The selector's current item after an answer with hosts, and what it was before.
LEMMA SelectorRefilled ==
  ASSUME NEW array, IsAnswer(array), array # <<>>, RefillSelector(array)
  PROVE  /\ hostSelector'.items = Hostnames(array)
         /\ hostSelector'.index \in 1..Len(array)
         /\ \A i \in 1..Len(array) :
              hostSelector.index # 0 /\ array[i].hostname = hostSelector.items[hostSelector.index]
                => array[hostSelector'.index].hostname = array[i].hostname
<1>. DEFINE again == {i \in 1..Len(array) : hostSelector.index # 0 /\
                        array[i].hostname = hostSelector.items[hostSelector.index]}
<1>1. hostSelector'.items = Hostnames(array)
  BY DEF RefillSelector
<1>2. hostSelector'.index = IF again = {} THEN 1 ELSE CHOOSE i \in again : TRUE
  BY DEF RefillSelector
<1>3. Len(array) \in Nat \ {0}
  BY AnswerShape
<1>4. CASE again = {}
  BY <1>1, <1>2, <1>3, <1>4
<1>5. CASE again # {}
  <2>1. hostSelector'.index \in again
    BY <1>2, <1>5
  <2>. QED  BY <1>1, <2>1
<1>. QED  BY <1>4, <1>5

-----------------------------------------------------------------------------
\* There is a row on every page below the number of pages.
LEMMA PageNotEmpty ==
  ASSUME NEW total \in Nat \ {0}, NEW page \in Nat, page < TotalPages(total)
  PROVE  page * PAGE_SIZE + 1 <= total /\ page * PAGE_SIZE \in Nat
         /\ page * PAGE_SIZE + 1 <= (page + 1) * PAGE_SIZE /\ (page + 1) * PAGE_SIZE \in Nat
<1>. DEFINE q == (total + PAGE_SIZE - 1) \div PAGE_SIZE
<1>0. PAGE_SIZE \in Nat \ {0}
  BY DashboardAssumption
<1>1. q \in Int /\ PAGE_SIZE * q <= total + PAGE_SIZE - 1
  BY <1>0
<1>2. page + 1 <= q
  BY <1>1 DEF TotalPages
<1>3. PAGE_SIZE * (page + 1) <= PAGE_SIZE * q
  BY <1>0, <1>1, <1>2
<1>4. PAGE_SIZE * (page + 1) = page * PAGE_SIZE + PAGE_SIZE /\ page * PAGE_SIZE \in Nat
  BY <1>0
<1>5. (page + 1) * PAGE_SIZE = PAGE_SIZE * (page + 1)
  BY <1>0
<1>. QED  BY <1>0, <1>1, <1>3, <1>4, <1>5

\* There is at least one page.
LEMMA PagesPositive ==
  ASSUME NEW total \in Nat
  PROVE  TotalPages(total) \in Nat \ {0}
<1>0. PAGE_SIZE \in Nat \ {0}
  BY DashboardAssumption
<1>. DEFINE q == (total + PAGE_SIZE - 1) \div PAGE_SIZE
<1>1. CASE total = 0
  BY <1>1 DEF TotalPages
<1>2. CASE total # 0
  <2>1. total + PAGE_SIZE - 1 >= PAGE_SIZE
    BY <1>0, <1>2
  <2>2. q \in Int /\ total + PAGE_SIZE - 1 < PAGE_SIZE * (q + 1)
    BY <1>0
  <2>3. q >= 1
    <3>. SUFFICES ASSUME q + 1 <= 1 PROVE FALSE
      BY <2>2
    <3>1. PAGE_SIZE * (q + 1) <= PAGE_SIZE * 1
      BY <1>0, <2>2
    <3>. QED  BY <1>0, <2>1, <2>2, <3>1
  <2>. QED  BY <1>2, <2>2, <2>3 DEF TotalPages
<1>. QED  BY <1>1, <1>2

LEMMA ProductNat ==
  ASSUME NEW p \in Nat, NEW k \in Nat \ {0}
  PROVE  p * k \in Nat /\ (p + 1) * k \in Nat
OBVIOUS

\* onPageButton shows a page that exists, whichever button was clicked.
LEMMA PageShown ==
  ASSUME NEW array, IsAnswer(array), hostPage \in Nat,
         NEW button \in PageButtons \cup {"none"}, ShowPage(button, array)
  PROVE  /\ hostPage' \in Nat /\ hostPage' < TotalPages(Len(array))
         /\ hostsTable' = PageRows(array, hostPage') /\ hostsTable' \in Seq(Item)
         /\ array # <<>> => hostsTable' # <<>>
         /\ enabled' \subseteq PageButtons
<1>. DEFINE total == Len(array)
            pages == TotalPages(total)
<1>1. total \in Nat /\ array \in Seq(Item) /\ DOMAIN array = 1..total
  BY AnswerShape
<1>2. pages \in Nat \ {0}
  BY <1>1, PagesPositive
<1>3. AskedFor(button, total) \in Int
  <2>1. Greatest(0, hostPage - 1) \in Int /\ Least(pages - 1, hostPage + 1) \in Int
    BY <1>2 DEF Greatest, Least
  <2>2. \/ button = "first" /\ AskedFor(button, total) = 0
        \/ button = "prev" /\ AskedFor(button, total) = Greatest(0, hostPage - 1)
        \/ button = "next" /\ AskedFor(button, total) = Least(pages - 1, hostPage + 1)
        \/ button = "last" /\ AskedFor(button, total) = pages - 1
        \/ button = "none" /\ AskedFor(button, total) = hostPage
    BY DEF PageButtons, AskedFor
  <2>. QED  BY <1>2, <2>1, <2>2
<1>4. hostPage' = Greatest(0, Least(AskedFor(button, total), pages - 1))
  BY DEF ShowPage
<1>5. hostPage' \in Nat /\ hostPage' < pages
  BY <1>2, <1>3, <1>4 DEF Greatest, Least
<1>6. hostsTable' = PageRows(array, hostPage')
  BY DEF ShowPage
<1>7. enabled' \subseteq PageButtons
  BY DEF ShowPage, ButtonsOn, PageButtons
<1>8. CASE total = 0
  <2>1. array = <<>>
    BY <1>1, <1>8
  <2>2. PAGE_SIZE \in Nat \ {0}
    BY DashboardAssumption
  <2>3. hostPage' * PAGE_SIZE \in Nat /\ (hostPage' + 1) * PAGE_SIZE \in Nat
    BY <1>5, <2>2, ProductNat, Zenon
  <2>4. hostsTable' = SubSeq(array, hostPage' * PAGE_SIZE + 1, 0)
    BY <1>6, <1>8, <2>3 DEF PageRows, Least
  <2>. DEFINE m == hostPage' * PAGE_SIZE + 1
  <2>5. hostsTable' = <<>>
    <3>1. m \in Nat /\ m > 0 /\ hostsTable' = SubSeq(array, m, 0)
      BY <2>3, <2>4
    <3>. HIDE DEF m
    <3>2. SubSeq(array, m, 0) = <<>>
      BY <1>1, <3>1, SubSeqEmpty
    <3>. QED  BY <3>1, <3>2
  <2>6. hostsTable' \in Seq(Item)
    BY <2>5
  <2>. QED  BY <1>5, <1>6, <1>7, <2>1, <2>6
<1>9. CASE total # 0
  <2>. DEFINE m == hostPage' * PAGE_SIZE + 1
              n == Least((hostPage' + 1) * PAGE_SIZE, total)
  <2>1. m \in Nat /\ m >= 1 /\ m <= n /\ n \in Nat /\ n <= total
    BY <1>1, <1>5, <1>9, PageNotEmpty DEF Least
  <2>2. SubSeq(array, m, n) \in Seq(Item) /\ Len(SubSeq(array, m, n)) = n - m + 1
    BY <1>1, <2>1
  <2>3. hostsTable' = SubSeq(array, m, n)
    BY <1>6 DEF PageRows
  <2>4. hostsTable' \in Seq(Item) /\ Len(hostsTable') = n - m + 1
    BY <2>2, <2>3
  <2>. HIDE DEF m, n
  <2>5. hostsTable' # <<>>
    BY <2>1, <2>4
  <2>. QED  BY <1>5, <1>6, <1>7, <2>4, <2>5
<1>. QED  BY <1>8, <1>9

-----------------------------------------------------------------------------
LEMMA InitInv == Init => IInv
<1>. SUFFICES ASSUME Init PROVE IInv
  OBVIOUS
<1>. USE DashboardAssumption DEF Init
<1>1. IsAnswer(<<>>)
  BY DEF IsAnswer, Hostnames, IsInjective
<1>2. TypeOK
  BY <1>1 DEF TypeOK
<1>3. Slotted
  BY DEF Slotted
<1>4. HistoryInv
  BY DEF HistoryInv
<1>5. ViewsAgree
  BY DEF ViewsAgree, Hostnames
<1>. QED  BY <1>2, <1>3, <1>4, <1>5 DEF IInv

\* What the views rest on.
viewVars == <<latestArray, hostSelector, view, historyMap, pager>>

LEMMA ViewsKept == IInv /\ UNCHANGED viewVars => HistoryInv' /\ ViewsAgree'
BY DEF IInv, viewVars, view, pager, HistoryInv, ViewsAgree

\* The manager, and requests on their way.
LEMMA ManagerStep ==
  ASSUME IInv, NEW h \in Hosts, Report(h) \/ Expire(h)
  PROVE  IInv'
<1>. USE DashboardAssumption
<1>1. UNCHANGED viewVars /\ UNCHANGED network
  BY DEF Report, Expire, viewVars
<1>2. host_scores' \in [Hosts -> 1..MaxReports \cup {None}] /\ reports' \in 0..MaxReports
  <2>1. host_scores \in [Hosts -> 1..MaxReports \cup {None}] /\ reports \in 0..MaxReports
    BY DEF IInv, TypeOK
  <2>2. CASE Report(h)
    <3>1. reports' \in 1..MaxReports
      BY <2>1, <2>2 DEF Report
    <3>2. host_scores' = [host_scores EXCEPT ![h] = reports']
      BY <2>2 DEF Report
    <3>. QED  BY <2>1, <3>1, <3>2
  <2>3. CASE Expire(h)
    BY <2>1, <2>3 DEF Expire
  <2>. QED  BY <2>2, <2>3
<1>3. TypeOK' /\ Slotted'
  BY <1>1, <1>2 DEF IInv, TypeOK, Slotted, viewVars, network, view, pager, IsAnswer, Hostnames
<1>. QED  BY <1>1, <1>3, ViewsKept DEF IInv

\* What TypeOK says of a slot.
SlotOK(r) ==
  \/ r.state \in {"free", "sent"}
  \/ r.state = "answered" /\ IsAnswer(r.array)

SlotsOK == request = [t \in Slots |-> request[t]] /\ \A t \in Slots : SlotOK(request[t])

\* The state of one request changes.
LEMMA RequestChanges ==
  ASSUME IInv, NEW s \in Slots, NEW new, request' = [request EXCEPT ![s] = new], SlotOK(new)
  PROVE  SlotsOK'
<1>1. \A t \in Slots : request'[t] = IF t = s THEN new ELSE request[t]
  BY DEF IInv, Slotted
<1>2. request' = [t \in Slots |-> request'[t]]
  BY DEF IInv, Slotted
<1>3. \A t \in Slots : SlotOK(request[t])
  BY DEF IInv, TypeOK, SlotOK
<1>4. \A t \in Slots : SlotOK(request'[t])
  BY <1>1, <1>3, Zenon
<1>5. \A t \in Slots : SlotOK(request[t])'
  BY <1>4 DEF SlotOK, IsAnswer, Hostnames
<1>. QED  BY <1>2, <1>5 DEF SlotsOK

\* A slot becomes free.
LEMMA RequestFreed ==
  ASSUME IInv, NEW s \in Slots, request' = [request EXCEPT ![s] = [state |-> "free"]]
  PROVE  SlotsOK'
<1>. DEFINE new == [state |-> "free"]
<1>1. request' = [request EXCEPT ![s] = new] /\ SlotOK(new)
  BY DEF SlotOK
<1>. HIDE DEF new
<1>. QED  BY <1>1, RequestChanges, Zenon

\* The state of requests changes, and nothing the views rest on.
LEMMA OnlyRequests ==
  ASSUME IInv, SlotsOK', failures' \in 0..MaxFailures, UNCHANGED <<manager, viewVars>>
  PROVE  IInv'
<1>1. TypeOK'
  BY DEF IInv, TypeOK, SlotsOK, SlotOK, manager, viewVars, view, pager, IsAnswer, Hostnames
<1>2. Slotted'
  BY DEF IInv, Slotted, SlotsOK, viewVars
<1>. QED  BY <1>1, <1>2, ViewsKept DEF IInv

LEMMA NetworkStep ==
  ASSUME IInv, NEW s \in Slots, FetchData(s) \/ Serve(s) \/ OnReplyFailed(s)
  PROVE  IInv'
<1>1. UNCHANGED <<manager, viewVars>>
  BY DEF FetchData, Serve, OnReplyFailed, viewVars
<1>2. failures' \in 0..MaxFailures
  BY DashboardAssumption DEF FetchData, Serve, OnReplyFailed, IInv, TypeOK
<1>3. CASE FetchData(s)
  <2>. DEFINE new == [state |-> "sent"]
  <2>1. request' = [request EXCEPT ![s] = new] /\ SlotOK(new)
    BY <1>3 DEF FetchData, SlotOK
  <2>. HIDE DEF new
  <2>2. SlotsOK'
    BY <2>1, RequestChanges, Zenon
  <2>. QED  BY <1>1, <1>2, <2>2, OnlyRequests
<1>4. CASE Serve(s)
  <2>1. PICK array \in SetToSeqs(Entries) :
          request' = [request EXCEPT ![s] = [state |-> "answered", array |-> array]]
    BY <1>4 DEF Serve
  <2>2. IsAnswer(array)
    BY EntriesAnswer DEF IInv, TypeOK
  <2>. DEFINE new == [state |-> "answered", array |-> array]
  <2>3. request' = [request EXCEPT ![s] = new] /\ SlotOK(new)
    BY <2>1, <2>2 DEF SlotOK
  <2>. HIDE DEF new
  <2>4. SlotsOK'
    BY <2>3, RequestChanges, Zenon
  <2>. QED  BY <1>1, <1>2, <2>4, OnlyRequests
<1>5. CASE OnReplyFailed(s)
  BY <1>1, <1>2, <1>5, RequestFreed, OnlyRequests DEF OnReplyFailed
<1>. QED  BY <1>3, <1>4, <1>5

-----------------------------------------------------------------------------
\* An empty answer.
LEMMA EmptyReplyStep ==
  ASSUME IInv, NEW s \in Slots, OnEmptyReply(s)
  PROVE  IInv'
<1>1. IsAnswer(<<>>) /\ Hostnames(<<>>) = <<>>
  BY DEF IsAnswer, Hostnames, IsInjective
<1>2. /\ latestArray' = <<>> /\ hostSelector' = [items |-> <<>>, index |-> 0]
      /\ UNCHANGED <<manager, failures, view, historyMap, pager>>
      /\ request' = [request EXCEPT ![s] = [state |-> "free"]]
  BY DEF OnEmptyReply
<1>3. /\ hostSelector'.items = <<>> /\ hostSelector'.index = 0
      /\ <<>> \in Seq(Hosts) /\ 0 \in 0..Len(<<>>)
  BY <1>2
<1>4. TypeOK'
  BY <1>1, <1>2, <1>3, RequestFreed DEF IInv, TypeOK, SlotsOK, SlotOK, manager, view, pager
<1>5. Slotted'
  BY <1>2, RequestFreed DEF IInv, Slotted, SlotsOK
<1>6. HistoryInv'
  BY <1>2 DEF HistoryInv
<1>7. ViewsAgree'
  BY <1>1, <1>2, <1>3 DEF ViewsAgree
<1>. QED  BY <1>4, <1>5, <1>6, <1>7 DEF IInv

\* An answer with hosts: history, selector, page and cards are all brought up to it.
LEMMA ReplyStep ==
  ASSUME IInv, NEW s \in Slots, OnReplyFinished(s)
  PROVE  IInv'
<1>. DEFINE array == request[s].array
<1>1. /\ latestArray' = array /\ array # <<>>
      /\ AppendData(array) /\ RefillSelector(array) /\ ShowPage("none", array)
      /\ currentHost' = array[hostSelector'.index].hostname
      /\ shown' = array[hostSelector'.index]
      /\ UNCHANGED <<manager, failures>>
      /\ request' = [request EXCEPT ![s] = [state |-> "free"]]
  BY DEF OnReplyFinished, UpdateAllForCurrentHost
<1>2. IsAnswer(array)
  BY DEF OnReplyFinished, IInv, TypeOK
<1>3. /\ historyMap' = [h \in Hosts |-> historyMap'[h]]
      /\ \A h \in Hosts : historyMap'[h] \in Seq(1..MaxReports) /\ Len(historyMap'[h]) <= MAX_HISTORY
      /\ \A i \in DOMAIN array :
           LET points == historyMap'[array[i].hostname]
           IN points # <<>> /\ points[Len(points)] = array[i].report
  BY <1>1, <1>2, HistoryAppended DEF IInv, TypeOK, Slotted
<1>4. hostSelector'.items = Hostnames(array) /\ hostSelector'.index \in 1..Len(array)
  BY <1>1, <1>2, SelectorRefilled
<1>5. /\ hostPage' \in Nat /\ hostPage' < TotalPages(Len(array))
      /\ hostsTable' = PageRows(array, hostPage') /\ hostsTable' \in Seq(Item)
      /\ hostsTable' # <<>> /\ enabled' \subseteq PageButtons
  BY <1>1, <1>2, PageShown DEF IInv, TypeOK
<1>. HIDE DEF array
<1>6. /\ DOMAIN array = 1..Len(array) /\ Len(array) \in Nat
      /\ Hostnames(array) \in Seq(Hosts) /\ Len(Hostnames(array)) = Len(array)
      /\ Hostnames(array) # <<>> /\ shown' \in Item /\ currentHost' \in Hosts
  BY <1>1, <1>2, <1>4, AnswerShape
<1>7. /\ hostSelector'.items \in Seq(Hosts)
      /\ hostSelector'.index \in 0..Len(hostSelector'.items)
      /\ hostSelector'.index # 0 /\ hostSelector'.items # <<>>
  BY <1>4, <1>6
<1>8. TypeOK'
  <2>1. (host_scores \in [Hosts -> 1..MaxReports \cup {None}] /\ reports \in 0..MaxReports)'
    BY <1>1 DEF IInv, TypeOK, manager
  <2>2. failures' \in 0..MaxFailures
    BY <1>1 DEF IInv, TypeOK
  <2>. QED  BY <1>1, <1>2, <1>3, <1>5, <1>6, <1>7, <2>1, <2>2, RequestFreed DEF TypeOK, SlotsOK, SlotOK
<1>9. Slotted'
  <2>1. hostSelector' = [items |-> hostSelector'.items, index |-> hostSelector'.index]
    BY <1>1 DEF RefillSelector
  <2>. QED  BY <1>1, <1>3, <2>1, RequestFreed DEF Slotted, SlotsOK
<1>10. HistoryInv'
  BY <1>1, <1>3 DEF HistoryInv
<1>11. ViewsAgree'
  <2>1. shown' = latestArray'[hostSelector'.index] /\ currentHost' = shown'.hostname
    BY <1>1
  <2>2. shown'.report = historyMap'[currentHost'][Len(historyMap'[currentHost'])]
    BY <1>1, <1>3, <1>4, <1>6, <2>1
  <2>. QED  BY <1>1, <1>4, <1>5, <2>1, <2>2 DEF ViewsAgree
<1>. QED  BY <1>8, <1>9, <1>10, <1>11 DEF IInv

\* The user selects a host of the last answer.
LEMMA SelectStep ==
  ASSUME IInv, NEW i \in 1..Len(hostSelector.items), OnHostSelected(i)
  PROVE  IInv'
<1>1. /\ IsAnswer(latestArray) /\ hostSelector.items = Hostnames(latestArray)
      /\ HistoryInv /\ hostSelector.items \in Seq(Hosts)
  BY DEF IInv, TypeOK, ViewsAgree
<1>2. /\ i \in DOMAIN latestArray /\ latestArray # <<>> /\ i \in Nat \ {0}
      /\ latestArray[i] \in Item /\ latestArray[i].hostname \in Hosts
  BY <1>1, AnswerShape
<1>3. /\ hostSelector' = [hostSelector EXCEPT !.index = i]
      /\ currentHost' = latestArray[i].hostname /\ shown' = latestArray[i]
      /\ UNCHANGED <<manager, network, latestArray, historyMap, pager>>
  BY DEF OnHostSelected, UpdateAllForCurrentHost
<1>4. /\ hostSelector'.items = hostSelector.items /\ hostSelector'.index = i
      /\ hostSelector' = [items |-> hostSelector'.items, index |-> hostSelector'.index]
  <2>1. hostSelector = [items |-> hostSelector.items, index |-> hostSelector.index]
    BY DEF IInv, Slotted
  <2>. QED  BY <1>3, <2>1
<1>5. i \in 0..Len(hostSelector.items) /\ hostSelector.items # <<>>
  BY <1>1, <1>2
<1>6. TypeOK'
  <2>1. /\ (host_scores \in [Hosts -> 1..MaxReports \cup {None}] /\ reports \in 0..MaxReports)'
        /\ (failures \in 0..MaxFailures)' /\ IsAnswer(latestArray)'
        /\ (hostsTable \in Seq(Item) /\ hostPage \in Nat /\ enabled \subseteq PageButtons)'
        /\ (\A h \in Hosts : historyMap[h] \in Seq(1..MaxReports) /\ Len(historyMap[h]) <= MAX_HISTORY)'
    BY <1>3 DEF IInv, TypeOK, manager, network, pager, IsAnswer, Hostnames
  <2>2. (\A t \in Slots : SlotOK(request[t]))'
    BY <1>3 DEF IInv, TypeOK, SlotOK, network, IsAnswer, Hostnames
  <2>. QED  BY <1>1, <1>2, <1>3, <1>4, <1>5, <2>1, <2>2 DEF TypeOK, SlotOK
<1>7. Slotted'
  BY <1>3, <1>4 DEF IInv, Slotted, network
<1>8. HistoryInv'
  BY <1>1, <1>3 DEF HistoryInv
<1>9. ViewsAgree'
  <2>1. hostSelector'.items = Hostnames(latestArray')
    BY <1>1, <1>3, <1>4
  <2>2. shown' = latestArray'[hostSelector'.index] /\ currentHost' = shown'.hostname
    BY <1>3, <1>4
  <2>3. shown'.report = historyMap'[currentHost'][Len(historyMap'[currentHost'])]
    BY <1>1, <1>2, <1>3 DEF HistoryInv
  <2>4. /\ hostPage' < TotalPages(Len(latestArray'))
        /\ hostsTable' = PageRows(latestArray', hostPage') /\ hostsTable' # <<>>
    BY <1>2, <1>3 DEF IInv, ViewsAgree, pager, PageRows
  <2>. QED  BY <2>1, <2>2, <2>3, <2>4 DEF ViewsAgree
<1>. QED  BY <1>6, <1>7, <1>8, <1>9 DEF IInv

\* The user turns a page.
LEMMA PageStep ==
  ASSUME IInv, NEW button \in PageButtons, OnPageButton(button)
  PROVE  IInv'
<1>1. IsAnswer(latestArray) /\ hostPage \in Nat
  BY DEF IInv, TypeOK
<1>2. /\ ShowPage(button, latestArray)
      /\ UNCHANGED <<manager, network, latestArray, hostSelector, view, historyMap>>
  BY DEF OnPageButton
<1>3. /\ hostPage' \in Nat /\ hostPage' < TotalPages(Len(latestArray))
      /\ hostsTable' = PageRows(latestArray, hostPage') /\ hostsTable' \in Seq(Item)
      /\ latestArray # <<>> => hostsTable' # <<>>
      /\ enabled' \subseteq PageButtons
  BY <1>1, <1>2, PageShown
<1>4. TypeOK'
  BY <1>2, <1>3 DEF IInv, TypeOK, manager, network, view, IsAnswer, Hostnames
<1>5. Slotted'
  BY <1>2 DEF IInv, Slotted, network
<1>6. HistoryInv'
  BY <1>2 DEF IInv, HistoryInv
<1>7. ViewsAgree'
  BY <1>2, <1>3 DEF IInv, ViewsAgree, view
<1>. QED  BY <1>4, <1>5, <1>6, <1>7 DEF IInv

LEMMA StutterStep ==
  ASSUME IInv, UNCHANGED vars
  PROVE  IInv'
<1>1. UNCHANGED <<manager, network, viewVars>>
  BY DEF vars, viewVars
<1>2. TypeOK' /\ Slotted'
  BY <1>1 DEF IInv, TypeOK, Slotted, manager, network, viewVars, view, pager, IsAnswer, Hostnames
<1>. QED  BY <1>1, <1>2, ViewsKept DEF IInv

LEMMA Invariance == Spec => []IInv
<1>1. IInv /\ [Next]_vars => IInv'
  <2>. SUFFICES ASSUME IInv, [Next]_vars PROVE IInv'
    OBVIOUS
  <2>1. ASSUME NEW h \in Hosts, Report(h) \/ Expire(h) PROVE IInv'
    BY <2>1, ManagerStep
  <2>2. ASSUME NEW s \in Slots, FetchData(s) \/ Serve(s) \/ OnReplyFailed(s) PROVE IInv'
    BY <2>2, NetworkStep
  <2>3. ASSUME NEW s \in Slots, OnEmptyReply(s) PROVE IInv'
    BY <2>3, EmptyReplyStep
  <2>4. ASSUME NEW s \in Slots, OnReplyFinished(s) PROVE IInv'
    BY <2>4, ReplyStep
  <2>5. ASSUME NEW i \in 1..Len(hostSelector.items), OnHostSelected(i) PROVE IInv'
    BY <2>5, SelectStep
  <2>6. ASSUME NEW button \in PageButtons, OnPageButton(button) PROVE IInv'
    BY <2>6, PageStep
  <2>7. CASE UNCHANGED vars
    BY <2>7, StutterStep
  <2>. QED  BY <2>1, <2>2, <2>3, <2>4, <2>5, <2>6, <2>7 DEF Next
<1>. QED  BY <1>1, InitInv, PTL DEF Spec

-----------------------------------------------------------------------------
\* The state keeps its shape: no answer lists a host twice, and no history grows beyond
\* MAX_HISTORY.
THEOREM TypeCorrect == Spec => []TypeOK
<1>1. IInv => TypeOK
  BY DEF IInv
<1>. QED  BY <1>1, Invariance, PTL

\* Selector, cards, charts and table always show the same answer, however answers overtake
\* each other and whatever the user clicks between them.
THEOREM ViewsCorrect == Spec => []ViewsAgree
<1>1. IInv => ViewsAgree
  BY DEF IInv
<1>. QED  BY <1>1, Invariance, PTL

\* No answer takes the user away from a host it still lists.
THEOREM ChoiceCorrect == Spec => ChoiceKept
<1>. DEFINE Kept == \A h \in Hosts :
       h = currentHost /\ (\E i \in DOMAIN latestArray : latestArray[i].hostname = h)
         /\ (\E i \in DOMAIN latestArray' : latestArray'[i].hostname = h)
         /\ (\E s \in Slots : request'[s] # request[s])
       => currentHost' = h
<1>1. IInv /\ [Next]_vars => [Kept]_vars
  <2>. SUFFICES ASSUME IInv, Next,
                       NEW h \in Hosts, h = currentHost,
                       NEW k \in DOMAIN latestArray, latestArray[k].hostname = h,
                       NEW j \in DOMAIN latestArray', latestArray'[j].hostname = h,
                       NEW t \in Slots, request'[t] # request[t]
                PROVE  currentHost' = h
    OBVIOUS
  <2>1. CASE \E s \in Slots : OnReplyFinished(s)
    <3>1. PICK s \in Slots : OnReplyFinished(s)
      BY <2>1
    <3>. DEFINE array == request[s].array
    <3>2. /\ latestArray' = array /\ array # <<>> /\ RefillSelector(array)
          /\ currentHost' = array[hostSelector'.index].hostname /\ IsAnswer(array)
      BY <3>1 DEF OnReplyFinished, UpdateAllForCurrentHost, IInv, TypeOK
    <3>. HIDE DEF array
    <3>3. j \in 1..Len(array) /\ array[j].hostname = h
      BY <3>2, AnswerShape
    <3>4. latestArray # <<>> /\ IsAnswer(latestArray)
      BY AnswerShape DEF IInv, TypeOK
    <3>5. /\ hostSelector.items = Hostnames(latestArray) /\ hostSelector.index # 0
          /\ hostSelector.index \in DOMAIN latestArray
          /\ latestArray[hostSelector.index].hostname = h
      BY <3>4, AnswerShape DEF IInv, TypeOK, ViewsAgree
    <3>6. array[j].hostname = hostSelector.items[hostSelector.index]
      BY <3>3, <3>4, <3>5, AnswerShape
    <3>. QED  BY <3>2, <3>3, <3>5, <3>6, SelectorRefilled
  <2>2. CASE \E s \in Slots : OnEmptyReply(s)
    BY <2>2 DEF OnEmptyReply, view
  <2>3. CASE \/ \E g \in Hosts : Report(g) \/ Expire(g)
             \/ \E s \in Slots : FetchData(s) \/ Serve(s) \/ OnReplyFailed(s)
    BY <2>3 DEF Report, Expire, FetchData, Serve, OnReplyFailed, view
  <2>4. CASE \/ \E i \in 1..Len(hostSelector.items) : OnHostSelected(i)
             \/ \E button \in PageButtons : OnPageButton(button)
    BY <2>4 DEF OnHostSelected, OnPageButton, network
  <2>. QED  BY <2>1, <2>2, <2>3, <2>4 DEF Next
<1>. QED  BY <1>1, Invariance, PTL DEF Spec, ChoiceKept
=============================================================================
