-------------------------- MODULE AdminScreenProofs --------------------------
(***************************************************************************)
(* The administrator's screen, for any reports, users and logins.          *)
(***************************************************************************)
EXTENDS AdminScreen, SessionProofs, FiniteSetTheorems, WellFoundedInduction

(* The fairness panel needs more than its own property to go on holding:   *)
(* it is only ever active with charts that are made, and what has been     *)
(* reported is kept.                                                       *)
PanelInv ==
  /\ PanelIsOfOneReport
  /\ panel = "panel-fairness" => chartsInitialized
  /\ reported => lastFairnessData # <<>>

AdminInv == SessionInv /\ PanelInv

LEMMA AdminStarts == Init => AdminInv
BY SessionStarts DEF Init, AdminInv, PanelInv, PanelIsOfOneReport

(* What the administrator's screen does is a step of the session.          *)
LEMMA AdminIsSession == ASSUME [Next]_vars PROVE SessionStep
<1>1. CASE Enter \/ Leave \/ Events
  BY <1>1 DEF Enter, Leave, Events, SessionStep
<1>2. CASE \E p \in Panels : ChoosePanel(p)
  BY <1>2 DEF ChoosePanel, SessionStep
<1>3. CASE \E s \in DOMAIN sockets : addAdminRow(s)
  BY <1>3 DEF addAdminRow, SessionStep
<1>4. CASE \E s \in DOMAIN sockets, report \in Reports : handleFairness(s, report)
  BY <1>4 DEF handleFairness, SessionStep
<1>5. QED BY <1>1, <1>2, <1>3, <1>4 DEF Next, vars, SessionStep

(* A message is handled in the role of the screen.                         *)
LEMMA RoleIsScreen ==
  ASSUME SessionInv, NEW s \in DOMAIN sockets, NEW role, Receives(s, role)
  PROVE  role = screen
BY DEF SessionInv, LiveSocketIsTheScreens, Receives

LEMMA PanelKeeps == ASSUME AdminInv, [Next]_vars PROVE PanelInv'
<1> USE DEF PanelInv, PanelIsOfOneReport
<1>1. CASE Enter
  BY <1>1 DEF Enter, chart, AdminInv
<1>2. CASE Leave
  BY <1>2 DEF Leave, logout, admin, chart, AdminInv
<1>3. CASE Events
  <2>1. screen' = screen /\ UNCHANGED admin
    BY <1>3 DEF Events, Connections, OtherTab, Opened, Closed, OtherTabRegisters
  <2>2. QED BY <2>1 DEF admin, chart, AdminInv
<1>4. ASSUME NEW p \in Panels, ChoosePanel(p) PROVE PanelInv'
  <2>1. /\ panel' = p /\ screen' = screen
        /\ UNCHANGED <<lastFairnessData, summary, reported>>
        /\ \/ p = "panel-fairness" /\ chartsInitialized' = TRUE /\ charts' = ChartsChosen
           \/ p # "panel-fairness" /\ UNCHANGED chart
    BY <1>4 DEF ChoosePanel, session
  <2>2. reported => ChartsChosen = Bars(lastFairnessData)
    BY DEF AdminInv, ChartsChosen, Drawn
  <2>3. QED BY <2>1, <2>2 DEF AdminInv, chart
<1>5. CASE \E s \in DOMAIN sockets : addAdminRow(s)
  BY <1>5 DEF addAdminRow, session, chart, AdminInv
<1>6. ASSUME NEW s \in DOMAIN sockets, NEW report \in Reports, handleFairness(s, report)
      PROVE  PanelInv'
  <2>1. PICK role \in Roles :
          /\ Receives(s, role) /\ report # <<>> /\ lastFairnessData' = report
          /\ role = "admin" =>
               /\ charts' = IF chartsInitialized THEN Drawn(charts, report) ELSE charts
               /\ summary' = Summary(report)
          /\ UNCHANGED <<screen, panel, chartsInitialized>>
    BY <1>6 DEF handleFairness, session
  <2>2. role = screen
    BY <2>1, RoleIsScreen DEF AdminInv
  <2>3. QED BY <2>1, <2>2 DEF AdminInv, Drawn
<1>7. CASE UNCHANGED vars
  BY <1>7 DEF vars, session, admin, chart, AdminInv
<1>8. QED BY <1>1, <1>2, <1>3, <1>4, <1>5, <1>6, <1>7 DEF Next

(* The accounts, websockets and indicators stay right, and the panel is of *)
(* one report.                                                             *)
THEOREM AdminInvariant == Spec => []AdminInv
<1>1. AdminInv /\ [Next]_vars => AdminInv'
  BY AdminIsSession, SessionKeeps, PanelKeeps DEF AdminInv
<1>2. QED BY AdminStarts, <1>1, PTL DEF Spec

(* Nobody's name is registered twice, whatever two tabs store at once.     *)
THEOREM OneAccountPerNameAlways == Spec => []OneAccountPerName
BY AdminInvariant, PTL DEF AdminInv, SessionInv

(* Messages are only handled for the screen on display.                    *)
THEOREM LiveSocketIsTheScreensAlways == Spec => []LiveSocketIsTheScreens
BY AdminInvariant, PTL DEF AdminInv, SessionInv

(* LIVE is lit only for a websocket that is not known to be closed.        *)
THEOREM LiveIsHonestAlways == Spec => []LiveIsHonest
BY AdminInvariant, PTL DEF AdminInv, SessionInv

(* Charts, statistics and verdict are all of the last report.              *)
THEOREM PanelIsOfOneReportAlways == Spec => []PanelIsOfOneReport
BY AdminInvariant, PTL DEF AdminInv, PanelInv
-----------------------------------------------------------------------------
(***************************************************************************)
(* The stream: nodes shows the last n of count rows, newest first, and may *)
(* still have the white space the page was loaded with, behind them all.   *)
(***************************************************************************)
Shows(nodes, n, count) ==
  /\ nodes \in Seq({Text} \cup {<<i>> : i \in 1..count})
  /\ n <= count
  /\ Len(nodes) = n \/ (Len(nodes) = n + 1 /\ nodes[n + 1] = Text)
  /\ \A i \in 1..n : nodes[i] = <<count + 1 - i>>

StreamInv ==
  /\ adminTotalCount \in 0..MaxStream
  /\ \E n \in Nat : /\ Shows(stream, n, adminTotalCount)
                    /\ n >= adminTotalCount \/ n >= MAX_STREAM_ROWS

(* The rows are counted right.                                             *)
LEMMA RowsCounted ==
  ASSUME NEW count \in Nat, NEW n \in Nat, NEW nodes, Shows(nodes, n, count)
  PROVE  /\ RowCount(nodes) = n
         /\ {i \in DOMAIN nodes : nodes[i] # Text} = 1..n
<1> DEFINE len == Len(nodes)
<1>1. /\ len \in Nat /\ DOMAIN nodes = 1..len
      /\ len = n \/ len = n + 1
      /\ len = n + 1 => nodes[n + 1] = Text
  BY DEF Shows
<1>2. ASSUME NEW i \in 1..n PROVE nodes[i] # Text
  <2>1. nodes[i] = <<count + 1 - i>>
    BY DEF Shows
  <2> QED BY <2>1 DEF Text
<1> HIDE DEF len
<1>3. {i \in DOMAIN nodes : nodes[i] # Text} = 1..n
  <2>1. 1..n \subseteq 1..len
    BY <1>1
  <2>2. ASSUME NEW i \in 1..len, nodes[i] # Text PROVE i \in 1..n
    <3>1. i # n + 1 \/ len = n
      BY <1>1, <2>2
    <3> QED BY <1>1, <3>1
  <2> QED BY <1>1, <1>2, <2>1, <2>2
<1>4. Cardinality(1..n) = n
  <2>1. n \in Int /\ 1 \in Int
    OBVIOUS
  <2>2. Cardinality(1..n) = IF 1 > n THEN 0 ELSE n - 1 + 1
    BY <2>1, FS_Interval
  <2>3. (IF 1 > n THEN 0 ELSE n - 1 + 1) = n
    OBVIOUS
  <2> QED BY <2>2, <2>3
<1>5. RowCount(nodes) = Cardinality({i \in DOMAIN nodes : nodes[i] # Text})
  BY DEF RowCount
<1>6. RowCount(nodes) = Cardinality(1..n)
  BY <1>3, <1>5, Zenon
<1> QED BY <1>3, <1>4, <1>6

(* A new row in front; what falls off is white space, or a row that is one *)
(* too many.                                                               *)
LEMMA RowInserted ==
  ASSUME NEW count \in Nat, NEW n \in Nat, NEW nodes, Shows(nodes, n, count),
         NEW max \in Nat
  PROVE  \E m \in Nat : /\ Shows(InsertRow(<<count + 1>>, nodes, max), m, count + 1)
                        /\ m = n + 1 \/ (m = n /\ n >= max)
<1> DEFINE Node == {Text} \cup {<<i>> : i \in 1..(count + 1)}
           row == <<count + 1>>
           all == <<row>> \o nodes
           cut == SubSeq(all, 1, Len(all) - 1)
<1>1. /\ nodes \in Seq(Node) /\ row \in Node
      /\ n <= count
      /\ Len(nodes) = n \/ (Len(nodes) = n + 1 /\ nodes[n + 1] = Text)
      /\ \A i \in 1..n : nodes[i] = <<count + 1 - i>>
  <2>1. {Text} \cup {<<i>> : i \in 1..count} \subseteq Node
    OBVIOUS
  <2>2. nodes \in Seq({Text} \cup {<<i>> : i \in 1..count})
    BY DEF Shows
  <2>3. nodes \in Seq(Node)
    BY <2>1, <2>2
  <2> QED BY <2>3 DEF Shows
<1> HIDE DEF Node
<1>2. /\ all \in Seq(Node) /\ Len(all) = Len(nodes) + 1 /\ all[1] = row
      /\ \A i \in 1..Len(nodes) : all[i + 1] = nodes[i]
  BY <1>1
<1> HIDE DEF all
<1>3. \A i \in 1..(n + 1) : all[i] = <<count + 1 + 1 - i>>
  <2>1. ASSUME NEW i \in 1..(n + 1), i # 1 PROVE all[i] = <<count + 1 + 1 - i>>
    <3>1. i - 1 \in 1..n /\ i - 1 \in 1..Len(nodes) /\ (i - 1) + 1 = i
      BY <1>1, <2>1
    <3>2. all[i] = nodes[i - 1] /\ nodes[i - 1] = <<count + 1 - (i - 1)>>
      BY <1>1, <1>2, <3>1
    <3>3. count + 1 - (i - 1) = count + 1 + 1 - i
      OBVIOUS
    <3> QED BY <3>2, <3>3
  <2>2. all[1] = <<count + 1 + 1 - 1>>
    <3>1. count + 1 + 1 - 1 = count + 1
      OBVIOUS
    <3> QED BY <1>2, <3>1
  <2> QED BY <2>1, <2>2
<1>4. Shows(all, n + 1, count + 1)
  <2>1. all \in Seq({Text} \cup {<<i>> : i \in 1..(count + 1)})
    BY <1>2 DEF Node
  <2>2. Len(nodes) \in Nat
    BY <1>1
  <2>3. Len(all) = n + 1 \/ (Len(all) = n + 1 + 1 /\ all[n + 1 + 1] = Text)
    <3>1. CASE Len(nodes) = n + 1 /\ nodes[n + 1] = Text
      <4>1. n + 1 \in 1..Len(nodes)
        BY <3>1
      <4> QED BY <1>2, <3>1, <4>1
    <3> QED BY <1>1, <1>2, <3>1
  <2> QED BY <1>1, <1>3, <2>1, <2>3 DEF Shows
<1>5. RowCount(all) = n + 1
  BY <1>4, RowsCounted
<1>6. InsertRow(row, nodes, max) = IF n + 1 > max THEN cut ELSE all
  BY <1>5 DEF InsertRow, all
<1>7. CASE ~ (n + 1 > max)
  BY <1>4, <1>6, <1>7
<1>8. CASE n + 1 > max
  <2>1. /\ cut \in Seq(Node) /\ Len(cut) = Len(nodes)
        /\ \A i \in 1..Len(nodes) : cut[i] = all[i]
    BY <1>1, <1>2
  <2> HIDE DEF cut
  <2>4. cut \in Seq({Text} \cup {<<i>> : i \in 1..(count + 1)})
    BY <2>1 DEF Node
  <2>2. CASE Len(nodes) = n
    <3>1. Shows(cut, n, count + 1)
      <4>1. \A i \in 1..n : cut[i] = <<count + 1 + 1 - i>>
        BY <1>3, <2>1, <2>2
      <4> QED BY <1>1, <2>1, <2>2, <2>4, <4>1 DEF Shows
    <3> QED BY <1>6, <1>8, <3>1
  <2>3. CASE Len(nodes) = n + 1
    <3>1. Shows(cut, n + 1, count + 1)
      <4>1. \A i \in 1..(n + 1) : cut[i] = <<count + 1 + 1 - i>>
        BY <1>3, <2>1, <2>3
      <4> QED BY <1>1, <2>1, <2>3, <2>4, <4>1 DEF Shows
    <3> QED BY <1>6, <1>8, <3>1
  <2> QED BY <1>1, <2>2, <2>3
<1> QED BY <1>7, <1>8

LEMMA StreamStarts == Init => StreamInv
<1> SUFFICES ASSUME Init PROVE StreamInv
  OBVIOUS
<1>1. stream = <<Text>> /\ adminTotalCount = 0 /\ MaxStream \in Nat
  BY AdminAssumption DEF Init
<1>2. Shows(<<Text>>, 0, 0)
  BY DEF Shows
<1> QED BY <1>1, <1>2 DEF StreamInv

LEMMA StreamKeeps == ASSUME StreamInv, [Next]_vars PROVE StreamInv'
<1>1. ASSUME NEW s \in DOMAIN sockets, addAdminRow(s) PROVE StreamInv'
  <2>1. /\ adminTotalCount < MaxStream /\ adminTotalCount' = adminTotalCount + 1
        /\ stream' = InsertRow(<<adminTotalCount + 1>>, stream, MAX_STREAM_ROWS)
    BY <1>1 DEF addAdminRow
  <2>2. /\ adminTotalCount \in Nat /\ MaxStream \in Nat /\ MAX_STREAM_ROWS \in Nat
        /\ adminTotalCount \in 0..MaxStream
    BY AdminAssumption DEF StreamInv
  <2>3. PICK n \in Nat : /\ Shows(stream, n, adminTotalCount)
                         /\ n >= adminTotalCount \/ n >= MAX_STREAM_ROWS
    BY DEF StreamInv
  <2>4. PICK m \in Nat : /\ Shows(stream', m, adminTotalCount + 1)
                         /\ m = n + 1 \/ (m = n /\ n >= MAX_STREAM_ROWS)
    BY <2>1, <2>2, <2>3, RowInserted
  <2> QED BY <2>1, <2>2, <2>3, <2>4 DEF StreamInv
<1>2. CASE UNCHANGED <<stream, adminTotalCount>>
  BY <1>2 DEF StreamInv
<1> QED BY <1>1, <1>2 DEF Next, Enter, Leave, Events, ChoosePanel, handleFairness, admin, vars

LEMMA StreamAlways == Spec => []StreamInv
BY StreamStarts, StreamKeeps, PTL DEF Spec

(* The stream shows the latest rows, newest first, and as many of them as  *)
(* there are or as it has room for, however the white space is removed.    *)
THEOREM StreamIsAlwaysOfTheLatest == Spec => []StreamIsOfTheLatest
<1>1. StreamInv => StreamIsOfTheLatest
  <2> SUFFICES ASSUME StreamInv PROVE StreamIsOfTheLatest
    OBVIOUS
  <2>1. adminTotalCount \in Nat /\ MAX_STREAM_ROWS \in Nat
    BY AdminAssumption DEF StreamInv
  <2>2. PICK n \in Nat : /\ Shows(stream, n, adminTotalCount)
                         /\ n >= adminTotalCount \/ n >= MAX_STREAM_ROWS
    BY DEF StreamInv
  <2>3. /\ RowCount(stream) = n
        /\ {i \in DOMAIN stream : stream[i] # Text} = 1..n
    BY <2>1, <2>2, RowsCounted
  <2>4. \A i \in 1..n : stream[i] = <<adminTotalCount + 1 - i>>
    BY <2>2 DEF Shows
  <2> QED BY <2>1, <2>2, <2>3, <2>4 DEF StreamIsOfTheLatest
<1> QED BY <1>1, StreamAlways, PTL
-----------------------------------------------------------------------------
(***************************************************************************)
(* The bars: one of YOU, or none, and then those of bots by their ids.     *)
(***************************************************************************)
Bar == [id : Nat, avg_lat : Nat, fill_rate : Nat]

Sorted(bars, you) ==
  /\ bars \in Seq(Bar)
  /\ you \in {0, 1} /\ you <= Len(bars) /\ Len(bars) <= MaxBots + you
  /\ \A i \in 1..Len(bars) : bars[i].id = YOU <=> i = you
  /\ \A i, j \in (you + 1)..Len(bars) : i < j => bars[i].id < bars[j].id

(* Every place among n sorted bots is the place of one of them, and places *)
(* are in the order of ids.                                                *)
LEMMA Places ==
  ASSUME NEW report \in Reports
  PROVE  /\ IsFiniteSet(Bots(report))
         /\ \A p \in 1..Cardinality(Bots(report)) :
              \E i \in Bots(report) : Place(report, i) = p
         /\ \A i, j \in Bots(report) :
              Place(report, i) < Place(report, j) => report[i].id < report[j].id
<1> DEFINE B == Bots(report)
           upto(i) == {j \in B : report[j].id <= report[i].id}
           place == [i \in B |-> Place(report, i)]
<1>1. /\ report \in Seq(Bar) /\ DOMAIN report = 1..Len(report) /\ B \subseteq 1..Len(report)
      /\ Len(report) \in Nat
      /\ \A i, j \in B : report[i].id = report[j].id => i = j
  BY AdminAssumption DEF Bots, Bar
<1>2. \A i \in B : report[i].id \in Nat
  <2>1. \A i \in B : report[i] \in Bar
    BY <1>1
  <2> QED BY <2>1 DEF Bar
<1> HIDE DEF B
<1>3. IsFiniteSet(B) /\ Cardinality(B) \in Nat
  <2>1. 1 \in Int /\ Len(report) \in Int
    BY <1>1
  <2>2. IsFiniteSet(1..Len(report))
    BY <2>1, FS_Interval
  <2> QED BY <1>1, <2>2, FS_Subset, FS_CardinalityType
<1>4. ASSUME NEW i \in B
      PROVE  /\ IsFiniteSet(upto(i)) /\ Place(report, i) = Cardinality(upto(i))
             /\ Place(report, i) \in 1..Cardinality(B) /\ Place(report, i) \in Nat
  <2>1. upto(i) \in SUBSET B /\ i \in upto(i)
    BY <1>2, <1>4
  <2>2. IsFiniteSet(upto(i)) /\ Cardinality(upto(i)) <= Cardinality(B)
    BY <1>3, <2>1, FS_Subset
  <2>3. Cardinality(upto(i)) \in Nat /\ Cardinality(upto(i)) # 0
    BY <2>1, <2>2, FS_CardinalityType, FS_EmptySet
  <2>4. Place(report, i) = Cardinality(upto(i))
    BY DEF Place, B
  <2> HIDE DEF upto
  <2> QED BY <1>3, <2>2, <2>3, <2>4
<1>5. ASSUME NEW i \in B, NEW j \in B, report[i].id < report[j].id
      PROVE  Place(report, i) < Place(report, j)
  <2>1. upto(i) \in SUBSET upto(j) /\ j \in upto(j) /\ j \notin upto(i)
    BY <1>2, <1>5
  <2>2. Cardinality(upto(i)) <= Cardinality(upto(j)) /\ Cardinality(upto(i)) # Cardinality(upto(j))
    BY <1>4, <2>1, FS_Subset
  <2>3. Place(report, i) \in Nat /\ Place(report, j) \in Nat
    BY <1>4, Zenon
  <2> HIDE DEF upto
  <2> QED BY <1>4, <2>2, <2>3
<1> HIDE DEF upto
<1>6. \A i, j \in B : i # j => Place(report, i) # Place(report, j)
  <2> SUFFICES ASSUME NEW i \in B, NEW j \in B, i # j
               PROVE  Place(report, i) # Place(report, j)
    OBVIOUS
  <2>1. report[i].id < report[j].id \/ report[j].id < report[i].id
    BY <1>1, <1>2
  <2>2. Place(report, i) \in Nat /\ Place(report, j) \in Nat
    BY <1>4
  <2> QED BY <1>5, <2>1, <2>2
<1>7. ASSUME NEW i \in B, NEW j \in B, Place(report, i) < Place(report, j)
      PROVE  report[i].id < report[j].id
  <2>1. CASE report[j].id < report[i].id
    <3>1. Place(report, j) < Place(report, i)
      BY <1>5, <2>1
    <3> QED BY <1>4, <1>7, <3>1
  <2>2. CASE report[j].id = report[i].id
    BY <1>1, <1>4, <1>7, <2>2
  <2> QED BY <1>2, <2>1, <2>2
<1>8. ASSUME NEW p \in 1..Cardinality(B), \A i \in B : Place(report, i) # p
      PROVE  FALSE
  <2> DEFINE n == Cardinality(B)
             T == (1..n) \ {p}
  <2>1. IsFiniteSet(1..n) /\ Cardinality(1..n) = n
    <3>1. n \in Nat /\ n \in Int /\ 1 \in Int
      BY <1>3
    <3> HIDE DEF n
    <3>2. IsFiniteSet(1..n) /\ Cardinality(1..n) = IF 1 > n THEN 0 ELSE n - 1 + 1
      BY <3>1, FS_Interval
    <3>3. (IF 1 > n THEN 0 ELSE n - 1 + 1) = n
      BY <3>1
    <3> QED BY <3>2, <3>3
  <2>2. IsFiniteSet(T) /\ Cardinality(T) = n - 1
    BY <1>8, <2>1, FS_RemoveElement
  <2>3. place \in [B -> T]
    BY <1>4, <1>8
  <2>4. Cardinality(T) < Cardinality(B)
    BY <1>3, <2>2
  <2> HIDE DEF T, place
  <2>5. \E i, j \in B : i # j /\ place[i] = place[j]
    BY <1>3, <2>2, <2>3, <2>4, FS_PigeonHole
  <2> QED BY <1>6, <2>5 DEF place
<1>9. \A p \in 1..Cardinality(B) : \E i \in B : Place(report, i) = p
  BY <1>8
<1>10. \A i, j \in B : Place(report, i) < Place(report, j) => report[i].id < report[j].id
  BY <1>7
<1> QED BY <1>3, <1>9, <1>10 DEF B

(* So the bars of a report are sorted.                                     *)
LEMMA BotBarsSorted ==
  ASSUME NEW report \in Reports
  PROVE  LET bots == Upto(BotBars(report), MaxBots)
         IN  /\ bots \in Seq(Bar) /\ Len(bots) <= MaxBots
             /\ \A i \in 1..Len(bots) : bots[i].id # YOU
             /\ \A i, j \in 1..Len(bots) : i < j => bots[i].id < bots[j].id
<1> DEFINE n == Cardinality(Bots(report))
           all == BotBars(report)
           bots == Upto(all, MaxBots)
           at(p) == CHOOSE i \in Bots(report) : Place(report, i) = p
<1>1. n \in Nat /\ MaxBots \in Nat
  BY Places, FS_CardinalityType, AdminAssumption
<1>2. ASSUME NEW p \in 1..n
      PROVE  at(p) \in Bots(report) /\ Place(report, at(p)) = p
  BY <1>2, Places
<1>3. \A i \in Bots(report) : report[i] \in Bar /\ report[i].id # YOU
  <2>1. report \in Seq(Bar)
    BY AdminAssumption DEF Bar
  <2> QED BY <2>1 DEF Bots, Manual
<1>4. all = [p \in 1..n |-> report[at(p)]]
  BY DEF BotBars
<1> HIDE DEF n, all, at
<1>5. ASSUME NEW p \in 1..n
      PROVE  all[p] \in Bar /\ all[p].id # YOU
  BY <1>2, <1>3, <1>4
<1>6. ASSUME NEW p \in 1..n, NEW q \in 1..n, p < q PROVE all[p].id < all[q].id
  <2>1. /\ at(p) \in Bots(report) /\ at(q) \in Bots(report)
        /\ Place(report, at(p)) < Place(report, at(q))
    BY <1>2, <1>6
  <2> QED BY <1>4, <2>1, Places
<1>7. all \in Seq(Bar) /\ Len(all) = n
  BY <1>1, <1>4, <1>5
<1>8. /\ bots \in Seq(Bar) /\ Len(bots) <= n /\ Len(bots) <= MaxBots
      /\ \A i \in 1..Len(bots) : bots[i] = all[i]
  BY <1>1, <1>7 DEF Upto
<1> HIDE DEF bots
<1>9. Len(bots) \in Nat /\ 1..Len(bots) \subseteq 1..n
  BY <1>1, <1>8
<1>10. \A i \in 1..Len(bots) : bots[i].id # YOU
  BY <1>5, <1>8, <1>9
<1>11. \A i, j \in 1..Len(bots) : i < j => bots[i].id < bots[j].id
  BY <1>6, <1>8, <1>9
<1> QED BY <1>8, <1>10, <1>11 DEF bots, all

LEMMA BarsSorted ==
  ASSUME NEW report \in Reports
  PROVE  \E you \in {0, 1} : Sorted(Bars(report), you)
<1> DEFINE bots == Upto(BotBars(report), MaxBots)
           bars == Bars(report)
<1>1. /\ bots \in Seq(Bar) /\ Len(bots) \in Nat /\ Len(bots) <= MaxBots /\ MaxBots \in Nat
      /\ \A i \in 1..Len(bots) : bots[i].id # YOU
      /\ \A i, j \in 1..Len(bots) : i < j => bots[i].id < bots[j].id
  BY BotBarsSorted, AdminAssumption
<1>2. bars = YouBar(report) \o bots
  BY DEF Bars
<1> HIDE DEF bots, bars
<1>3. CASE Manual(report) = {}
  <2>1. bars = bots
    BY <1>1, <1>2, <1>3 DEF YouBar
  <2>2. Sorted(bars, 0)
    BY <1>1, <2>1 DEF Sorted
  <2> QED BY <2>2 DEF bars
<1>4. CASE Manual(report) # {}
  <2> DEFINE first == report[CHOOSE i \in DOMAIN report : report[i].id = YOU]
  <2>1. first \in Bar /\ first.id = YOU
    <3>1. report \in Seq(Bar)
      BY AdminAssumption DEF Bar
    <3>2. PICK i \in DOMAIN report : report[i].id = YOU
      BY <1>4 DEF Manual
    <3> QED BY <3>1, <3>2
  <2>2. YouBar(report) = <<first>>
    BY <1>4 DEF YouBar
  <2> HIDE DEF first
  <2>3. /\ bars \in Seq(Bar) /\ Len(bars) = Len(bots) + 1 /\ bars[1] = first
        /\ \A i \in 1..Len(bots) : bars[i + 1] = bots[i]
    BY <1>1, <1>2, <2>1, <2>2
  <2>4. ASSUME NEW i \in 2..Len(bars)
        PROVE  i - 1 \in 1..Len(bots) /\ bars[i] = bots[i - 1]
    <3>1. i - 1 \in 1..Len(bots) /\ (i - 1) + 1 = i
      BY <1>1, <2>3, <2>4
    <3> QED BY <2>3, <3>1
  <2>5. ASSUME NEW i \in 1..Len(bars) PROVE bars[i].id = YOU <=> i = 1
    <3>1. CASE i = 1
      BY <2>1, <2>3, <3>1
    <3>2. CASE i # 1
      <4>1. i \in 2..Len(bars)
        BY <3>2
      <4> QED BY <1>1, <2>4, <3>2, <4>1
    <3> QED BY <3>1, <3>2
  <2>6. ASSUME NEW i \in 2..Len(bars), NEW j \in 2..Len(bars), i < j
        PROVE  bars[i].id < bars[j].id
    <3>1. i - 1 < j - 1
      BY <2>6
    <3> QED BY <1>1, <2>4, <3>1
  <2>7. Sorted(bars, 1)
    <3>1. 1 <= Len(bars) /\ Len(bars) <= MaxBots + 1
      BY <1>1, <2>3
    <3> QED BY <2>3, <2>5, <2>6, <3>1 DEF Sorted
  <2> QED BY <2>7 DEF bars
<1> QED BY <1>3, <1>4

(* Two sorted charts of the same traders have each at the same place: at   *)
(* the first place where they differ, the smaller id could be nowhere in   *)
(* the other chart.                                                        *)
LEMMA SamePlaces ==
  ASSUME NEW a, NEW b, NEW you, NEW too, Sorted(a, you), Sorted(b, too),
         Len(a) = Len(b),
         {a[i].id : i \in DOMAIN a} = {b[i].id : i \in DOMAIN b}
  PROVE  \A i \in DOMAIN a : b[i].id = a[i].id
<1> DEFINE len == Len(a)
<1>1. /\ len \in Nat /\ DOMAIN a = 1..len /\ DOMAIN b = 1..len /\ Len(b) = len
      /\ \A i \in 1..len : a[i].id \in Nat /\ b[i].id \in Nat
  <2>1. a \in Seq(Bar) /\ b \in Seq(Bar)
    BY DEF Sorted
  <2>2. \A i \in 1..len : a[i] \in Bar /\ b[i] \in Bar
    BY <2>1
  <2>3. \A i \in 1..len : a[i].id \in Nat /\ b[i].id \in Nat
    BY <2>2 DEF Bar
  <2>4. len \in Nat /\ DOMAIN a = 1..len /\ DOMAIN b = 1..len /\ Len(b) = len
    BY <2>1
  <2> QED BY <2>3, <2>4
<1>2. /\ you \in {0, 1} /\ too \in {0, 1} /\ you <= len /\ too <= len
      /\ \A i \in 1..len : a[i].id = YOU <=> i = you
      /\ \A i \in 1..len : b[i].id = YOU <=> i = too
      /\ \A i, j \in (you + 1)..len : i < j => a[i].id < a[j].id
      /\ \A i, j \in (too + 1)..len : i < j => b[i].id < b[j].id
  BY <1>1 DEF Sorted
<1> HIDE DEF len
<1>3. /\ \A i \in 1..len : \E j \in 1..len : a[i].id = b[j].id
      /\ \A i \in 1..len : \E j \in 1..len : b[i].id = a[j].id
  <2>1. \A x \in {a[i].id : i \in 1..len} : x \in {b[i].id : i \in 1..len}
    BY <1>1
  <2>2. \A x \in {b[i].id : i \in 1..len} : x \in {a[i].id : i \in 1..len}
    BY <1>1
  <2> QED BY <2>1, <2>2
<1>4. you = too
  <2>1. ASSUME you = 1 PROVE too = 1
    <3>1. 1 \in 1..len /\ a[1].id = YOU
      BY <1>1, <1>2, <2>1
    <3>2. PICK j \in 1..len : b[j].id = YOU
      BY <1>3, <3>1
    <3> QED BY <1>1, <1>2, <3>2
  <2>2. ASSUME too = 1 PROVE you = 1
    <3>1. 1 \in 1..len /\ b[1].id = YOU
      BY <1>1, <1>2, <2>2
    <3>2. PICK j \in 1..len : a[j].id = YOU
      BY <1>3, <3>1
    <3> QED BY <1>1, <1>2, <3>2
  <2> QED BY <1>2, <2>1, <2>2
<1> DEFINE D == {i \in 1..len : a[i].id # b[i].id}
<1>5. ASSUME D # {} PROVE FALSE
  <2>1. D \subseteq Nat
    BY <1>1
  <2>2. PICK k \in D : \A i \in D : k <= i
    <3> DEFINE Less == {ss \in Nat \X Nat : ss[1] < ss[2]}
    <3>1. IsWellFoundedOn(Less, Nat)
      BY NatLessThanWellFounded DEF OpToRel
    <3> HIDE DEF D, Less
    <3>2. \E k \in D : \A i \in D : ~ (<<i, k>> \in Less)
      BY <1>5, <2>1, <3>1, WFMin
    <3>3. PICK k \in D : \A i \in D : ~ (<<i, k>> \in Less)
      BY <3>2
    <3>4. \A i \in Nat : i < k => <<i, k>> \in Less
      BY <2>1 DEF Less
    <3>5. k \in Nat /\ \A i \in D : i \in Nat /\ ~ (i < k)
      BY <2>1, <3>3, <3>4
    <3> QED BY <3>5
  <2>3. /\ k \in 1..len /\ a[k].id # b[k].id
        /\ \A i \in 1..len : i < k => a[i].id = b[i].id
    BY <1>1, <2>2
  <2> HIDE DEF D
  <2>4. k # you
    BY <1>2, <1>4, <2>3
  <2>5. k \in (you + 1)..len
    BY <1>1, <1>2, <2>3, <2>4
  <2>6. PICK m \in 1..len : a[k].id = b[m].id
    BY <1>3, <2>3
  <2>7. PICK l \in 1..len : b[k].id = a[l].id
    BY <1>3, <2>3
  <2>8. m # you /\ l # you
    BY <1>2, <1>4, <2>3, <2>4, <2>6, <2>7
  <2>9. m \in (you + 1)..len /\ l \in (you + 1)..len
    BY <1>1, <1>2, <2>8
  <2>10. k < m
    <3>1. CASE m < k
      <4>1. a[m].id = a[k].id /\ a[m].id < a[k].id
        BY <1>2, <2>3, <2>5, <2>6, <2>9, <3>1
      <4> QED BY <1>1, <2>3, <4>1
    <3>2. m # k
      BY <2>3, <2>6
    <3> QED BY <1>1, <2>3, <3>1, <3>2
  <2>11. k < l
    <3>1. CASE l < k
      <4>1. b[l].id = b[k].id /\ b[l].id < b[k].id
        BY <1>2, <1>4, <2>3, <2>5, <2>7, <2>9, <3>1
      <4> QED BY <1>1, <2>3, <4>1
    <3>2. l # k
      BY <2>3, <2>7
    <3> QED BY <1>1, <2>3, <3>1, <3>2
  <2>12. b[k].id < b[m].id /\ a[k].id < a[l].id
    BY <1>2, <1>4, <2>5, <2>9, <2>10, <2>11
  <2> QED BY <1>1, <2>3, <2>6, <2>7, <2>12
<1> QED BY <1>1, <1>5
-----------------------------------------------------------------------------
(* What the charts and the panel hold.                                     *)
ChartsInv ==
  /\ panel \in Panels
  /\ lastFairnessData \in Reports \cup {<<>>}
  /\ chartsInitialized \in BOOLEAN
  /\ overlay \in BOOLEAN
  /\ \E you \in {0, 1} : Sorted(charts, you)

LEMMA EmptyChartSorted == Sorted(<<>>, 0)
BY AdminAssumption DEF Sorted

(* Drawing a report, or nothing, leaves sorted charts sorted.              *)
LEMMA DrawnSorted ==
  ASSUME NEW report \in Reports \cup {<<>>}, NEW on,
         \E you \in {0, 1} : Sorted(on, you)
  PROVE  \E you \in {0, 1} : Sorted(Drawn(on, report), you)
<1>1. CASE report = <<>>
  BY <1>1 DEF Drawn
<1>2. CASE report # <<>>
  BY <1>2, BarsSorted DEF Drawn
<1> QED BY <1>1, <1>2

LEMMA ChartsStart == Init => ChartsInv
BY EmptyChartSorted DEF Init, ChartsInv, Panels

LEMMA ChartsKeep == ASSUME ChartsInv, [Next]_vars PROVE ChartsInv'
<1>1. ASSUME NEW p \in Panels, ChoosePanel(p) PROVE ChartsInv'
  <2>1. /\ panel' = p /\ UNCHANGED <<lastFairnessData, overlay>>
        /\ \/ chartsInitialized' = TRUE /\ charts' = ChartsChosen
           \/ UNCHANGED <<chartsInitialized, charts>>
    BY <1>1 DEF ChoosePanel, chart
  <2>2. \E you \in {0, 1} : Sorted(initCharts, you)
    BY EmptyChartSorted DEF ChartsInv, initCharts
  <2>3. \E you \in {0, 1} : Sorted(ChartsChosen, you)
    BY <2>2, DrawnSorted DEF ChartsInv, ChartsChosen
  <2> QED BY <2>1, <2>3 DEF ChartsInv
<1>2. ASSUME NEW s \in DOMAIN sockets, NEW report \in Reports, handleFairness(s, report)
      PROVE  ChartsInv'
  <2>1. /\ UNCHANGED <<panel, chartsInitialized>> /\ lastFairnessData' = report
        /\ charts' \in {charts, Drawn(charts, report)} /\ overlay' \in {overlay, FALSE}
    BY <1>2 DEF handleFairness
  <2>2. \E you \in {0, 1} : Sorted(Drawn(charts, report), you)
    BY DrawnSorted DEF ChartsInv
  <2> QED BY <2>1, <2>2 DEF ChartsInv
<1>3. CASE UNCHANGED <<panel, chart, lastFairnessData, overlay>>
  BY <1>3 DEF ChartsInv, chart
<1> QED BY <1>1, <1>2, <1>3 DEF Next, Enter, Leave, Events, addAdminRow, admin, vars

LEMMA ChartsAlways == Spec => []ChartsInv
BY ChartsStart, ChartsKeep, PTL DEF Spec

(* A trader's bar stays where it is while the reports are of the same      *)
(* traders, in whatever order the exchange lists them and however many of  *)
(* them there is room for.                                                 *)
THEOREM BarsAlwaysKeepTheirPlaces == Spec => BarsKeepTheirPlaces
<1> DEFINE Kept ==
      /\ Len(charts) = Len(charts')
      /\ {charts[i].id : i \in DOMAIN charts} = {charts'[i].id : i \in DOMAIN charts'}
      => \A i \in DOMAIN charts : charts'[i].id = charts[i].id
<1>1. ChartsInv /\ ChartsInv' => Kept
  BY SamePlaces DEF ChartsInv
<1>2. ChartsInv /\ [Next]_vars => [Kept]_vars
  BY <1>1, ChartsKeep
<1> QED BY <1>2, ChartsAlways, PTL DEF Spec, BarsKeepTheirPlaces

(* The values of the variables; no chart has more bars than there is room  *)
(* for bots, and one.                                                      *)
THEOREM AdminTypeCorrect == Spec => []TypeOK
<1>1. AdminInv /\ StreamInv /\ ChartsInv => TypeOK
  <2> SUFFICES ASSUME AdminInv, StreamInv, ChartsInv PROVE TypeOK
    OBVIOUS
  <2>1. stream \in Seq({Text} \cup {<<i>> : i \in 1..MaxStream})
    <3>1. stream \in Seq({Text} \cup {<<i>> : i \in 1..adminTotalCount})
      BY DEF StreamInv, Shows
    <3>2. {Text} \cup {<<i>> : i \in 1..adminTotalCount} \subseteq {Text} \cup {<<i>> : i \in 1..MaxStream}
      BY AdminAssumption DEF StreamInv
    <3> HIDE DEF Text
    <3> QED BY <3>1, <3>2
  <2>2. Len(charts) <= MaxBots + 1
    <3>1. PICK you \in {0, 1} : Sorted(charts, you)
      BY DEF ChartsInv
    <3>2. Len(charts) \in Nat /\ Len(charts) <= MaxBots + you
      BY <3>1 DEF Sorted
    <3> QED BY <3>2, AdminAssumption
  <2> QED BY <2>1, <2>2 DEF TypeOK, AdminInv, SessionInv, StreamInv, ChartsInv
<1> QED BY <1>1, AdminInvariant, StreamAlways, ChartsAlways, PTL
=============================================================================
