----------------------------- MODULE AdminScreen -----------------------------
(***************************************************************************)
(* The administrator's screen: the stream of orders and trades, and the    *)
(* panel that compares the traders' latencies and fill rates in charts.    *)
(* Reports on fairness arrive on either screen and are kept for the panel. *)
(*                                                                         *)
(* A report is a sequence of records of a trader's id, average latency and *)
(* fill rate, in the order of the exchange's hash map; a trader in it is   *)
(* known by his place.  Latencies are in tenths of a millisecond; an       *)
(* average is a pair of a sum and a number, so that comparing them is      *)
(* exact.                                                                  *)
(***************************************************************************)
EXTENDS Session, FiniteSetsExt

CONSTANTS
  Reports,           (* the reports that may arrive                         *)
  MAX_STREAM_ROWS,   (* the rows after which the stream is cut, 80          *)
  MaxBots,           (* the bots that a chart has room for, 15              *)
  MaxStream          (* bound: the rows added to the stream                 *)

YOU == 99999

ASSUME AdminAssumption ==
  /\ Reports \subseteq Seq([id : Nat, avg_lat : Nat, fill_rate : Nat])
  /\ \A r \in Reports : \A i, j \in DOMAIN r : r[i].id = r[j].id => i = j
  /\ MAX_STREAM_ROWS \in Nat
  /\ MaxBots \in Nat
  /\ MaxStream \in Nat

VARIABLES
  stream,            (* the nodes of the stream, a row by its number        *)
  adminTotalCount,
  panel,             (* the panel that is active                            *)
  chartsInitialized,
  charts,            (* the bars that both charts show                      *)
  lastFairnessData,  (* the last report, <<>> before the first              *)
  summary,           (* the bar of statistics and the average above stream  *)
  overlay,           (* do the charts say they wait for data?               *)
  reported           (* history: has a report come in since the last login? *)

chart == <<chartsInitialized, charts>>
admin == <<stream, adminTotalCount, panel, chart, lastFairnessData, summary,
           overlay, reported>>
vars == <<session, admin>>

Panels == {"panel-stream", "panel-fairness"}
-----------------------------------------------------------------------------
(* The traders of a report.                                                *)
Manual(report) == {i \in DOMAIN report : report[i].id = YOU}
Bots(report) == DOMAIN report \ Manual(report)

UptoUnbounded(s, n) == s  (* a mutant                                       *)
Upto(s, n) == IF Len(s) > n THEN SubSeq(s, 1, n) ELSE s

(* The place of bot i among the bots that are sorted by their ids.         *)
PlaceAsReported(report, i) == Cardinality({j \in Bots(report) : j <= i})  (* a mutant *)
Place(report, i) == Cardinality({j \in Bots(report) : report[j].id <= report[i].id})

YouBar(report) ==
  IF Manual(report) = {} THEN <<>>
  ELSE <<report[CHOOSE i \in DOMAIN report : report[i].id = YOU]>>
BotBars(report) ==
  [p \in 1..Cardinality(Bots(report)) |->
     report[CHOOSE i \in Bots(report) : Place(report, i) = p]]

(* updateCharts: YOU first, then the bots by id, as far as there is room.  *)
Bars(report) ==
  YouBar(report) \o Upto(BotBars(report), MaxBots)

(* What updateCharts makes of charts that are there: nothing changes for   *)
(* an empty report.                                                        *)
Drawn(on, report) == IF report = <<>> THEN on ELSE Bars(report)

Average(report, traders) ==
  [sum |-> MapThenSumSet(LAMBDA i : report[i].avg_lat, traders),
   n |-> Cardinality(traders)]

Apart(a, b) == IF a > b THEN a - b ELSE b - a

(* The verdict on the manual orders' latency: fair within 2.5 times the    *)
(* bots' average, or half a millisecond.  Without bots that average is 0.  *)
Fair(latency, bots) ==
  LET n == IF bots.n = 0 THEN 1 ELSE bots.n
  IN  \/ 2 * n * latency <= 5 * bots.sum
      \/ Apart(n * latency, bots.sum) < 5 * n

Verdict(report) ==
  IF Manual(report) = {} THEN "WAITING"
  ELSE IF \A i \in Manual(report) : Fair(report[i].avg_lat, Average(report, Bots(report)))
       THEN "FAIR" ELSE "SKEWED"

Summary(report) ==
  [traders |-> Len(report), all |-> Average(report, DOMAIN report),
   bots |-> Average(report, Bots(report)), verdict |-> Verdict(report)]
-----------------------------------------------------------------------------
Init ==
  /\ SessionInit
  /\ stream = <<Text>>
  /\ adminTotalCount = 0
  /\ panel = "panel-stream"
  /\ chartsInitialized = FALSE
  /\ charts = <<>>
  /\ lastFairnessData = <<>>
  /\ summary = Summary(<<>>)
  /\ overlay = TRUE
  /\ reported = FALSE

Enter ==
  /\ SignIn
  /\ reported' = FALSE
  /\ UNCHANGED <<stream, adminTotalCount, panel, chart, lastFairnessData, summary, overlay>>

Leave == logout /\ UNCHANGED admin

(* The charts when the fairness panel is chosen: made the first time, then *)
(* filled from the report that was kept.                                   *)
initCharts == IF chartsInitialized THEN charts ELSE <<>>
ChartsMadeOnly == initCharts  (* a mutant                                   *)
ChartsChosen == Drawn(initCharts, lastFairnessData)

(* A button of the administrator's navigation.                             *)
ChoosePanel(p) ==
  /\ screen = "admin"
  /\ panel' = p
  /\ IF p = "panel-fairness"
     THEN chartsInitialized' = TRUE /\ charts' = ChartsChosen
     ELSE UNCHANGED chart
  /\ UNCHANGED <<session, stream, adminTotalCount, lastFairnessData, summary, overlay, reported>>

(* handleOrderArrival, handleTrade, handleManualFill: each adds a row.     *)
addAdminRow(s) ==
  /\ Receives(s, "admin")
  /\ adminTotalCount < MaxStream
  /\ adminTotalCount' = adminTotalCount + 1
  /\ stream' = InsertRow(<<adminTotalCount'>>, stream, MAX_STREAM_ROWS)
  /\ UNCHANGED <<session, panel, chart, lastFairnessData, summary, overlay, reported>>

handleFairness(s, report) ==
  \E role \in Roles :
    /\ Receives(s, role)
    /\ report # <<>>
    /\ lastFairnessData' = report
    /\ reported' = TRUE
    /\ IF role = "admin"
       THEN /\ charts' = IF chartsInitialized THEN Drawn(charts, report) ELSE charts
            /\ summary' = Summary(report)
            /\ overlay' = FALSE
       ELSE UNCHANGED <<charts, summary, overlay>>
    /\ UNCHANGED <<session, stream, adminTotalCount, panel, chartsInitialized>>

Events ==
  /\ Connections \/ OtherTab
  /\ UNCHANGED admin

Next ==
  \/ Enter
  \/ Leave
  \/ Events
  \/ \E p \in Panels : ChoosePanel(p)
  \/ \E s \in DOMAIN sockets : addAdminRow(s)
  \/ \E s \in DOMAIN sockets, report \in Reports : handleFairness(s, report)

Spec == Init /\ [][Next]_vars
FairSpec == Spec /\ ClosesComplete
-----------------------------------------------------------------------------
(***************************************************************************)
(* Properties.                                                             *)
(***************************************************************************)
(* The values of the variables.                                            *)
TypeOK ==
  /\ SessionTypeOK
  /\ stream \in Seq({Text} \cup {<<i>> : i \in 1..MaxStream})
  /\ adminTotalCount \in 0..MaxStream
  /\ panel \in Panels
  /\ lastFairnessData \in Reports \cup {<<>>}
  /\ chartsInitialized \in BOOLEAN
  /\ Len(charts) <= MaxBots + 1
  /\ overlay \in BOOLEAN

(* Once a report has come in since the administrator logged in, the charts,*)
(* the bar of statistics and the verdict are all of the last report: also  *)
(* when the panel was opened after it, and whatever was kept or drawn in   *)
(* sessions before.                                                        *)
PanelIsOfOneReport ==
  screen = "admin" /\ reported =>
    /\ summary = Summary(lastFairnessData)
    /\ panel = "panel-fairness" => charts = Bars(lastFairnessData)

(* The stream is of the latest rows, newest first, and none of the last    *)
(* MAX_STREAM_ROWS is missing.                                             *)
StreamIsOfTheLatest ==
  /\ \A i \in DOMAIN stream :
       stream[i] # Text => stream[i] = <<adminTotalCount + 1 - i>>
  /\ RowCount(stream) >= IF adminTotalCount < MAX_STREAM_ROWS THEN adminTotalCount
                         ELSE MAX_STREAM_ROWS

(* updateCharts: sorting is by id "for consistent bar positions".  The bar *)
(* of a trader stays where it is while the reports are of the same traders,*)
(* in whatever order the exchange lists them.                              *)
BarsKeepTheirPlaces ==
  [][ /\ Len(charts) = Len(charts')
      /\ {charts[i].id : i \in DOMAIN charts} = {charts'[i].id : i \in DOMAIN charts'}
      => \A i \in DOMAIN charts : charts'[i].id = charts[i].id ]_vars
=============================================================================
