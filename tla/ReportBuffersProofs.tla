------------------------ MODULE ReportBuffersProofs ------------------------
(***************************************************************************)
(* Theorems about ReportBuffers.tla, for every size of the buffers, all    *)
(* lengths of titles and lines, and every number of datasets.              *)
(***************************************************************************)
EXTENDS ReportBuffers, TLAPS

(* As long as no check has failed both texts end before the last byte but  *)
(* one, what was added to the results is there, and so is the copied part  *)
(* of a plot's title.                                                      *)
RoomInv ==
  pc # "aborted" =>
    /\ results = wanted.results /\ results <= BUF_SIZE - 2
    /\ plot <= BUF_SIZE - 2
    /\ gnuplot_title <= TITLE_SIZE - 1
    /\ pc = "copy" => /\ gnuplot_title <= TITLE_SIZE - 2
                      /\ gnuplot_title = wanted.gnuplot_title
    /\ pc = "header" =>
         gnuplot_title = Least(wanted.gnuplot_title, TITLE_SIZE - 1)
    /\ cause = "none"

(* No text is longer than what was asked for.                              *)
WantedInv ==
  /\ results <= wanted.results
  /\ plot <= wanted.plot
  /\ gnuplot_title <= wanted.gnuplot_title
  /\ gnuplot_title <= TITLE_SIZE

(* A dataset gets its number when its plot begins, and the last one is the *)
(* one before the file is written.                                         *)
DatasetsInv ==
  /\ pc \in {"title", "heading", "details", "lines", "copy", "header"}
       => datasets < DATASETS
  /\ pc \in {"print", "done"} => datasets = DATASETS
  /\ plot_file # "none" =>
       pc = "done" /\ opt_gnuplot_file /\ opt_verbose >= 0

(* The first title that passes its check leaves the checked byte 0.        *)
MarkInv ==
  pc # "aborted" => ~title_mark \/ (datasets = 0 /\ pc = "title")

BufInv ==
  /\ BufTypeOK /\ RoomInv /\ WantedInv /\ DatasetsInv /\ MarkInv
  /\ AbortsOnlyWhenFull /\ PlotWholeWithRoomInResults
-----------------------------------------------------------------------------
LEMMA InitBufInv == Init => BufInv
<1> SUFFICES ASSUME Init PROVE BufInv
  OBVIOUS
<1>1. BufTypeOK
  <2>1. opt_verbose \in Verbosities /\ opt_gnuplot_file \in BOOLEAN
        /\ title_mark \in BOOLEAN
    BY Zenon DEF Init
  <2>2. wanted \in [title : Nat, gnuplot_title : Nat, results : Nat,
                    plot : Nat]
    BY DEF Init
  <2>3. QED
    BY <2>1, <2>2, BufAssumption DEF Init, BufTypeOK
<1>2. QED
  BY <1>1, BufAssumption
     DEF Init, BufInv, RoomInv, WantedInv, DatasetsInv, MarkInv, AbortsOnlyWhenFull,
         PlotWholeWithRoomInResults

(* Adding a piece to the results keeps BufInv, apart from the loop counter *)
(* and the place the program goes to, which depend on the caller.          *)
LEMMA ResultsKeepInv ==
  ASSUME BufInv, pc \notin {"aborted", "title"}, NEW n \in Nat, NEW next,
         next \in {"details", "lines"},
         AppendResults(n, next), left' \in Nat, UNCHANGED datasets,
         datasets < DATASETS
  PROVE  BufInv'
<1> USE BufAssumption
    DEF BufInv, AppendResults, Check, GoTo, Filled, ResultsRoom, Least,
        options, titles
<1>1. BufTypeOK'
  BY DEF BufTypeOK, RoomInv
<1>2. RoomInv'
  BY DEF RoomInv, BufTypeOK
<1>3. WantedInv'
  BY DEF WantedInv, BufTypeOK
<1>4. DatasetsInv' /\ MarkInv'
  BY DEF DatasetsInv, MarkInv, BufTypeOK
<1>5. AbortsOnlyWhenFull'
  BY DEF AbortsOnlyWhenFull, RoomInv, WantedInv, BufTypeOK
<1>6. PlotWholeWithRoomInResults'
  BY DEF PlotWholeWithRoomInResults, RoomInv, BufTypeOK
<1>7. QED
  BY <1>1, <1>2, <1>3, <1>4, <1>5, <1>6

(* The same for the plot: a piece that is no longer than the comment lines *)
(* is whole if the results leave room for those.                           *)
LEMMA PlotKeepsInv ==
  ASSUME BufInv, pc \in {"header", "data"}, NEW n \in Nat, NEW next,
         n <= HEADER_LENGTH + TITLE_SIZE - 1,
         next \in {"data", "title", "print"},
         AppendPlot(n, next), left' \in Nat, datasets' \in 0..DATASETS,
         next = "title" => datasets' < DATASETS,
         next = "print" => datasets' = DATASETS
  PROVE  BufInv'
<1> USE BufAssumption
    DEF BufInv, AppendPlot, Check, GoTo, Filled, PlotRoom, Least,
        options, titles
<1>1. BufTypeOK'
  BY DEF BufTypeOK, RoomInv
<1>2. RoomInv'
  BY DEF RoomInv, BufTypeOK
<1>3. WantedInv'
  BY DEF WantedInv, BufTypeOK, RoomInv
<1>4. DatasetsInv' /\ MarkInv'
  BY DEF DatasetsInv, MarkInv, BufTypeOK
<1>5. AbortsOnlyWhenFull'
  BY DEF AbortsOnlyWhenFull, RoomInv, WantedInv, BufTypeOK
<1>6. PlotWholeWithRoomInResults'
  BY DEF PlotWholeWithRoomInResults, RoomInv, BufTypeOK
<1>7. QED
  BY <1>1, <1>2, <1>3, <1>4, <1>5, <1>6

LEMMA NextBufInv == BufInv /\ [Next]_vars => BufInv'
<1> SUFFICES ASSUME BufInv, [Next]_vars PROVE BufInv'
  OBVIOUS
<1> USE BufAssumption
<1>1. CASE FormatTitle
  <2> USE <1>1 DEF FormatTitle, Check, GoTo, TitleFilled, Least, options,
                   BufInv
  <2>1. BufTypeOK'
    BY DEF BufTypeOK
  <2>2. RoomInv' /\ WantedInv' /\ DatasetsInv' /\ MarkInv' /\ AbortsOnlyWhenFull'
    BY DEF RoomInv, WantedInv, DatasetsInv, MarkInv, AbortsOnlyWhenFull, BufTypeOK
  <2>3. PlotWholeWithRoomInResults'
    BY DEF PlotWholeWithRoomInResults, BufTypeOK
  <2>4. QED
    BY <2>1, <2>2, <2>3
<1>2. CASE AddHeading
  <2>1. title + 1 \in Nat /\ left' \in Nat /\ datasets < DATASETS
    BY <1>2 DEF AddHeading, BufInv, BufTypeOK, DatasetsInv
  <2>2. QED
    BY <1>2, <2>1, ResultsKeepInv DEF AddHeading
<1>3. CASE AddDetail
  <2>1. left' \in Nat /\ datasets < DATASETS
    BY <1>3 DEF AddDetail, MoreTurns, BufInv, BufTypeOK, DatasetsInv
  <2>2. QED
    BY <1>3, <2>1, ResultsKeepInv DEF AddDetail
<1>4. CASE AddLine
  <2>1. left' \in Nat /\ datasets < DATASETS
    BY <1>4 DEF AddLine, MoreTurns, BufInv, BufTypeOK, DatasetsInv
  <2>2. QED
    BY <1>4, <2>1, ResultsKeepInv DEF AddLine
<1>5. CASE EndDetails
  BY <1>5 DEF EndDetails, GoTo, options, titles, BufInv, BufTypeOK, RoomInv,
              WantedInv, DatasetsInv, MarkInv, AbortsOnlyWhenFull,
              PlotWholeWithRoomInResults
<1>6. CASE BeginPlot
  BY <1>6 DEF BeginPlot, GoTo, options, BufInv, BufTypeOK, RoomInv,
              WantedInv, DatasetsInv, MarkInv, AbortsOnlyWhenFull,
              PlotWholeWithRoomInResults
<1>7. CASE CopyCharacter
  <2> USE <1>7 DEF CopyCharacter, MoreTurns, Check, GoTo, TitleFilled, options,
                   BufInv
  <2>1. gnuplot_title <= TITLE_SIZE - 2
    BY DEF RoomInv
  <2>2. BufTypeOK'
    BY DEF BufTypeOK
  <2>3. RoomInv' /\ DatasetsInv' /\ MarkInv' /\ AbortsOnlyWhenFull'
    BY DEF RoomInv, WantedInv, DatasetsInv, MarkInv, AbortsOnlyWhenFull, BufTypeOK
  <2>4. WantedInv'
    BY <2>1 DEF WantedInv, BufTypeOK
  <2>5. PlotWholeWithRoomInResults'
    BY DEF PlotWholeWithRoomInResults, BufTypeOK
  <2>6. QED
    BY <2>2, <2>3, <2>4, <2>5
<1>8. CASE AddTitleSummary
  <2> USE <1>8 DEF AddTitleSummary, GoTo, Least, options, BufInv
  <2>1. BufTypeOK'
    BY DEF BufTypeOK, RoomInv
  <2>2. RoomInv' /\ WantedInv' /\ DatasetsInv' /\ MarkInv' /\ AbortsOnlyWhenFull'
    BY DEF RoomInv, WantedInv, DatasetsInv, MarkInv, AbortsOnlyWhenFull, BufTypeOK
  <2>3. PlotWholeWithRoomInResults'
    BY DEF PlotWholeWithRoomInResults, BufTypeOK
  <2>4. QED
    BY <2>1, <2>2, <2>3
<1>9. CASE AddPlotHeader
  <2>1. left' \in Nat /\ datasets' \in 0..DATASETS
        /\ HEADER_LENGTH + gnuplot_title \in Nat
        /\ HEADER_LENGTH + gnuplot_title <= HEADER_LENGTH + TITLE_SIZE - 1
    BY <1>9 DEF AddPlotHeader, BufInv, BufTypeOK, DatasetsInv, RoomInv
  <2>2. QED
    BY <1>9, <2>1, PlotKeepsInv DEF AddPlotHeader
<1>10. CASE AddPlotData
  <2>1. left' \in Nat /\ datasets' \in 0..DATASETS
    BY <1>10 DEF AddPlotData, MoreTurns, BufInv, BufTypeOK
  <2>2. QED
    BY <1>10, <2>1, PlotKeepsInv DEF AddPlotData
<1>11. CASE EndPlot
  <2> DEFINE next == IF MorePasses THEN "title" ELSE "print"
  <2>1. left' \in Nat /\ datasets' \in 0..DATASETS
        /\ next \in {"data", "title", "print"}
        /\ (next = "title" => datasets' < DATASETS)
        /\ (next = "print" => datasets' = DATASETS)
    BY <1>11 DEF EndPlot, MorePasses, BufInv, BufTypeOK
  <2>2. AppendPlot(2, next) /\ pc \in {"header", "data"}
    BY <1>11 DEF EndPlot
  <2> HIDE DEF next
  <2>3. QED
    BY <2>1, <2>2, PlotKeepsInv
<1>12. CASE PrintReport
  BY <1>12 DEF PrintReport, Check, GoTo, options, titles, BufInv, BufTypeOK,
               RoomInv, WantedInv, DatasetsInv, MarkInv, AbortsOnlyWhenFull,
               PlotWholeWithRoomInResults
<1>13. CASE UNCHANGED vars
  BY <1>13 DEF vars, options, titles, BufInv, BufTypeOK, RoomInv, WantedInv,
               DatasetsInv, MarkInv, AbortsOnlyWhenFull,
               PlotWholeWithRoomInResults
<1>14. QED
  BY <1>1, <1>2, <1>3, <1>4, <1>5, <1>6, <1>7, <1>8, <1>9, <1>10, <1>11,
     <1>12, <1>13 DEF Next

LEMMA BufInvariant == Spec => []BufInv
BY InitBufInv, NextBufInv, PTL DEF Spec
-----------------------------------------------------------------------------
(* Lengths and loop counters keep their ranges, and the results never      *)
(* leave their buffer, for every length of titles and lines.               *)
THEOREM BufTypeCorrect == Spec => []BufTypeOK
BY BufInvariant, PTL DEF BufInv

(* A process that goes on has lost nothing of its results (jtr.c:306-365). *)
THEOREM ResultsCorrect == Spec => []ResultsAreWhole
<1>1. BufInv => ResultsAreWhole
  BY DEF BufInv, RoomInv, ResultsAreWhole
<1>2. QED
  BY <1>1, BufInvariant, PTL

(* The copy of a title never leaves its array (jtr.c:384-400).             *)
THEOREM EscapedTitleCorrect == Spec => []EscapedTitleFits
<1>1. BufInv => EscapedTitleFits
  BY BufAssumption
     DEF BufInv, RoomInv, WantedInv, BufTypeOK, EscapedTitleFits
<1>2. QED
  BY <1>1, BufInvariant, PTL

(* The plot is whole as long as the results leave room for the longest     *)
(* piece of a plot (jtr.c:414-445).                                        *)
THEOREM PlotCorrect == Spec => []PlotWholeWithRoomInResults
BY BufInvariant, PTL DEF BufInv

(* The file of -g is not touched before every dataset is in the buffer.    *)
THEOREM FileCorrect == Spec => []PlotFileHasEveryDataset
<1>1. BufInv => PlotFileHasEveryDataset
  BY DEF BufInv, DatasetsInv, PlotFileHasEveryDataset
<1>2. QED
  BY <1>1, BufInvariant, PTL

(* A check of a buffer fails only when the texts asked for fill it.        *)
THEOREM AbortCorrect == Spec => []AbortsOnlyWhenFull
BY BufInvariant, PTL DEF BufInv
-----------------------------------------------------------------------------
(* What a dataset can add to the results and to the plot when its lines,   *)
(* details and lines of data are no longer than these, and at most `most'  *)
(* buckets are used; and buffers in which all datasets of such a size fit. *)
PerResults(line, detail, most) ==
  TITLE_SIZE + most * detail + RESULT_LINES * line
PerPlot(data, most) == HEADER_LENGTH + TITLE_SIZE + 1 + most * data

Fits(line, detail, data, most) ==
  /\ \A n \in LineLengths : n <= line
  /\ \A n \in DetailLengths : n <= detail
  /\ \A n \in DataLengths : n <= data
  /\ \A n \in UsedBuckets : n <= most
  /\ DATASETS * PerResults(line, detail, most) + HEADER_LENGTH + TITLE_SIZE
       <= BUF_SIZE
  /\ DATASETS * PerPlot(data, most) <= BUF_SIZE - 2

(* The datasets so far and the loop counter of the current one say how     *)
(* much has been added.                                                    *)
SizeInv(line, detail, data, most) ==
  LET per == PerResults(line, detail, most)
      per_plot == PerPlot(data, most)
      before == datasets * per
      before_plot == datasets * per_plot
      reporting == {"title", "heading", "details", "lines", "copy", "header"}
  IN
  /\ wanted.results <= DATASETS * per /\ wanted.plot <= DATASETS * per_plot
  /\ pc \in {"title", "heading", "data", "print", "done"} =>
       wanted.results <= before
  /\ pc = "details" =>
       left <= most /\ wanted.results + left * detail + RESULT_LINES * line
                         <= before + per
  /\ pc = "lines" => wanted.results + left * line <= before + per
  /\ pc \in {"copy", "header"} => wanted.results <= before + per
  /\ pc \in reporting \cup {"print", "done"} => wanted.plot <= before_plot
  /\ pc = "data" => wanted.plot + left * data + 2 <= before_plot

LEMMA NextSizeInv ==
  ASSUME NEW line \in Nat, NEW detail \in Nat, NEW data \in Nat,
         NEW most \in Nat, Fits(line, detail, data, most),
         BufInv, SizeInv(line, detail, data, most), [Next]_vars
  PROVE  SizeInv(line, detail, data, most)'
<1> DEFINE per == PerResults(line, detail, most)
           per_plot == PerPlot(data, most)
           before == datasets * per
           before_plot == datasets * per_plot
           all == DATASETS * per
           all_plot == DATASETS * per_plot
           lines == RESULT_LINES * line
           r == wanted.results
           p == wanted.plot
           reporting == {"title", "heading", "details", "lines", "copy",
                         "header"}
<1>1. /\ most * detail \in Nat /\ most * data \in Nat /\ lines \in Nat
      /\ per = TITLE_SIZE + most * detail + lines
      /\ per_plot = HEADER_LENGTH + TITLE_SIZE + 1 + most * data
      /\ per \in Nat /\ per_plot \in Nat
  BY BufAssumption DEF PerResults, PerPlot
<1>2. /\ \A n \in LineLengths : n <= line
      /\ \A n \in DetailLengths : n <= detail
      /\ \A n \in DataLengths : n <= data
      /\ \A n \in UsedBuckets : n <= most
  BY DEF Fits
<1>3. /\ r <= all /\ p <= all_plot
      /\ pc \in {"title", "heading", "data", "print", "done"} => r <= before
      /\ pc = "details" =>
           left <= most /\ r + left * detail + lines <= before + per
      /\ pc = "lines" => r + left * line <= before + per
      /\ pc \in {"copy", "header"} => r <= before + per
      /\ pc \in reporting \cup {"print", "done"} => p <= before_plot
      /\ pc = "data" => p + left * data + 2 <= before_plot
  BY DEF SizeInv
<1>4. /\ r' <= all /\ p' <= all_plot
      /\ pc' \in {"title", "heading", "data", "print", "done"} =>
           r' <= datasets' * per
      /\ pc' = "details" =>
           left' <= most /\ r' + left' * detail + lines
                             <= datasets' * per + per
      /\ pc' = "lines" => r' + left' * line <= datasets' * per + per
      /\ pc' \in {"copy", "header"} => r' <= datasets' * per + per
      /\ pc' \in reporting \cup {"print", "done"} =>
           p' <= datasets' * per_plot
      /\ pc' = "data" => p' + left' * data + 2 <= datasets' * per_plot
  <2> HIDE DEF per, per_plot, lines
  <2>1. /\ datasets \in Nat /\ left \in Nat /\ used \in Nat /\ used <= most
        /\ title \in Nat /\ title + 1 <= TITLE_SIZE
        /\ gnuplot_title \in Nat
        /\ pc = "header" => gnuplot_title + 1 <= TITLE_SIZE
        /\ DATASETS \in Nat /\ datasets <= DATASETS
        /\ pc \in reporting => datasets + 1 <= DATASETS
    BY <1>2, BufAssumption DEF BufInv, BufTypeOK, DatasetsInv, RoomInv
  <2>2. /\ before \in Nat /\ before_plot \in Nat
        /\ all \in Nat /\ all_plot \in Nat
        /\ before <= all /\ before_plot <= all_plot
        /\ pc \in reporting => before + per <= all
        /\ (datasets + 1) * per = before + per
        /\ (datasets + 1) * per_plot = before_plot + per_plot
        /\ pc \in reporting => before_plot + per_plot <= all_plot
    <3>1. ASSUME NEW k \in Nat, NEW x \in Nat, k + 1 <= DATASETS
          PROVE  k * x + x <= DATASETS * x
      <4>1. (k + 1) * x <= DATASETS * x /\ (k + 1) * x = k * x + x
        BY <2>1, <3>1
      <4>2. QED
        BY <4>1
    <3>2. ASSUME NEW k \in Nat, NEW x \in Nat, k <= DATASETS
          PROVE  k * x \in Nat /\ DATASETS * x \in Nat /\ k * x <= DATASETS * x
                 /\ (k + 1) * x = k * x + x
      BY <2>1, <3>2
    <3>3. QED
      BY <1>1, <2>1, <3>1, <3>2
  <2>3. r \in Nat /\ p \in Nat
    BY DEF BufInv, BufTypeOK
  <2>4. left > 0 =>
          /\ left * detail = (left - 1) * detail + detail
          /\ left * line = (left - 1) * line + line
          /\ left * data = (left - 1) * data + data
          /\ (left - 1) * detail \in Nat /\ (left - 1) * line \in Nat
          /\ (left - 1) * data \in Nat
    BY <2>1
  <2>5. /\ left * detail \in Nat /\ left * line \in Nat /\ left * data \in Nat
        /\ used * detail \in Nat /\ used * data \in Nat
        /\ used * detail <= most * detail /\ used * data <= most * data
        /\ 0 * detail = 0
    BY <2>1
  <2> HIDE DEF before, before_plot, all, all_plot
  <2>6. ASSUME NEW n \in Nat, NEW next, AppendResults(n, next)
        PROVE  r' = r + n /\ p' = p /\ pc' \in {next, "aborted"}
    BY <2>6 DEF AppendResults, Check, GoTo, BufInv, BufTypeOK
  <2>7. ASSUME NEW n \in Nat, NEW next, AppendPlot(n, next)
        PROVE  p' = p + n /\ r' = r /\ pc' \in {next, "aborted"}
    BY <2>7 DEF AppendPlot, Check, GoTo, BufInv, BufTypeOK
  <2>8. datasets' = datasets =>
          datasets' * per = before /\ datasets' * per_plot = before_plot
    BY DEF before, before_plot
  <2>9. datasets' = datasets + 1 =>
          /\ datasets' * per = before + per
          /\ datasets' * per_plot = before_plot + per_plot
    BY <2>2
  <2>10. CASE FormatTitle
    <3>1. r' = r /\ p' = p /\ datasets' = datasets /\ pc = "title"
          /\ pc' \in {"heading", "aborted"}
      BY <2>10 DEF FormatTitle, Check, GoTo, BufInv, BufTypeOK
    <3>2. QED
      BY <1>3, <2>8, <3>1
  <2>11. CASE AddHeading
    <3>1. /\ pc = "heading" /\ datasets' = datasets /\ left' \in {0, used}
          /\ r' = r + title + 1 /\ p' = p /\ pc' \in {"details", "aborted"}
      <4>1. title + 1 \in Nat /\ AppendResults(title + 1, "details")
        BY <2>1, <2>11 DEF AddHeading
      <4>2. QED
        BY <2>1, <2>3, <2>6, <2>11, <4>1 DEF AddHeading
    <3>2. left' <= most /\ left' * detail <= most * detail
          /\ left' * detail \in Nat
      <4>1. CASE left' = 0
        <5>1. 0 <= most /\ 0 <= most * detail
          BY <1>1
        <5>2. QED
          BY <2>5, <4>1, <5>1
      <4>2. CASE left' = used
        BY <2>1, <2>5, <4>2
      <4>3. QED
        BY <3>1, <4>1, <4>2
    <3>3. r' + left' * detail + lines <= before + per
      <4>1. ASSUME NEW x \in Nat, NEW all_details \in Nat, x <= all_details,
                   per = TITLE_SIZE + all_details + lines
            PROVE  r' + x + lines <= before + per
        <5>1. r <= before
          BY <1>3, <3>1
        <5>2. QED
          BY <1>1, <2>1, <2>2, <2>3, <3>1, <4>1, <5>1, BufAssumption
      <4>2. QED
        BY <1>1, <3>2, <4>1
    <3>4. r' <= all /\ p' <= all_plot
      BY <1>1, <1>3, <2>1, <2>2, <2>3, <3>1, <3>2, <3>3
    <3>5. QED
      BY <1>3, <2>8, <3>1, <3>2, <3>3, <3>4
  <2>12. CASE AddDetail
    <3>1. PICK n \in DetailLengths : AppendResults(n, "details")
      BY <2>12 DEF AddDetail
    <3>2. /\ pc = "details" /\ left > 0 /\ left' = left - 1
          /\ datasets' = datasets /\ n \in Nat /\ n <= detail
          /\ r' = r + n /\ p' = p /\ pc' \in {"details", "aborted"}
      BY <1>2, <2>6, <2>12, <3>1, BufAssumption DEF AddDetail, MoreTurns
    <3>3. r' + left' * detail + lines <= before + per /\ left' * detail \in Nat
      BY <1>1, <1>3, <2>2, <2>3, <2>4, <3>2
    <3>4. r' <= all /\ p' <= all_plot /\ left' <= most
      BY <1>1, <1>3, <2>1, <2>2, <2>3, <3>2, <3>3
    <3>5. QED
      BY <1>3, <2>8, <3>2, <3>3, <3>4
  <2>13. CASE EndDetails
    <3>1. r' = r /\ p' = p /\ datasets' = datasets /\ pc = "details"
          /\ pc' = "lines" /\ left' = RESULT_LINES
      BY <2>13 DEF EndDetails, GoTo
    <3>2. left' * line = lines
      BY <3>1 DEF lines
    <3>3. QED
      BY <1>1, <1>3, <2>2, <2>3, <2>5, <2>8, <3>1, <3>2
  <2>14. CASE AddLine
    <3>1. PICK n \in LineLengths : AppendResults(n, "lines")
      BY <2>14 DEF AddLine
    <3>2. /\ pc = "lines" /\ left > 0 /\ left' = left - 1
          /\ datasets' = datasets /\ n \in Nat /\ n <= line
          /\ r' = r + n /\ p' = p /\ pc' \in {"lines", "aborted"}
      BY <1>2, <2>6, <2>14, <3>1, BufAssumption DEF AddLine, MoreTurns
    <3>3. r' + left' * line <= before + per /\ left' * line \in Nat
      BY <1>1, <1>3, <2>2, <2>3, <2>4, <3>2
    <3>4. r' <= all /\ p' <= all_plot
      BY <1>1, <1>3, <2>1, <2>2, <2>3, <3>2, <3>3
    <3>5. QED
      BY <1>3, <2>8, <3>2, <3>3, <3>4
  <2>15. CASE BeginPlot \/ CopyCharacter \/ AddTitleSummary
    <3>1. /\ r' = r /\ p' = p /\ datasets' = datasets
          /\ pc' \in {"copy", "header", "aborted"} /\ pc \in {"lines", "copy"}
      BY <2>15 DEF BeginPlot, CopyCharacter, AddTitleSummary, Check, GoTo,
                   BufInv, BufTypeOK
    <3>2. r <= before + per
      BY <1>1, <1>3, <2>2, <2>3, <2>5, <3>1
    <3>3. QED
      BY <1>3, <2>8, <3>1, <3>2
  <2>16. CASE AddPlotHeader
    <3>1. /\ pc = "header" /\ datasets' = datasets + 1 /\ left' = used
          /\ p' = p + HEADER_LENGTH + gnuplot_title /\ r' = r
          /\ pc' \in {"data", "aborted"}
      <4>1. HEADER_LENGTH + gnuplot_title \in Nat
            /\ AppendPlot(HEADER_LENGTH + gnuplot_title, "data")
        BY <2>1, <2>16, BufAssumption DEF AddPlotHeader
      <4>2. QED
        BY <2>1, <2>3, <2>7, <2>16, <4>1, BufAssumption DEF AddPlotHeader
    <3>2. p' + left' * data + 2 <= before_plot + per_plot
          /\ left' * data \in Nat
      BY <1>1, <1>3, <2>1, <2>2, <2>3, <2>5, <3>1, BufAssumption
    <3>3. p' <= all_plot
      BY <1>1, <2>1, <2>2, <2>3, <3>1, <3>2, BufAssumption
    <3>4. QED
      BY <1>3, <2>9, <3>1, <3>2, <3>3
  <2>17. CASE AddPlotData
    <3>1. PICK n \in DataLengths : AppendPlot(n, "data")
      BY <2>17 DEF AddPlotData
    <3>2. /\ pc = "data" /\ left > 0 /\ left' = left - 1
          /\ datasets' = datasets /\ n \in Nat /\ n <= data
          /\ p' = p + n /\ r' = r /\ pc' \in {"data", "aborted"}
      BY <1>2, <2>7, <2>17, <3>1, BufAssumption DEF AddPlotData, MoreTurns
    <3>3. p' + left' * data + 2 <= before_plot /\ left' * data \in Nat
      BY <1>3, <2>2, <2>3, <2>4, <3>2
    <3>4. p' <= all_plot
      BY <2>2, <2>3, <3>2, <3>3
    <3>5. QED
      BY <1>3, <2>8, <3>2, <3>3, <3>4
  <2>18. CASE EndPlot
    <3> DEFINE next == IF MorePasses THEN "title" ELSE "print"
    <3>1. pc = "data" /\ datasets' = datasets /\ AppendPlot(2, next)
          /\ next \in {"title", "print"}
      BY <2>18 DEF EndPlot
    <3> HIDE DEF next
    <3>2. p' = p + 2 /\ r' = r /\ pc' \in {"title", "print", "aborted"}
      BY <2>7, <3>1
    <3>3. p' <= before_plot /\ p' <= all_plot
      BY <1>3, <2>2, <2>3, <2>5, <3>1, <3>2
    <3>4. QED
      BY <1>3, <2>8, <3>1, <3>2, <3>3
  <2>19. CASE PrintReport \/ UNCHANGED vars
    <3>1. r' = r /\ p' = p /\ datasets' = datasets /\ left' = left
          /\ (pc' = pc \/ (pc = "print" /\ pc' \in {"done", "aborted"}))
      BY <2>19 DEF PrintReport, Check, GoTo, vars
    <3>2. QED
      BY <1>3, <2>8, <3>1
  <2>20. QED
    BY <2>10, <2>11, <2>12, <2>13, <2>14, <2>15, <2>16, <2>17, <2>18, <2>19
       DEF Next
<1>5. QED
  BY <1>4 DEF SizeInv

LEMMA InitSizeInv ==
  ASSUME NEW line \in Nat, NEW detail \in Nat, NEW data \in Nat,
         NEW most \in Nat, Init
  PROVE  SizeInv(line, detail, data, most)
<1>1. PerResults(line, detail, most) \in Nat /\ PerPlot(data, most) \in Nat
  BY BufAssumption DEF PerResults, PerPlot
<1>2. ASSUME NEW x \in Nat PROVE 0 * x = 0 /\ 0 <= DATASETS * x
  BY <1>2, BufAssumption
<1>3. /\ pc = "title" /\ datasets = 0
      /\ wanted.results = 0 /\ wanted.plot = 0
  BY DEF Init
<1>4. QED
  BY <1>1, <1>2, <1>3 DEF SizeInv

(* A report whose datasets fit into the buffers, at their longest and with *)
(* some room to spare in the results, is written whole: no check of the    *)
(* two buffers ever fails and no text is cut, whatever the order and the   *)
(* lengths of the lines, in spite of the wrong strlen() in the limits of   *)
(* the plot (jtr.c:306-446, jtr_src.c:213-269).                            *)
THEOREM ReportFits ==
  ASSUME NEW line \in Nat, NEW detail \in Nat, NEW data \in Nat,
         NEW most \in Nat, Fits(line, detail, data, most)
  PROVE  Spec => [](/\ cause \notin {"results", "plot"}
                    /\ pc # "aborted" =>
                         results = wanted.results /\ plot = wanted.plot)
<1> DEFINE Size == SizeInv(line, detail, data, most)
           Whole == /\ cause \notin {"results", "plot"}
                    /\ pc # "aborted" =>
                         results = wanted.results /\ plot = wanted.plot
<1>1. Init => Size
  BY InitSizeInv
<1>2. BufInv /\ Size /\ [Next]_vars => Size'
  BY NextSizeInv
<1>3. BufInv /\ Size => Whole
  <2> SUFFICES ASSUME BufInv, Size PROVE Whole
    OBVIOUS
  <2> DEFINE all == DATASETS * PerResults(line, detail, most)
             all_plot == DATASETS * PerPlot(data, most)
  <2>1. /\ all \in Nat /\ all_plot \in Nat
        /\ all + HEADER_LENGTH + TITLE_SIZE <= BUF_SIZE
        /\ all_plot <= BUF_SIZE - 2
    BY BufAssumption DEF Fits, PerResults, PerPlot
  <2>2. wanted.results <= all /\ wanted.plot <= all_plot
    BY DEF SizeInv
  <2> HIDE DEF all, all_plot
  <2>3. /\ results \in Nat /\ plot \in Nat
        /\ wanted.results \in Nat /\ wanted.plot \in Nat
    BY BufAssumption DEF BufInv, BufTypeOK
  <2>4. cause \notin {"results", "plot"}
    BY <2>1, <2>2, <2>3, BufAssumption DEF BufInv, AbortsOnlyWhenFull
  <2>5. ASSUME pc # "aborted"
        PROVE  results = wanted.results /\ plot = wanted.plot
    <3>1. results = wanted.results
      BY <2>5 DEF BufInv, RoomInv
    <3>2. results + HEADER_LENGTH + TITLE_SIZE <= BUF_SIZE
      BY <2>1, <2>2, <2>3, <3>1, BufAssumption
    <3>3. QED
      BY <2>5, <3>1, <3>2 DEF BufInv, PlotWholeWithRoomInResults
  <2>6. QED
    BY <2>4, <2>5
<1> HIDE DEF Size, Whole
<1>4. Spec => []Whole
  BY <1>1, <1>2, <1>3, BufInvariant, PTL DEF Spec
<1>5. QED
  BY <1>4 DEF Whole
=============================================================================
