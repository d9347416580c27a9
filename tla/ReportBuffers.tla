--------------------------- MODULE ReportBuffers ---------------------------
(***************************************************************************)
(* The texts of a report.  Each dataset adds its title, its details, its   *)
(* summary and its percentile lines to jtr_results_buf, and its plot to    *)
(* jtr_gnuplot_buf, with snprintf() at the end of what is there; a check   *)
(* of the last byte but one of the buffer follows, which is to abort()     *)
(* before the text is cut.  A text is modelled by its length.              *)
(*                                                                         *)
(* History variables, which no guard reads: `wanted' is the length that    *)
(* every text would have with unlimited room, and `cause' is the check     *)
(* that failed.                                                            *)
(***************************************************************************)
EXTENDS Integers

CONSTANTS
  BUF_SIZE,        \* sizeof(jtr_results_buf) = sizeof(jtr_gnuplot_buf)
  TITLE_SIZE,      \* sizeof(title) = sizeof(gnuplot_title)
  TitleLengths,    \* lengths of formatted titles: opt_descr has any length
  DetailLengths,   \* lengths of the lines of jtr_histo_print_details()
  LineLengths,     \* lengths of summary and percentile lines
  DataLengths,     \* lengths of data lines of a plot
  SUMMARY_LENGTH,  \* of the summary in the title of a plot
  HEADER_LENGTH,   \* of the comment lines of a plot, without the title
  RESULT_LINES,    \* the summary and five percentiles
  UsedBuckets,     \* how many buckets of a histogram may be non-zero
  DATASETS,        \* number of passes
  Verbosities      \* values of opt_verbose

ASSUME BufAssumption ==
  /\ BUF_SIZE \in Nat \ {0, 1} /\ TITLE_SIZE \in Nat \ {0, 1}
  /\ TitleLengths \subseteq Nat /\ DetailLengths \subseteq Nat
  /\ LineLengths \subseteq Nat /\ DataLengths \subseteq Nat
  /\ SUMMARY_LENGTH \in Nat /\ HEADER_LENGTH \in Nat /\ RESULT_LINES \in Nat
  /\ \A n \in DataLengths \cup {2} : n <= HEADER_LENGTH + TITLE_SIZE - 1
  /\ UsedBuckets \subseteq Nat
  /\ DATASETS \in Nat \ {0}
  /\ Verbosities \subseteq Int

VARIABLES
  opt_verbose, opt_gnuplot_file,  \* constant; the second: is -g given?
  pc,
  datasets,         \* jtr_png_filenum: the datasets reported
  used,             \* non-zero buckets of this dataset
  left,             \* turns left of the current loop
  title,            \* strlen(title) of main()
  title_mark,       \* title[sizeof(title)-2] # '\0'; not initialized
  gnuplot_title,    \* i of jtr_histo_gnuplot(), then strlen(gnuplot_title)
  results, plot,    \* strlen() of the two buffers
  plot_file,        \* the file of -g: "none", "whole" or "incomplete"
  wanted, cause

options == <<opt_verbose, opt_gnuplot_file>>
titles == <<title, title_mark, gnuplot_title>>
vars == <<options, pc, datasets, used, left, titles, results, plot, plot_file,
          wanted, cause>>
-----------------------------------------------------------------------------
Least(a, b) == IF a < b THEN a ELSE b

(* How many characters snprintf() may write, its '\0' not counted          *)
ResultsRoom_OfPlot == BUF_SIZE - plot - 1
ResultsRoom == BUF_SIZE - results - 1

(* sizeof(jtr_gnuplot_buf) - strlen(jtr_results_buf)                       *)
PlotRoom_OfTitle == TITLE_SIZE - 1
PlotRoom == BUF_SIZE - results - 1

(* SYSE(buf[sizeof(buf)-2] != '\0'), "Don't fill."                         *)
Filled_Early(length) == length >= BUF_SIZE - 2
Filled(length) == length >= BUF_SIZE - 1

TitleFilled_Late(length) == length >= TITLE_SIZE
TitleFilled(length) == length >= TITLE_SIZE - 1

GoTo(next) == pc' = next /\ UNCHANGED cause

Check(failed, name, next) ==
  IF failed THEN pc' = "aborted" /\ cause' = name ELSE GoTo(next)

AppendResults(n, next) ==
  /\ results' = results + Least(n, ResultsRoom)
  /\ wanted' = [wanted EXCEPT !.results = @ + n]
  /\ Check(Filled(results'), "results", next)
  /\ UNCHANGED <<options, used, titles, plot, plot_file>>

AppendPlot(n, next) ==
  /\ plot' = plot + Least(n, PlotRoom)
  /\ wanted' = [wanted EXCEPT !.plot = @ + n]
  /\ Check(Filled(plot'), "plot", next)
  /\ UNCHANGED <<options, used, titles, results, plot_file>>
-----------------------------------------------------------------------------
Init ==
  /\ opt_verbose \in Verbosities /\ opt_gnuplot_file \in BOOLEAN
  /\ pc = "title"
  /\ datasets = 0 /\ used = 0 /\ left = 0
  /\ title = 0 /\ title_mark \in BOOLEAN /\ gnuplot_title = 0
  /\ results = 0 /\ plot = 0
  /\ plot_file = "none"
  /\ wanted = [title |-> 0, gnuplot_title |-> 0, results |-> 0, plot |-> 0]
  /\ cause = "none"

(* snprintf() leaves what lies behind the '\0' of a title as it was.       *)
FormatTitle ==
  /\ pc = "title"
  /\ used' \in UsedBuckets
  /\ \E n \in TitleLengths :
       /\ title' = Least(n, TITLE_SIZE - 1)
       /\ wanted' = [wanted EXCEPT !.title = n]
  /\ title_mark' = (TitleFilled(title')
                    \/ (title' < TITLE_SIZE - 2 /\ title_mark))
  /\ Check(title_mark', "title", "heading")
  /\ UNCHANGED <<options, datasets, left, gnuplot_title, results, plot,
                 plot_file>>

AddHeading ==
  /\ pc = "heading"
  /\ left' = IF opt_verbose > 0 THEN used ELSE 0
  /\ AppendResults(title + 1, "details")
  /\ UNCHANGED datasets

MoreTurns_OneMore == left >= 0
MoreTurns == left > 0

(* jtr_histo_print_details(): a line for each non-zero bucket              *)
AddDetail ==
  /\ pc = "details" /\ MoreTurns
  /\ left' = left - 1
  /\ \E n \in DetailLengths : AppendResults(n, "details")
  /\ UNCHANGED datasets

EndDetails ==
  /\ pc = "details" /\ ~MoreTurns
  /\ left' = RESULT_LINES
  /\ GoTo("lines")
  /\ UNCHANGED <<options, datasets, used, titles, results, plot, plot_file,
                 wanted>>

(* jtr_histo_print_summary(), jtr_histo_print_perc()                       *)
AddLine ==
  /\ pc = "lines" /\ MoreTurns
  /\ left' = left - 1
  /\ \E n \in LineLengths : AppendResults(n, "lines")
  /\ UNCHANGED datasets

BeginPlot ==
  /\ pc = "lines" /\ ~MoreTurns
  /\ left' = title
  /\ gnuplot_title' = 0
  /\ wanted' = [wanted EXCEPT !.gnuplot_title = 0]
  /\ GoTo("copy")
  /\ UNCHANGED <<options, datasets, used, title, title_mark, results, plot,
                 plot_file>>

(* A newline or an underscore becomes two characters.                      *)
CopyCharacter ==
  /\ pc = "copy" /\ MoreTurns
  /\ left' = left - 1
  /\ \E n \in {1, 2} :
       /\ gnuplot_title' = gnuplot_title + n
       /\ wanted' = [wanted EXCEPT !.gnuplot_title = @ + n]
  /\ Check(TitleFilled(gnuplot_title'), "gnuplot_title", "copy")
  /\ UNCHANGED <<options, datasets, used, title, title_mark, results, plot,
                 plot_file>>

(* "Add summary to plot title": nothing checks whether it fits.            *)
AddTitleSummary ==
  /\ pc = "copy" /\ ~MoreTurns
  /\ gnuplot_title' =
       gnuplot_title + Least(SUMMARY_LENGTH, TITLE_SIZE - gnuplot_title - 1)
  /\ wanted' = [wanted EXCEPT !.gnuplot_title = @ + SUMMARY_LENGTH]
  /\ GoTo("header")
  /\ UNCHANGED <<options, datasets, used, left, title, title_mark, results,
                 plot, plot_file>>

AddPlotHeader ==
  /\ pc = "header"
  /\ left' = used
  /\ datasets' = datasets + 1
  /\ AppendPlot(HEADER_LENGTH + gnuplot_title, "data")

AddPlotData ==
  /\ pc = "data" /\ MoreTurns
  /\ left' = left - 1
  /\ \E n \in DataLengths : AppendPlot(n, "data")
  /\ UNCHANGED datasets

MorePasses_OneLess == datasets + 1 < DATASETS
MorePasses == datasets < DATASETS

(* Two empty lines end the dataset.                                        *)
EndPlot ==
  /\ pc = "data" /\ ~MoreTurns
  /\ AppendPlot(2, IF MorePasses THEN "title" ELSE "print")
  /\ UNCHANGED <<datasets, left>>

(* A failed fopen() abort()s; a failed fprintf() or fclose() is not seen.  *)
PrintReport ==
  /\ pc = "print"
  /\ IF opt_verbose >= 0 /\ opt_gnuplot_file
     THEN \/ plot_file' \in {"whole", "incomplete"} /\ GoTo("done")
          \/ Check(TRUE, "plot_file", "done") /\ UNCHANGED plot_file
     ELSE GoTo("done") /\ UNCHANGED plot_file
  /\ UNCHANGED <<options, datasets, used, left, titles, results, plot, wanted>>

Next ==
  \/ FormatTitle \/ AddHeading
  \/ AddDetail \/ EndDetails \/ AddLine
  \/ BeginPlot \/ CopyCharacter \/ AddTitleSummary
  \/ AddPlotHeader \/ AddPlotData \/ EndPlot
  \/ PrintReport

Spec == Init /\ [][Next]_vars
-----------------------------------------------------------------------------
(* Loop counters and lengths keep their ranges.  The results never leave   *)
(* their buffer; a plot, whose limit is wrong, ends behind its buffer by   *)
(* less than the longest piece (jtr.c:306-314, 384-446).                   *)
BufTypeOK ==
  /\ opt_verbose \in Verbosities /\ opt_gnuplot_file \in BOOLEAN
  /\ pc \in {"title", "heading", "details", "lines", "copy", "header", "data",
             "print", "done", "aborted"}
  /\ datasets \in 0..DATASETS
  /\ used \in UsedBuckets \cup {0} /\ left \in Nat
  /\ title \in 0..(TITLE_SIZE - 1) /\ title_mark \in BOOLEAN
  /\ gnuplot_title \in Nat
  /\ results \in 0..(BUF_SIZE - 1)
  /\ plot \in 0..(BUF_SIZE + HEADER_LENGTH + TITLE_SIZE - 3)
  /\ plot_file \in {"none", "whole", "incomplete"}
  /\ wanted \in [title : Nat, gnuplot_title : Nat, results : Nat, plot : Nat]
  /\ cause \in {"none", "title", "results", "gnuplot_title", "plot",
                "plot_file"}

(* The text of the results is whole: whatever is added, in whatever order  *)
(* and with whatever lengths, a process that goes on has lost none of it   *)
(* (jtr.c:306-365, jtr_src.c:231-234).                                     *)
ResultsAreWhole ==
  pc # "aborted" => results = wanted.results

(* Copying a title never writes behind the end of gnuplot_title, although  *)
(* it writes up to two characters between two checks, and leaves room for  *)
(* the '\0'.  What a plot's title loses, without any check, is only the    *)
(* part of its summary that does not fit (jtr.c:384-410).                  *)
EscapedTitleFits ==
  /\ gnuplot_title <= TITLE_SIZE
  /\ pc # "aborted" => gnuplot_title < TITLE_SIZE
  /\ pc = "copy" => gnuplot_title = wanted.gnuplot_title
  /\ pc = "header" => gnuplot_title = Least(wanted.gnuplot_title, TITLE_SIZE - 1)

(* The wrong strlen() in the limits of the plot does no harm as long as    *)
(* the results leave room for the longest piece of a plot, its comment     *)
(* lines: then no piece of any plot so far was cut (jtr.c:414-419,         *)
(* 423-428, 442-445).                                                      *)
PlotWholeWithRoomInResults ==
  pc # "aborted" /\ results + HEADER_LENGTH + TITLE_SIZE <= BUF_SIZE
    => plot = wanted.plot

(* No process gives up a report that has room left: a check of a buffer    *)
(* fails only if the texts asked for reach the last byte but one.  The     *)
(* check of main()'s title reads a byte that is not initialized and that a *)
(* short title does not write: it may fail for any title, but only for the *)
(* first (jtr.c:314, 337, 344, 363, 398, 419, 428, 445, jtr_src.c:221-230).*)
AbortsOnlyWhenFull ==
  /\ cause = "results" => wanted.results >= BUF_SIZE - 1
  /\ cause = "plot" => wanted.plot >= BUF_SIZE - 1
  /\ cause = "gnuplot_title" => wanted.gnuplot_title >= TITLE_SIZE - 1
  /\ cause = "title" => wanted.title >= TITLE_SIZE - 1 \/ datasets = 0

(* The file of -g is not touched before the plots of all passes are in the *)
(* buffer, and not at all by a quiet program: whichever check fails before *)
(* that, the plots of an earlier run stay as they were.  Whether writing   *)
(* it then succeeds, no check tells (jtr_src.c:215-268).                   *)
PlotFileHasEveryDataset ==
  plot_file # "none" =>
    opt_gnuplot_file /\ opt_verbose >= 0 /\ datasets = DATASETS
=============================================================================
