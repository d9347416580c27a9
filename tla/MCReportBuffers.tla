--------------------------- MODULE MCReportBuffers --------------------------
(* ReportBuffers for TLC: three datasets, buffers of 20 bytes, titles of 6 *)
(* Titles are short, exactly fill their array, fill it but for one byte,   *)
(* and are too long; details are longer than lines of data, as in jtr.c,   *)
(* so that with them the results outrun the plot, and without them not.    *)
EXTENDS ReportBuffers

MCTitleLengths == {1, 3, 4, 5, 6}
MCDetailLengths == {2, 3}
MCVerbosities == {-1, 0, 1}
=============================================================================
