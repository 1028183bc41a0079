------------------------------ MODULE MetricBlobs -----------------------------
(***************************************************************************)
(* BmcHealthSnapshot of metrics-ipmi-blobs: a snapshot of the processes of *)
(* the BMC that names each command line by its place in a table of strings *)
(* all metrics share.  Processes come and go while /proc is read, first    *)
(* for their times, then for their file descriptors.  A command line is a  *)
(* number that gives its order; times and counts are whole numbers.        *)
(***************************************************************************)
EXTENDS Naturals, Sequences, FiniteSets, SequencesExt

CONSTANTS CmdLine,     \* full command lines, "(Others)" among them
          Others,      \* "(Others)"
          Amount,      \* times or counts a process may have
          MaxProcess,  \* processes found in /proc (bound)
          TopN         \* topN: rows of their own in a metric

ASSUME MetricAssumption ==
  /\ CmdLine \subseteq Nat /\ Others \in CmdLine
  /\ Amount \subseteq Nat
  /\ MaxProcess \in Nat /\ TopN \in Nat \ {0}

Metric == <<"procstat", "fdstat">>   \* in the order in which they are made

VARIABLES
  mb_pc,        \* "closed", "read", "rows", "encode" or "session"
  mb_metric,    \* the metric under way, an index of Metric
  entries,      \* entries of the metric, sorted
  mb_next,      \* the entry the loop is at
  others,       \* what is collected in the row "(Others)"
  mb_rows,      \* rows of each metric: string index and amount
  stringTable, stringId,
  mb_strings,   \* the string table as it was encoded
  \* history variable, of no effect on the program
  mb_entries    \* the entries of each metric

mbLoop == <<mb_metric, entries, mb_next, others>>
mbTable == <<stringTable, stringId>>
mbVars == <<mb_pc, mbLoop, mb_rows, mbTable, mb_strings, mb_entries>>

Entry == [cmdline : CmdLine, amount : Amount]

(* operator< of ProcStatEntry and FdStatEntry: the largest amount first,   *)
(* ties broken by the command line.                                        *)
RanksBefore(a, b) ==
  a.amount > b.amount \/ (a.amount = b.amount /\ a.cmdline <= b.cmdline)

SortedEntries ==
  {s \in BoundedSeq(Entry, MaxProcess) :
     \A i \in 1..(Len(s) - 1) : RanksBefore(s[i], s[i + 1])}

EmptyTable == [c \in {} |-> 0]

Cleared ==
  /\ mb_metric' = 1
  /\ entries' = <<>>
  /\ mb_next' = 1
  /\ others' = 0
  /\ mb_rows' = [m \in 1..Len(Metric) |-> <<>>]
  /\ stringTable' = EmptyTable
  /\ stringId' = 0
  /\ mb_strings' = <<>>
  /\ mb_entries' = [m \in 1..Len(Metric) |-> <<>>]

MbInit ==
  /\ mb_pc = "closed"
  /\ mb_metric = 1
  /\ entries = <<>>
  /\ mb_next = 1
  /\ others = 0
  /\ mb_rows = [m \in 1..Len(Metric) |-> <<>>]
  /\ stringTable = EmptyTable
  /\ stringId = 0
  /\ mb_strings = <<>>
  /\ mb_entries = [m \in 1..Len(Metric) |-> <<>>]

-------------------------------------------------------------------------------
(* MetricBlobHandler::open(): a new snapshot, whose doWork() runs at once. *)
OpenBlob ==
  /\ mb_pc = "closed"
  /\ mb_pc' = "read"
  /\ Cleared

(* getProcStatMetric(), getFdStatMetric(): every process whose files can   *)
(* be read has an entry - a process that is gone has one without a name in *)
(* the first, and none in the second - and the entries are sorted.         *)
ReadProc ==
  /\ mb_pc = "read"
  /\ entries' \in SortedEntries
  /\ mb_next' = 1
  /\ others' = 0
  /\ mb_entries' = [mb_entries EXCEPT ![mb_metric] = entries']
  /\ mb_pc' = "rows"
  /\ UNCHANGED <<mb_metric, mb_rows, mbTable, mb_strings>>

(* getStringID(): the place of a string in the table, a new one if needed. *)
GetStringID(string) ==
  IF string \in DOMAIN stringTable
  THEN UNCHANGED mbTable
  ELSE /\ stringTable' = [s \in DOMAIN stringTable \cup {string} |->
                            IF s = string THEN stringId ELSE stringTable[s]]
       /\ stringId' = stringId + 1

Emplace(string, amount) ==
  /\ GetStringID(string)
  /\ mb_rows' = [mb_rows EXCEPT ![mb_metric] =
                   Append(@, [sidx |-> stringTable'[string],
                              amount |-> amount])]

(* An iteration of the loop over the entries.                              *)
IsOthers == mb_next > TopN

AddEntry ==
  /\ mb_pc = "rows"
  /\ mb_next <= Len(entries)
  /\ LET entry == entries[mb_next]
     IN IF IsOthers
        THEN /\ others' = others + entry.amount
             /\ UNCHANGED <<mb_rows, mbTable>>
        ELSE Emplace(entry.cmdline, entry.amount) /\ UNCHANGED others
  /\ mb_next' = mb_next + 1
  /\ UNCHANGED <<mb_pc, mb_metric, entries, mb_strings, mb_entries>>

(* The row "(Others)", if there are any.                                   *)
FinishMetric ==
  /\ mb_pc = "rows"
  /\ mb_next > Len(entries)
  /\ IF Len(entries) > TopN
     THEN Emplace(Others, others)
     ELSE UNCHANGED <<mb_rows, mbTable>>
  /\ IF mb_metric < Len(Metric)
     THEN mb_metric' = mb_metric + 1 /\ mb_pc' = "read"
     ELSE mb_pc' = "encode" /\ UNCHANGED mb_metric
  /\ entries' = <<>>
  /\ UNCHANGED <<mb_next, others, mb_strings, mb_entries>>

(* Mutant of Encode: the strings are encoded in the map's order.           *)
EncodeMapOrder ==
  /\ mb_pc = "encode"
  /\ mb_strings' = SetToSortSeq(DOMAIN stringTable, <)
  /\ mb_pc' = "session"
  /\ UNCHANGED <<mbLoop, mb_rows, mbTable, mb_entries>>

(* stcb: the table is turned round, strs[i] = str, and encoded.            *)
Encode ==
  /\ mb_pc = "encode"
  /\ mb_strings' = [i \in 1..Cardinality(DOMAIN stringTable) |->
                      CHOOSE s \in DOMAIN stringTable : stringTable[s] = i - 1]
  /\ mb_pc' = "session"
  /\ UNCHANGED <<mbLoop, mb_rows, mbTable, mb_entries>>

(* close(), expire().                                                      *)
CloseBlob ==
  /\ mb_pc = "session"
  /\ mb_pc' = "closed"
  /\ Cleared

MbNext ==
  \/ OpenBlob
  \/ ReadProc
  \/ AddEntry
  \/ FinishMetric
  \/ Encode
  \/ CloseBlob

MbSpec == MbInit /\ [][MbNext]_mbVars

-------------------------------------------------------------------------------
(* The sum of the first n amounts of a list of rows or entries.            *)
SumOf(list, n) ==
  LET sum[i \in 0..n] == IF i = 0 THEN 0 ELSE sum[i - 1] + list[i].amount
  IN  sum[n]

Shown(m) == IF Len(mb_entries[m]) > TopN THEN TopN ELSE Len(mb_entries[m])

(* The name a reader of the blob gives to row i.                           *)
NameOf(m, i) == mb_strings[mb_rows[m][i].sidx + 1]

(* A reader of the blob gives every row the command line of its process,   *)
(* although both metrics share one table, several processes one command    *)
(* line, and a process may be called "(Others)".                           *)
RowsDecode ==
  mb_pc = "session" =>
    \A m \in 1..Len(Metric) : \A i \in DOMAIN mb_rows[m] :
      NameOf(m, i) = IF i <= TopN THEN mb_entries[m][i].cmdline ELSE Others

(* Nothing is lost or counted twice when the processes beyond topN are     *)
(* collected in one row.                                                   *)
TotalsConserved ==
  mb_pc = "session" =>
    \A m \in 1..Len(Metric) :
      SumOf(mb_rows[m], Len(mb_rows[m]))
        = SumOf(mb_entries[m], Len(mb_entries[m]))

(* A process is in the row "(Others)" only if no process that has a row of *)
(* its own uses less, and there are at most topN + 1 rows.                 *)
TopRowsShown ==
  mb_pc = "session" =>
    \A m \in 1..Len(Metric) :
      /\ Len(mb_rows[m]) <= TopN + 1
      /\ \A i \in 1..Shown(m), j \in (Shown(m) + 1)..Len(mb_entries[m]) :
           mb_rows[m][i].amount >= mb_entries[m][j].amount

(* A blob says of the processes what was read, for both metrics, with any  *)
(* number of processes below, at and above topN.                           *)
BlobSaysWhatWasRead == RowsDecode /\ TotalsConserved /\ TopRowsShown
===============================================================================
