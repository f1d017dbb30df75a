----------------------------- MODULE Pipelines -----------------------------
(***************************************************************************)
(* The programs that turn a list of data into a result:                    *)
(*                                                                         *)
(*   "words"   mapreduce.cpp: counts words; threads map line after line,   *)
(*             then several threads reduce at the same time                *)
(*   "alerts"  AlertManager of mergeAlerts.cpp: one alert for each         *)
(*             instance and event type                                     *)
(*   "metrics" Downsampler of downsample.cpp                               *)
(*   "windows" slidingWindow.cpp: windows over a stream                    *)
(***************************************************************************)
EXTENDS Naturals, SequencesExt

CONSTANTS
    MaxInput,        \* bound on the number of data
    NumWords,        \* words are numbers, in the order of std::map
    Reducers,        \* hardware_concurrency of them
    InstanceNames,   \* sequence of character sequences, in string order
    EventTypes,      \* set of character sequences
    Stamps,          \* timestamps of alerts and metrics
    Series,          \* host name and metric
    Minute, Hour, Month, Year, \* durations
    MaxPasses,       \* bound on the calls of downsample
    WindowSize, SlidingInterval,
    SizeModulus      \* size_t is a number modulo this

ASSUME PipesAssumption ==
    /\ MaxInput \in Nat /\ NumWords \in Nat /\ MaxPasses \in Nat \ {0}
    /\ DOMAIN InstanceNames \subseteq Nat
    /\ Stamps \subseteq Nat
    /\ {Minute, Hour} \subseteq Nat \ {0} /\ Month \in Nat /\ Year \in Nat /\ Month <= Year
    /\ WindowSize \in Nat /\ SlidingInterval \in 1..WindowSize
    /\ SizeModulus \in Nat /\ WindowSize < SizeModulus

VARIABLES pipeline,     \* which program it is
          input,        \* the data, in the program's order
          intermediate, \* counts of the map phase
          done,         \* the words each reducer has done, once started
          output,       \* the result so far
          passes        \* history: the data of each downsample, or of the
                        \* last mergeAlerts

pipesVars == <<pipeline, input, intermediate, done, output, passes>>

Put(map, k, v) == [x \in DOMAIN map \cup {k} |-> IF x = k THEN v ELSE map[x]]

CountIn(x, seq) == Cardinality({i \in DOMAIN seq : seq[i] = x})

(* std::sort: data of which none is before the other come in any order.    *)
Sorted(list, Before(_, _)) ==
    {s \in {[i \in DOMAIN list |-> list[p[i]]] : p \in Bijection(DOMAIN list, DOMAIN list)} :
       \A i, j \in DOMAIN s : i < j => ~Before(s[j], s[i])}

(* The data of a program that collects them; words are read from a file.   *)
Alerts  == [instance : DOMAIN InstanceNames, type : EventTypes, at : Stamps]
Metrics == [series : Series, at : Stamps]

Data == [words |-> 1..NumWords, alerts |-> Alerts, metrics |-> Metrics, windows |-> Nat]

-----------------------------------------------------------------------------
(* A name that starts with Bug marks what a plausible mistake would make   *)
(* of the definition after it; no behaviour of the specification uses it.  *)

(* One turn of the loop of Map; the thread of one line ends before the     *)
(* next line is read.                                                      *)
MapWord(word) ==
    /\ pipeline = "words" /\ done = <<>> /\ Len(input) < MaxInput
    /\ input' = Append(input, word)
    /\ intermediate' = Put(intermediate, word,
                           IF word \in DOMAIN intermediate
                           THEN intermediate[word] + 1 ELSE 1)
    /\ UNCHANGED <<pipeline, done, output, passes>>

StartReducers ==
    /\ pipeline = "words" /\ done = <<>>
    /\ done' = [r \in Reducers |-> {}]
    /\ UNCHANGED <<pipeline, input, intermediate, output, passes>>

(* One turn of the loop of Reduce, in the order of the words.              *)
ReduceWord(r) ==
    /\ pipeline = "words"
    /\ r \in DOMAIN done /\ done[r] # DOMAIN intermediate
    /\ LET word == Min(DOMAIN intermediate \ done[r])
       IN  /\ done' = [done EXCEPT ![r] = @ \cup {word}]
           /\ output' = Put(output, word, intermediate[word])
    /\ UNCHANGED <<pipeline, input, intermediate, passes>>

-----------------------------------------------------------------------------
(* addAlert and addMetricData.                                             *)
AddDatum(datum) ==
    /\ Len(input) < MaxInput
    /\ input' = Append(input, datum)
    /\ UNCHANGED <<pipeline, intermediate, done, output, passes>>

Key(alert) == InstanceNames[alert.instance] \o <<"_">> \o alert.type

BeforeAlert(a, b) ==
    IF a.instance # b.instance THEN a.instance < b.instance ELSE a.at < b.at

(* The loop of mergeAlerts after each of the alerts: the first of a key    *)
(* with the timestamp of the last.                                         *)
Merged(alerts) ==
    LET merged[n \in 0..Len(alerts)] ==
          IF n = 0 THEN <<>>
          ELSE LET alert == alerts[n]
                   k     == Key(alert)
               IN  IF k \in DOMAIN merged[n - 1]
                   THEN [merged[n - 1] EXCEPT ![k].at = alert.at]
                   ELSE Put(merged[n - 1], k, alert)
    IN  merged

MergeAlerts ==
    /\ pipeline = "alerts"
    /\ input' \in Sorted(input, BeforeAlert)
    /\ output' = Merged(input')[Len(input)]
    /\ passes' = <<input>>
    /\ UNCHANGED <<pipeline, intermediate, done>>

-----------------------------------------------------------------------------
EarlierDatum(a, b) == a.at < b.at

(* The loop of downsampleToMinuteResolution after each of the data: what   *)
(* is recent is appended to what its series has.                           *)
Recent(list, series, old) ==
    LET recent[n \in 0..Len(list)] ==
          IF n = 0 THEN old
          ELSE IF list[n].series = series /\ list[n].at <= Month
          THEN Append(recent[n - 1], list[n]) ELSE recent[n - 1]
    IN  recent

(* downsampleToHourResolution: one datum for each stretch of data of the   *)
(* same hour but the last.                                                 *)
Hourly(list) ==
    LET hour(i) == list[i].at \div Hour
        ends    == SelectSeq([i \in 1..(Len(list) - 1) |-> i],
                             LAMBDA i : hour(i) # hour(i + 1))
    IN  [e \in DOMAIN ends |-> [list[ends[e]] EXCEPT !.at = hour(ends[e]) * Hour]]

(* The comparison with a year is turned round.                             *)
BugDownsampled(list) == IF list # <<>> /\ Last(list).at < Year THEN Hourly(list) ELSE list

(* Hours are only for data of more than a year.                            *)
Downsampled(list) == IF list # <<>> /\ Last(list).at > Year THEN Hourly(list) ELSE list

(* downsample appends to what earlier calls have left.                     *)
Downsample ==
    /\ pipeline = "metrics" /\ Len(passes) < MaxPasses
    /\ input' \in Sorted(input, EarlierDatum)
    /\ LET old(s) == IF s \in DOMAIN output THEN output[s] ELSE <<>>
           new(s) == Recent(input', s, old(s))[Len(input)]
       IN  output' = [s \in {s \in Series : new(s) # <<>>} |-> Downsampled(new(s))]
    /\ passes' = Append(passes, input)
    /\ UNCHANGED <<pipeline, intermediate, done>>

-----------------------------------------------------------------------------
(* One turn of main's loop; a stream shorter than a window makes the bound *)
(* wrap around.                                                            *)
ProcessWindow ==
    LET i == Len(output) * SlidingInterval
    IN  /\ pipeline = "windows"
        /\ i <= (SizeModulus + Len(input) - WindowSize) % SizeModulus
        /\ output' = Append(output, (i + 1)..(i + WindowSize))
        /\ UNCHANGED <<pipeline, input, intermediate, done, passes>>

-----------------------------------------------------------------------------
(* The stream of the windows is there from the beginning.                  *)
PipesInit(pipelines) ==
    /\ pipeline \in pipelines
    /\ input \in IF pipeline = "windows"
                 THEN {[i \in 1..n |-> i] : n \in 0..(2 * WindowSize)}
                 ELSE {<<>>}
    /\ intermediate = <<>> /\ done = <<>> /\ output = <<>> /\ passes = <<>>

PipesNext ==
    \/ \E word \in 1..NumWords : MapWord(word)
    \/ StartReducers
    \/ \E r \in Reducers : ReduceWord(r)
    \/ pipeline = "alerts" /\ \E alert \in Alerts : AddDatum(alert)
    \/ MergeAlerts
    \/ pipeline = "metrics" /\ \E datum \in Metrics : AddDatum(datum)
    \/ Downsample
    \/ ProcessWindow

AllPipelines == {"words", "alerts", "metrics", "windows"}

PipesSpec == PipesInit(AllPipelines) /\ [][PipesNext]_pipesVars

PipesTypeOK ==
    /\ pipeline \in AllPipelines
    /\ input \in Seq(Data[pipeline])
    /\ DOMAIN intermediate \subseteq 1..NumWords
    /\ DOMAIN done \subseteq Reducers
    /\ \A r \in DOMAIN done : done[r] \subseteq DOMAIN intermediate
    /\ Len(passes) <= MaxPasses
-----------------------------------------------------------------------------
(* No reducer ever writes a count that is not final, whatever the others   *)
(* do, and all words are there when all have ended.                        *)
WordsAreCounted ==
    /\ \A word \in DOMAIN output : output[word] = CountIn(word, input)
    /\ done # <<>> /\ (\A r \in Reducers : done[r] = DOMAIN intermediate) =>
          DOMAIN output = ToSet(input)

(* Alerts of the same instance and event type become one, with the latest  *)
(* timestamp, unless the same key is made of others.                       *)
AlertsAreMerged ==
    LET data       == ToSet(Last(passes))
        sharing(a) == {b \in data : Key(b) = Key(a)}
    IN  passes # <<>> =>
          /\ DOMAIN output = {Key(a) : a \in data}
          /\ \A a \in data :
                (\A b \in sharing(a) : b.instance = a.instance /\ b.type = a.type) =>
                   output[Key(a)] = [a EXCEPT !.at = Max({b.at : b \in sharing(a)})]

MinutesOf(data) == {d.at \div Minute : d \in data}

(* "Retention: 30 days" (downsample.cpp:39): whatever the resolution, each *)
(* series has something for the minutes in which it had a datum that is    *)
(* recent enough, and for no other, however often downsample is called.    *)
MetricsAreRetained ==
    passes # <<>> =>
        \A s \in Series :
            MinutesOf(IF s \in DOMAIN output THEN ToSet(output[s]) ELSE {}) =
            MinutesOf({d \in ToSet(Last(passes)) : d.series = s /\ d.at <= Month})

(* Windows stay in the stream, and leave out less than an interval at its  *)
(* end, if it is no shorter than a window, as main's is not.  Of a shorter *)
(* one nothing is said: the bound of the loop has wrapped around.          *)
WindowsCover ==
    Len(input) >= WindowSize =>
        /\ \A w \in ToSet(output) : w \subseteq DOMAIN input
        /\ Len(output) * SlidingInterval + WindowSize > Len(input) =>
              Cardinality(DOMAIN input \ UNION ToSet(output)) < SlidingInterval

(* Every pipeline computes what a direct definition of its result says,    *)
(* in whatever order threads run, data come and the calls are made.        *)
PipelinesAgree ==
    /\ pipeline = "words"   => WordsAreCounted
    /\ pipeline = "alerts"  => AlertsAreMerged
    /\ pipeline = "metrics" => MetricsAreRetained
    /\ pipeline = "windows" => WindowsCover

(* "Downsample to 1-minute resolution" (downsample.cpp:40): of each minute *)
(* a series has one datum.  It has all of them, as often as it was called. *)
OneDatumPerMinute ==
    pipeline = "metrics" =>
      \A s \in DOMAIN output : \A i, j \in DOMAIN output[s] :
          i # j => output[s][i].at \div Minute # output[s][j].at \div Minute
=============================================================================
