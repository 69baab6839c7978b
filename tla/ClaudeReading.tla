---------------------------- MODULE ClaudeReading ----------------------------
(***************************************************************************)
(* What the Claude provider, src/plugins/claude/plugin.js, makes of what   *)
(* it reads: the bytes of a credential a keychain returns in hexadecimal,  *)
(* the places a credential may be in, the buckets of the Admin API's two   *)
(* reports, the windows of a quota answer, the days of a usage history.    *)
(* Each is a function of its input.  The program takes one input, a case,  *)
(* and computes its answer.                                                *)
(*                                                                         *)
(* Amounts are natural numbers; None is a value that is absent or does not *)
(* parse.                                                                  *)
(***************************************************************************)
EXTENDS Integers, Sequences, FiniteSets, SequencesExt

CONSTANTS
    Texts,     \* sequences of bytes to decode
    Words,     \* sequences of code points to encode
    Homes,     \* what is found where a credential may be
    Ledgers,   \* [costs, messages]: the buckets of the two reports
    Quotas,    \* quota answers, with the setting showModelQuotas
    Histories  \* days of usage, with the day it is

None == -1
Sum(s) == FoldLeft(LAMBDA a, b : a + b, 0, s)
Known(n) == IF n = None THEN 0 ELSE n

----------------------------------------------------------------------------
(* utf8DecodeBytes, for hosts without a TextDecoder.                       *)

Replacement == 65533

\* Length of the sequence that begins with a byte (0: none does).
Length(b) == CASE b < 128 -> 1
               [] b \in 194..223 -> 2
               [] b \in 224..239 -> 3
               [] b \in 240..244 -> 4
               [] OTHER -> 0

Continuation(b) == b \in 128..191

\* (mutant: surrogates are let through)
WellFormedLax(s) ==
    /\ \A i \in 2..Len(s) : Continuation(s[i])
    /\ ~(s[1] = 224 /\ s[2] < 160)

\* Neither overlong, nor a surrogate, nor beyond the last code point.
WellFormed(s) ==
    /\ \A i \in 2..Len(s) : Continuation(s[i])
    /\ ~(s[1] = 224 /\ s[2] < 160)
    /\ ~(s[1] = 237 /\ s[2] >= 160)
    /\ ~(s[1] = 240 /\ s[2] < 144)
    /\ ~(s[1] = 244 /\ s[2] > 143)

CodePoint(s) ==
    LET low == FoldLeft(LAMBDA a, b : a * 64 + (b % 64), 0, Tail(s))
    IN  CASE Len(s) = 1 -> s[1]
          [] Len(s) = 2 -> (s[1] % 32) * 64 + low
          [] Len(s) = 3 -> (s[1] % 16) * 4096 + low
          [] Len(s) = 4 -> (s[1] % 8) * 262144 + low

\* A sequence cut off by the end of the text ends the decoding.
Utf8Decode(bytes) ==
    LET n == Len(bytes)
        from[i \in 1..(n + 1)] ==
            IF i > n THEN <<>>
            ELSE LET k == Length(bytes[i])
                     s == SubSeq(bytes, i, i + k - 1)
                 IN  IF k # 0 /\ i + k - 1 > n THEN <<Replacement>>
                     ELSE IF k # 0 /\ WellFormed(s) THEN <<CodePoint(s)>> \o from[i + k]
                     ELSE <<Replacement>> \o from[i + 1]
    IN  from[1]

----------------------------------------------------------------------------
(* loadCredentials.  A place is "absent", "stale" (no OAuth token in it),  *)
(* "denied" (keychains only), "profile" or "inference" (without the scope  *)
(* that reads quotas).                                                     *)

Usable(place) == place \in {"profile", "inference"}

\* loadStoredCredentials: the keychain, on macOS, before the file.  Which
\* service it is read under needs a hash when CLAUDE_CONFIG_DIR is set.
KeychainHas(home) ==
    IF ~home.macos THEN "absent"
    ELSE IF home.override /\ ~home.hash THEN "denied"
    ELSE home.keychain

Stored(home) ==
    LET keychain == KeychainHas(home)
    IN  CASE Usable(keychain) -> <<"keychain", keychain>>
          [] ~Usable(keychain) /\ Usable(home.file) -> <<"file", home.file>>
          [] keychain = "denied" /\ ~Usable(home.file) -> <<"error", keychain>>
          [] OTHER -> <<"none", "absent">>

\* A token in the environment cannot read quotas: it only stands in.
Credentials(home) ==
    LET stored == Stored(home)
    IN  IF home.account THEN <<"account", "profile">>
        ELSE IF stored[1] = "error" \/ stored[2] = "profile" \/ ~home.env THEN stored
        ELSE <<"env", "inference">>

----------------------------------------------------------------------------
(* makeClaudeAdminDaily: costs and messages, bucket by bucket, into days.  *)

NoDay == [cost |-> 0, input |-> 0, output |-> 0, creation |-> 0, total |-> 0,
          models |-> <<>>]

\* cacheCreationTokenCount
CacheCreation(r) == IF Known(r.creationTotal) > 0 THEN r.creationTotal
                    ELSE Known(r.ephemeral1h) + Known(r.ephemeral5m)

Add(f, k, n) == IF k \in DOMAIN f THEN [f EXCEPT ![k] = @ + n]
                ELSE [x \in DOMAIN f \cup {k} |-> IF x = k THEN n ELSE f[x]]

\* adminDailyBucket: one entry per day, shared by the buckets of that day.
Day(map, d) == IF d \in DOMAIN map THEN map[d] ELSE NoDay
With(map, d, day) == [x \in DOMAIN map \cup {d} |-> IF x = d THEN day ELSE map[x]]

Cost(map, bucket) ==
    IF bucket.day = None THEN map
    ELSE With(map, bucket.day,
              [Day(map, bucket.day) EXCEPT
                  !.cost = @ + Sum([i \in DOMAIN bucket.results |->
                                       Known(bucket.results[i].amount)])])

Messages(map, bucket) ==
    LET total(r) == Known(r.input) + CacheCreation(r) + Known(r.output)
        counted(day, r) ==
            [day EXCEPT !.input = @ + Known(r.input), !.output = @ + Known(r.output),
                        !.creation = @ + CacheCreation(r), !.total = @ + total(r),
                        !.models = Add(@, r.model, total(r))]
    IN  IF bucket.day = None THEN map
        ELSE With(map, bucket.day, FoldLeft(counted, Day(map, bucket.day), bucket.results))

AdminDaily(ledger) ==
    FoldLeft(Messages, FoldLeft(Cost, <<>>, ledger.costs), ledger.messages)

----------------------------------------------------------------------------
(* addUsageWindowLines: the windows of an answer as lines <<label, used>>. *)

\* currentUsageWindow: the active one of the unscoped limits of the kind.
Current(data, kind, fallback) ==
    LET entries == SelectSeq(data.limits, LAMBDA e :
                       e.kind = kind /\ e.percent # None /\ e.model = "none")
        active == SelectSeq(entries, LAMBDA e : e.active)
    IN  IF active # <<>> THEN Head(active).percent
        ELSE IF entries # <<>> THEN Head(entries).percent
        ELSE fallback

Window(label, used) == IF used = None THEN <<>> ELSE << <<label, used>> >>

\* A model named twice, here or by an older field, keeps its first line.
Scoped(lines, entry) ==
    IF /\ entry.kind = "weekly_scoped" /\ entry.percent # None /\ entry.model # "none"
       /\ \A i \in DOMAIN lines : lines[i][1] # entry.model
    THEN Append(lines, <<entry.model, entry.percent>>) ELSE lines

Windows(data) ==
    LET account == Window("Session", Current(data, "session", data.fiveHour))
                   \o Window("Weekly", Current(data, "weekly_all", data.sevenDay))
    IN  IF data.showModels
        THEN FoldLeft(Scoped, account \o Window("Opus", data.opus), data.limits)
        ELSE account

\* The resets still available: of the grants that have not ended.
Resets(data) ==
    IF data.eligible
    THEN Sum([i \in DOMAIN data.grants |->
                 IF data.grants[i].ended THEN 0 ELSE Known(data.grants[i].left)])
    ELSE 0

----------------------------------------------------------------------------
(* appendUsageDailyLines over days in the order of the report.             *)

\* The entry of a day: the last one that names it.
EntryOf(daily, d) ==
    LET named == SelectSeq(daily, LAMBDA e : e.day = d)
    IN  IF named = <<>> THEN [day |-> d, tokens |-> 0, cost |-> None] ELSE Last(named)

LastOf(s, n) == SubSeq(s, IF Len(s) > n THEN Len(s) - n + 1 ELSE 1, Len(s))

\* summarizeUsageDaily
Summary(daily, n) ==
    LET days == LastOf(daily, n)
    IN  [tokens |-> Sum([i \in DOMAIN days |-> Known(days[i].tokens)]),
         cost |-> Sum([i \in DOMAIN days |-> Known(days[i].cost)]),
         hasCost |-> \E i \in DOMAIN days : days[i].cost # None]

\* collectUsageChartPoints: the most recent days, oldest first.
Chart(daily, n) ==
    LastOf(SortSeq(SelectSeq(daily, LAMBDA e : e.tokens # None /\ e.day # None),
                   LAMBDA a, b : a.day < b.day), n)

----------------------------------------------------------------------------
VARIABLES case, answer
vars == <<case, answer>>

Cases == [text : Texts] \cup [word : Words] \cup [home : Homes] \cup [ledger : Ledgers]
         \cup [quota : Quotas] \cup [history : Histories]

Is(kind) == kind \in DOMAIN case

Init == case \in Cases /\ answer = <<>>

Pending == answer = <<>>
Answered(result) == Pending /\ answer' = <<result>> /\ UNCHANGED case

\* UTF-8 as RFC 3629 writes it: the reference the decoder is compared with.
Encoded(c) ==
    CASE c < 128 -> <<c>>
      [] c \in 128..2047 -> <<192 + (c \div 64), 128 + (c % 64)>>
      [] c \in 2048..65535 -> <<224 + (c \div 4096), 128 + ((c \div 64) % 64), 128 + (c % 64)>>
      [] c > 65535 -> <<240 + (c \div 262144), 128 + ((c \div 4096) % 64),
                        128 + ((c \div 64) % 64), 128 + (c % 64)>>
Encode(word) == FlattenSeq([i \in DOMAIN word |-> Encoded(word[i])])

DecodeText == Is("text") /\ Answered(Utf8Decode(case.text))
DecodeWord == Is("word") /\ Answered(Utf8Decode(Encode(case.word)))
LoadCredentials == Is("home") /\ Answered(Credentials(case.home))
MakeDaily == Is("ledger") /\ Answered(AdminDaily(case.ledger))
ShowWindows == Is("quota") /\ Answered([lines |-> Windows(case.quota),
                                        resets |-> Resets(case.quota)])
ShowDays ==
    LET h == case.history IN
    /\ Is("history")
    /\ Answered([today |-> EntryOf(h.daily, h.today),
                 yesterday |-> EntryOf(h.daily, h.today - 1),
                 summary |-> Summary(h.daily, h.kept), chart |-> Chart(h.daily, h.kept + 1)])

Next == DecodeText \/ DecodeWord \/ LoadCredentials \/ MakeDaily \/ ShowWindows \/ ShowDays

Spec == Init /\ [][Next]_vars

----------------------------------------------------------------------------
(* Properties: of every input, what its answer must be.                    *)

Done(kind) == Is(kind) /\ ~Pending

Scalar(c) == c \in 0..1114111 /\ c \notin 55296..57343

TypeOK == Pending \/ \A k \in DOMAIN case :
              k \in {"text", "word"} => \A i \in DOMAIN answer[1] : Scalar(answer[1][i])

\* Texts that are well-formed UTF-8 are decoded to what was encoded, and no
\* other text is decoded without a replacement: no overlong form, surrogate
\* or value beyond Unicode gets through (utf8DecodeBytes).
DecodesUtf8 ==
    /\ Done("word") => answer[1] = case.word
    /\ Done("text") /\ (\A i \in DOMAIN answer[1] : answer[1][i] # Replacement) =>
           Encode(answer[1]) = case.text

\* What follows a malformed sequence is not lost with it: unless the text ends
\* in a sequence that is cut off, every ASCII byte is decoded.
AsciiSurvives ==
    LET ascii(t) == SelectSeq(t, LAMBDA b : b < 128) IN
    Done("text") /\ (\A i \in DOMAIN case.text : i + 2 >= Len(case.text) => case.text[i] < 192)
        => ascii(answer[1]) = ascii(case.text)

\* A login that can read quotas is never hidden by one that cannot
\* ("setup-token credentials cannot read quotas; prefer the signed-in profile").
ProfilePreferred ==
    Done("home") =>
        (answer[1][2] # "profile" =>
            ~case.home.account /\ KeychainHas(case.home) # "profile"
            /\ (case.home.file # "profile" \/ KeychainHas(case.home) = "inference"))

\* A keychain that refuses is told apart from one that holds nothing, unless
\* the profile's file or an account stands in ("Denied/locked stores must
\* remain distinguishable").
DeniedIsTold ==
    Done("home") /\ answer[1][1] \in {"none", "env"} /\ ~Usable(case.home.file) =>
        KeychainHas(case.home) # "denied"

\* Nothing is lost or counted twice between the buckets of the two reports and
\* the days made of them, and the models of a day add up to the day.
LedgerConserved ==
    Done("ledger") =>
        LET days == answer[1]
            dated(s) == SelectSeq(s, LAMBDA b : b.day # None)
            each(s, value(_)) == Sum([i \in DOMAIN s |->
                Sum([j \in DOMAIN s[i].results |-> value(s[i].results[j])])])
            over(value(_)) == FoldFunction(LAMBDA a, b : a + b, 0,
                                           [d \in DOMAIN days |-> value(days[d])])
        IN  /\ over(LAMBDA d : d.cost) =
                   each(dated(case.ledger.costs), LAMBDA r : Known(r.amount))
            /\ over(LAMBDA d : d.total) =
                   each(dated(case.ledger.messages),
                        LAMBDA r : Known(r.input) + Known(r.output) + CacheCreation(r))
            /\ \A d \in DOMAIN days :
                   /\ days[d].total = days[d].input + days[d].output + days[d].creation
                   /\ days[d].total = FoldFunction(LAMBDA a, b : a + b, 0, days[d].models)

\* Windows of single models are shown only when asked for
\* (docs/claude-usage.md: "Model-specific quota rows remain opt-in").
ModelRowsOptIn ==
    Done("quota") /\ ~case.quota.showModels =>
        \A i \in DOMAIN answer[1].lines : answer[1].lines[i][1] \in {"Session", "Weekly"}

\* No window is shown twice, and none that the answer does not give.
WindowsOnce ==
    Done("quota") =>
        LET lines == answer[1].lines IN
        /\ \A i, j \in DOMAIN lines : lines[i][1] = lines[j][1] => i = j
        /\ \A i \in DOMAIN lines : lines[i][2] # None

\* A reset is offered only by a grant that is there, has one left and has not ended.
ResetsAreUsable ==
    Done("quota") /\ answer[1].resets > 0 =>
        \E i \in DOMAIN case.quota.grants :
            case.quota.grants[i].left > 0 /\ ~case.quota.grants[i].ended

\* The chart ends with the newest day, and over a report in the order of its
\* days the total of "Last 30 Days" counts no day that the chart leaves out.
RecentDays ==
    Done("history") =>
        LET daily == case.history.daily
            chart == answer[1].chart
            ordered == \A i, j \in DOMAIN daily : i < j => daily[i].day < daily[j].day
        IN  /\ \A i \in DOMAIN daily :
                   daily[i].day # None /\ daily[i].tokens # None =>
                       chart # <<>> /\ daily[i].day <= Last(chart).day
            /\ ordered /\ (\A i \in DOMAIN daily : daily[i].day # None) =>
                   answer[1].summary.tokens <= Sum([i \in DOMAIN chart |-> chart[i].tokens])
=============================================================================
