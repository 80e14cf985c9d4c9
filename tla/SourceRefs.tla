----------------------------- MODULE SourceRefs -----------------------------
(***************************************************************************)
(* The parsers of evidence references in the Lark adapter.  A reference as *)
(* written is [type, form, host, path]: its form is the prefix it starts   *)
(* with, "https" for a link; its path is the sequence of components after  *)
(* that.  A component is [id, as]: the same id may be written plain, in    *)
(* capitals, percent-encoded, with an encoded space, or with characters    *)
(* that are reserved.  A parsed reference is [ok, wiki, key]; two that     *)
(* mean the same have the same key.                                        *)
(***************************************************************************)
EXTENDS Naturals, SequencesExt

SourceRef == [type : STRING, form : STRING, host : STRING, path : Seq([id : STRING, as : STRING])]

NotParsed == [ok |-> FALSE, wiki |-> FALSE, key |-> <<>>]
Parsed(key) == [ok |-> TRUE, wiki |-> FALSE, key |-> key]

Written(id) == [id |-> id, as |-> "plain"]
Matches(path, pattern) ==
    /\ Len(path) = Len(pattern)
    /\ \A i \in DOMAIN path : pattern[i] # "" => path[i] = Written(pattern[i])

(* Decoded components: OKR ids may contain spaces, calendar ids may not.   *)
ValidOkrComponent(c) == c.id # "" /\ c.as \in {"plain", "capital", "encoded", "spaced"}
ValidCalendarComponent(c) == c.id # "" /\ c.as \in {"plain", "capital", "encoded"}
ValidDocToken(c) == c.id # "" /\ c.as \in {"plain", "capital"}
ValidMinuteToken(c) == c.id # "" /\ c.as = "plain"
ValidTaskId(c) == c.id # "" /\ c.as # "reserved"

(* The id a decoder yields; a percent-encoded plain id is that id.         *)
DecodeComponent(c) == <<c.id, IF c.as = "encoded" THEN "plain" ELSE c.as>>

ParseOkrKrSourceRef(r) ==
    LET shaped == \/ r.form = "okr://" /\ Matches(r.path, <<"", "objectives", "", "krs", "">>)
                  \/ r.form = "okr:" /\ Matches(r.path, <<"", "objective", "", "kr", "">>)
    IN  IF shaped /\ \A i \in 1 .. 3 : ValidOkrComponent(r.path[2 * i - 1])
        THEN Parsed([i \in 1 .. 3 |-> DecodeComponent(r.path[2 * i - 1])]) ELSE NotParsed

ParseCalendarEventSourceRef(r) ==
    IF /\ r.form \in {"calendar://", "feishu://calendar/"}
       /\ Matches(r.path, <<"", "events", "">>)
       /\ ValidCalendarComponent(r.path[1]) /\ ValidCalendarComponent(r.path[3])
    THEN Parsed(<<DecodeComponent(r.path[1]), DecodeComponent(r.path[3])>>) ELSE NotParsed

(* Task ids are taken as written.                                          *)
ParseTaskSourceRef(r) ==
    IF r.form \in {"task://", "feishu://task/"} /\ Len(r.path) = 1 /\ ValidTaskId(r.path[1])
    THEN Parsed(<<<<r.path[1].id, r.path[1].as>>>>) ELSE NotParsed

IsSupportedHost(host) == host \in {"feishu.cn", "sub.feishu.cn", "larksuite.com", "sub.larksuite.com"}

DocToken(kind, c) ==
    IF ValidDocToken(c) THEN [ok |-> TRUE, wiki |-> kind = "wiki", key |-> <<<<kind, c.id, c.as>>>>]
    ELSE NotParsed

(* A link names its document after the first "docx" or "wiki" segment.     *)
ParseDocUrl(r) ==
    LET marks == {i \in DOMAIN r.path : r.path[i] \in {Written("docx"), Written("wiki")}}
        first == CHOOSE i \in marks : \A j \in marks : i <= j
    IN  IF IsSupportedHost(r.host) /\ marks # {} /\ first < Len(r.path)
        THEN DocToken(r.path[first].id, r.path[first + 1]) ELSE NotParsed

ParseDocSourceRef(r) ==
    CASE r.form \in {"docx://", "doc://", "feishu://docx/", "feishu://doc/", "feishu://docs/docx/"}
           /\ Len(r.path) = 1 -> DocToken("docx", r.path[1])
      [] r.form \in {"wiki://", "feishu://wiki/"} /\ Len(r.path) = 1 -> DocToken("wiki", r.path[1])
      [] r.form = "https" -> ParseDocUrl(r)
      [] OTHER -> NotParsed

ParseMinutesUrl(r) == IsSupportedHost(r.host) /\ Matches(r.path, <<"minutes", "">>)

ParseMinutesSourceRef(r) ==
    IF /\ \/ r.form \in {"minutes://", "feishu://minutes/"} /\ Len(r.path) = 1
          \/ r.form = "https" /\ ParseMinutesUrl(r)
       /\ ValidMinuteToken(Last(r.path))
    THEN Parsed(<<<<Last(r.path).id>>>>) ELSE NotParsed

ParseEvidenceRef(source, r) ==
    CASE source = "okr" -> ParseOkrKrSourceRef(r)
      [] source = "calendar" -> ParseCalendarEventSourceRef(r)
      [] source = "task" -> ParseTaskSourceRef(r)
      [] source = "doc" -> ParseDocSourceRef(r)
      [] source = "minutes" -> ParseMinutesSourceRef(r)

=============================================================================
