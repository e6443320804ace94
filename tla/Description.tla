---------------------------- MODULE Description ----------------------------
(***************************************************************************)
(* Session descriptions: what an application builds with Description and    *)
(* Media, the SDP lines that generateSdp() writes and the description that   *)
(* the constructor reads from them; candidates as far as a description       *)
(* tells them apart.  A line is its key and its values; names are numbers.   *)
(***************************************************************************)
EXTENDS Naturals, Sequences, FiniteSets, SequencesExt

CONSTANTS
    MaxDescriptionOps,  \* bounds the calls
    PayloadTypes,       \* payload types of codecs; RTX has the number 10 above
    Ssrcs,              \* SSRCs: one is the decimal prefix of another
    CandidatePool       \* candidates: [id, node, type, priority], node \in {"ip4", "ip6", "name"}

ASSUME DescriptionAssumption ==
    /\ MaxDescriptionOps \in Nat /\ PayloadTypes \subseteq 1 .. 9 /\ Ssrcs \subseteq Nat \ {0}
    /\ CandidatePool \subseteq [id : Nat \ {0}, node : {"ip4", "ip6", "name"}, type : {"host", "srflx"}, priority : Nat]

VARIABLES
    desc,               \* a description
    descriptionOps,     \* calls so far
    prefixHit,          \* ghost: removeSSRC() has taken away attributes of another SSRC
    reused              \* ghost: an SSRC was added again

descriptionVars == <<desc, descriptionOps, prefixHit, reused>>
--------------------------------------------------------------------------
(* Entries                                                                  *)

\* The constructors of Entry, Application, Audio and Video.
NewEntry(type, mid, dir) ==
    [type |-> type, mid |-> mid, dir |-> dir, removed |-> FALSE, ext |-> <<>>, attrs |-> <<>>, rids |-> <<>>,
     pts |-> <<>>, maps |-> <<>>, ssrcs |-> <<>>, cnames |-> <<>>, bas |-> 0, sctpPort |-> 0, maxSize |-> 0]

IsApplication(e) == e.type = "application"
Put(f, k, v) == [x \in DOMAIN f \cup {k} |-> IF x = k THEN v ELSE f[x]]
PutNew(f, k, v) == IF k \in DOMAIN f THEN f ELSE Put(f, k, v)
Drop(f, keys) == [x \in DOMAIN f \ keys |-> f[x]]
Ascending(S) == SetToSortSeq(S, LAMBDA a, b : a < b)

\* A line: its key, a number, two words and a list.
SdpLine(k, n, s, t, l) == [k |-> k, n |-> n, s |-> s, t |-> t, l |-> l]
Attribute(k) == SdpLine(k, 0, "", "", <<>>)

\* addRtpMap(): a map that is there stays.
AddRtpMap(e, pt, map) ==
    [e EXCEPT !.pts = IF pt \in Range(@) THEN @ ELSE Append(@, pt), !.maps = PutNew(@, pt, map)]

\* addVideoCodec() with its feedback, addAudioCodec() and addRtxCodec().
AddCodec(e, pt, format) ==
    AddRtpMap(e, pt, [format |-> format, apt |-> 0,
                      fbs |-> IF e.type = "video" THEN <<"nack", "nack pli", "goog-remb">> ELSE <<>>])
AddRtxCodec(e, pt, orig) == AddRtpMap(e, pt, [format |-> "RTX", apt |-> orig, fbs |-> <<>>])

\* removeRtpMap(): what depends on the format goes with it.
RemoveRtpMap(e, pt) ==
    LET gone == {pt} \cup {x \in DOMAIN e.maps \ {pt} : e.maps[x].apt = pt}
    IN [e EXCEPT !.pts = SelectSeq(@, LAMBDA x : x \notin gone), !.maps = Drop(@, gone)]

RemoveFormat(e, format) ==
    FoldLeft(RemoveRtpMap, e, Ascending({pt \in DOMAIN e.maps : e.maps[pt].format = format}))

\* The number of a line of text begins with that of another.
DecimalPrefix(a, b) == \E k \in 0 .. 3 : b \div (10 ^ k) = a

\* addSSRC(): one line with the name, if there is one, two with the stream.  A
\* name that the SSRC had before stays in the table.
AddSsrc(e, s, name, msid) ==
    LET lines == << SdpLine("ssrc", s, name, "", <<>>) >>
                 \o IF msid THEN << SdpLine("ssrc", s, "msid", "", <<>>), Attribute("msid") >> ELSE <<>>
    IN [e EXCEPT !.attrs = @ \o lines, !.ssrcs = Append(@, s),
                 !.cnames = IF name = "" THEN @ ELSE PutNew(@, s, name)]

\* removeSSRC(): lines are compared by their beginning.  The name stays.
RemoveSsrc(e, s) ==
    [e EXCEPT !.attrs = SelectSeq(@, LAMBDA a : ~(a.k = "ssrc" /\ DecimalPrefix(s, a.n))),
              !.ssrcs = SelectSeq(@, LAMBDA x : x # s)]

ClearSsrcs(e) == [e EXCEPT !.attrs = SelectSeq(@, LAMBDA a : a.k # "ssrc"), !.ssrcs = <<>>, !.cnames = <<>>]

\* The direction seen from the other side.
Inverted(dir) == IF dir = "recvonly" THEN "sendonly" ELSE IF dir = "sendonly" THEN "recvonly" ELSE dir

\* Media::reciprocate and Application::reciprocate.
Reciprocate(e) ==
    IF IsApplication(e) THEN [e EXCEPT !.maxSize = 0]
    ELSE [ClearSsrcs(e) EXCEPT !.dir = Inverted(@), !.ext = [x \in DOMAIN @ |-> Inverted(@[x])],
                               !.attrs = SelectSeq(@, LAMBDA a : a.k # "rtcp-rsize")]
--------------------------------------------------------------------------
(* Candidates                                                               *)

\* Candidate::resolve() without lookup: a numeric address resolves to itself.
Candidate(p, resolved) ==
    [id |-> p.id, node |-> p.node, type |-> p.type, priority |-> p.priority,
     family |-> IF resolved /\ p.node # "name" THEN p.node ELSE "unresolved"]

SameCandidate(c, x) == c.id = x.id /\ c.node = x.node

AddCandidate(d, c) ==
    [d EXCEPT !.cands = IF \E i \in DOMAIN @ : SameCandidate(c, @[i]) THEN @ ELSE Append(@, c)]

NoCandidate == Candidate([id |-> 0, node |-> "name", type |-> "host", priority |-> 0], FALSE)

\* defaultCandidate(): a host candidate is given up for one of the same family
\* with a higher priority, and IPv6 for IPv4.
DefaultCandidate(d) ==
    FoldLeft(LAMBDA acc, c :
               IF c.type = "host" /\ (\/ acc.id = 0
                                      \/ acc.family = "ip6" /\ c.family = "ip4"
                                      \/ acc.family = c.family /\ acc.priority < c.priority)
                 THEN c ELSE acc,
             NoCandidate, d.cands)

\* The port of the media lines: that of the default candidate, or 9.
MediaPort(d) == LET c == DefaultCandidate(d) IN IF c.family = "unresolved" THEN 9 ELSE 1000 + c.id
--------------------------------------------------------------------------
(* generateSdp()                                                            *)

\* AlgorithmIdentifier and AlgorithmSize: SHA-384 bears the name of SHA-256.
AlgorithmIdentifier(a) == IF a = "sha-384" THEN "sha-256" ELSE a
AlgorithmSize(a) == IF a = "sha-1" THEN 20 ELSE IF a = "sha-256" THEN 32 ELSE 48

Kept(d) == SelectSeq(d.entries, LAMBDA e : ~e.removed)
Mids(entries) == [i \in DOMAIN entries |-> entries[i].mid]
If(cond, line) == IF cond THEN <<line>> ELSE <<>>

SessionLines(d) ==
    LET media == SelectSeq(Kept(d), LAMBDA e : ~IsApplication(e)) IN
    If(Kept(d) # <<>>, SdpLine("group", 0, "BUNDLE", "", Mids(Kept(d))))
    \o If(media # <<>>, SdpLine("group", 0, "LS", "", Mids(media)))
    \o << Attribute("msid-semantic") >>
    \o If(d.options # <<>>, SdpLine("ice-options", 0, "", "", d.options))
    \o If(d.fp # "", SdpLine("fingerprint", AlgorithmSize(d.fp), AlgorithmIdentifier(d.fp), "", <<>>))
    \o d.attrs

MapLines(e, pt) ==
    LET m == e.maps[pt] IN
    << SdpLine("rtpmap", pt, m.format, "", <<>>) >>
    \o [i \in DOMAIN m.fbs |-> SdpLine("rtcp-fb", pt, m.fbs[i], "", <<>>)]
    \o If(m.apt # 0, SdpLine("fmtp", pt, "apt", "", <<m.apt>>))

\* A bug: an entry that is removed is written as one that is not.
Mut_EntryPort(e, port) == port

\* A port of zero stands for an entry that is removed.
EntryPort(e, port) == IF e.removed THEN 0 ELSE port

\* generateSdpLines() of Entry, Application and Media.  An entry with RIDs does
\* without its SSRCs.
EntryLines(e, port) ==
    LET exts == Ascending(DOMAIN e.ext)
        pts == Ascending(DOMAIN e.maps)
    IN << SdpLine("m", EntryPort(e, port), e.type, "", e.pts) >>
       \o If(e.bas # 0, SdpLine("b", e.bas, "", "", <<>>))
       \o << SdpLine("mid", e.mid, "", "", <<>>) >>
       \o [i \in DOMAIN exts |-> SdpLine("extmap", exts[i], e.ext[exts[i]], "", <<>>)]
       \o If(e.dir # "unknown", Attribute(e.dir))
       \o SelectSeq(e.attrs, LAMBDA a : e.rids = <<>> \/ a.k # "ssrc")
       \o [i \in DOMAIN e.rids |-> SdpLine("rid", e.rids[i], "send", "", <<>>)]
       \o If(e.rids # <<>>, SdpLine("simulcast", 0, "send", "", e.rids))
       \o If(e.sctpPort # 0, SdpLine("sctp-port", e.sctpPort, "", "", <<>>))
       \o If(e.maxSize # 0, SdpLine("max-message-size", e.maxSize, "", "", <<>>))
       \o (IF IsApplication(e) THEN <<>>
           ELSE << Attribute("rtcp-mux") >> \o FlattenSeq([i \in DOMAIN pts |-> MapLines(e, pts[i])]))

CandidateLines(d) ==
    [i \in DOMAIN d.cands |-> SdpLine("candidate", d.cands[i].id, d.cands[i].node, d.cands[i].type, <<d.cands[i].priority>>)]
    \o If(d.ended, Attribute("end-of-candidates"))

\* The candidates follow the first entry that is not removed.
CandidatesAt(d, i) == ~d.entries[i].removed /\ \A j \in 1 .. i - 1 : d.entries[j].removed

GenerateSdp(d) ==
    SessionLines(d)
    \o FlattenSeq([i \in DOMAIN d.entries |->
                     EntryLines(d.entries[i], MediaPort(d))
                     \o << SdpLine("setup", 0, d.role, "", <<>>) >>
                     \o If(d.ufrag # 0, SdpLine("ice-ufrag", d.ufrag, "", "", <<>>))
                     \o If(d.pwd # 0, SdpLine("ice-pwd", d.pwd, "", "", <<>>))
                     \o IF CandidatesAt(d, i) THEN CandidateLines(d) ELSE <<>>])
--------------------------------------------------------------------------
(* The constructor: one line after the other                                *)

SdpDirections == {"sendonly", "recvonly", "sendrecv", "inactive"}

\* parseSdpLine() of Entry, Application and Media.
ParseEntryLine(e, x) ==
    CASE x.k = "mid" -> [e EXCEPT !.mid = x.n]
      [] x.k = "extmap" -> [e EXCEPT !.ext = Put(@, x.n, x.s)]
      [] x.k \in SdpDirections -> [e EXCEPT !.dir = x.k]
      [] x.k = "bundle-only" -> [e EXCEPT !.removed = FALSE]
      [] x.k = "sctp-port" /\ IsApplication(e) -> [e EXCEPT !.sctpPort = x.n]
      [] x.k = "max-message-size" /\ IsApplication(e) -> [e EXCEPT !.maxSize = x.n]
      [] x.k = "b" /\ ~IsApplication(e) -> [e EXCEPT !.bas = x.n]
      [] x.k = "rtcp-mux" /\ ~IsApplication(e) -> e
      [] x.k \in {"rtpmap", "rtcp-fb", "fmtp"} /\ ~IsApplication(e) ->
            LET maps == PutNew(e.maps, x.n, [format |-> "", apt |-> 0, fbs |-> <<>>]) IN
            [e EXCEPT !.maps = IF x.k = "rtpmap" THEN [maps EXCEPT ![x.n].format = x.s]
                               ELSE IF x.k = "fmtp" THEN [maps EXCEPT ![x.n].apt = x.l[1]]
                               ELSE [maps EXCEPT ![x.n].fbs = Append(@, x.s)]]
      [] x.k = "ssrc" /\ ~IsApplication(e) ->
            [e EXCEPT !.ssrcs = IF x.n \in Range(@) THEN @ ELSE Append(@, x.n), !.attrs = Append(@, x),
                      !.cnames = IF x.s \in {"", "msid"} THEN @ ELSE PutNew(@, x.n, x.s)]
      [] OTHER -> [e EXCEPT !.attrs = Append(@, x)]

\* createEntry(): a second application takes the place of the first.
ParseMediaLine(d, x, index) ==
    LET e == [NewEntry(x.s, index, IF x.s = "application" THEN "sendrecv" ELSE "unknown")
                EXCEPT !.removed = (x.n = 0), !.pts = x.l]
    IN [d EXCEPT !.entries =
          Append(IF IsApplication(e) THEN SelectSeq(@, LAMBDA o : ~IsApplication(o)) ELSE @, e)]

SessionAttribute(attrs, x) == Append(attrs, x)

\* What the first media says overrides what the session says, and later media
\* say nothing new.
Overrides(old, none, index) == old = none \/ index = 0

\* One line; "index" counts the media lines from -1, which is kept as one more.
ParseLine(st, x) ==
    LET d == st.d
        last == Len(d.entries)
        first(field, none) == Overrides(field, none, IF st.index = 1 THEN 0 ELSE 1)
    IN IF st.failed THEN st
       ELSE IF x.k = "m" THEN [st EXCEPT !.d = ParseMediaLine(d, x, st.index), !.index = @ + 1]
       ELSE IF x.k = "setup" THEN [st EXCEPT !.d.role = x.s]
       ELSE IF x.k = "fingerprint" THEN
            \* setFingerprint() throws when the value is not as long as the algorithm says
            IF ~first(d.fp, "") \/ x.s \notin {"sha-1", "sha-256"} THEN st
            ELSE IF x.n # AlgorithmSize(x.s) THEN [st EXCEPT !.failed = TRUE] ELSE [st EXCEPT !.d.fp = x.s]
       ELSE IF x.k = "ice-ufrag" THEN IF first(d.ufrag, 0) THEN [st EXCEPT !.d.ufrag = x.n] ELSE st
       ELSE IF x.k = "ice-pwd" THEN IF first(d.pwd, 0) THEN [st EXCEPT !.d.pwd = x.n] ELSE st
       ELSE IF x.k = "ice-options" THEN IF d.options = <<>> THEN [st EXCEPT !.d.options = x.l] ELSE st
       ELSE IF x.k = "candidate" THEN
            [st EXCEPT !.d = AddCandidate(d, Candidate([id |-> x.n, node |-> x.s, type |-> x.t, priority |-> x.l[1]], FALSE))]
       ELSE IF x.k = "end-of-candidates" THEN [st EXCEPT !.d.ended = TRUE]
       ELSE IF last > 0 THEN [st EXCEPT !.d.entries[last] = ParseEntryLine(@, x)]
       ELSE [st EXCEPT !.d.attrs = SessionAttribute(@, x)]

EmptyDescription ==
    [role |-> "actpass", ufrag |-> 0, pwd |-> 0, fp |-> "", options |-> <<>>, attrs |-> <<>>, cands |-> <<>>,
     ended |-> FALSE, entries |-> <<>>]

Parse(lines) == FoldLeft(ParseLine, [d |-> EmptyDescription, index |-> 0, failed |-> FALSE], lines)
--------------------------------------------------------------------------
(* The calls of an application                                              *)

\* A description without media, or one with a video and an application.
DescriptionInit ==
    /\ desc \in {EmptyDescription,
                 [EmptyDescription EXCEPT
                    !.entries = << AddCodec(NewEntry("video", 5, "sendonly"), CHOOSE p \in PayloadTypes : TRUE, "H264"),
                                   [NewEntry("application", 6, "sendrecv") EXCEPT !.sctpPort = 5000] >>]}
    /\ descriptionOps = 0 /\ prefixHit = FALSE /\ reused = FALSE

\* What addVideo, addAudio and addApplication make of it: an application takes
\* the place of the one that is there.
WithMedia(d) ==
    {[d EXCEPT !.entries = Append(@, NewEntry(type, Len(@), dir))] : type \in {"video", "audio"}, dir \in {"sendonly", "unknown"}}
    \cup {[d EXCEPT !.entries = Append(SelectSeq(@, LAMBDA e : ~IsApplication(e)), NewEntry("application", Len(@), "sendrecv"))]}

\* addAttribute() and addIceOption(): what is there is not added again.
AddNew(seq, x) == IF x \in Range(seq) THEN seq ELSE Append(seq, x)

\* What the calls that are about the whole session make of it.
WithSession(d) ==
    {[d EXCEPT !.fp = a] : a \in {"sha-1", "sha-256", "sha-384"}}
    \cup {AddCandidate(d, Candidate(p, r)) : p \in CandidatePool, r \in BOOLEAN}
    \cup {[d EXCEPT !.role = "passive"], [d EXCEPT !.ufrag = 7, !.pwd = 8], [d EXCEPT !.options = AddNew(@, 3)],
          [d EXCEPT !.attrs = AddNew(@, Attribute("x"))], [d EXCEPT !.attrs = <<>>], [d EXCEPT !.options = <<>>],
          [d EXCEPT !.ended = TRUE], [d EXCEPT !.cands = <<>>, !.ended = FALSE]}

\* What the calls of an entry make of it.
WithEntry(e) ==
    {[e EXCEPT !.removed = TRUE], [e EXCEPT !.ext = Drop(@, {3})], [e EXCEPT !.attrs = AddNew(@, Attribute("rtcp-rsize"))]}
    \cup {[e EXCEPT !.dir = dir] : dir \in {"recvonly", "inactive"}}
    \cup {[e EXCEPT !.ext = PutNew(@, 3, dir)] : dir \in {"unknown", "sendonly"}}
    \cup {Reciprocate(e)}
    \cup IF IsApplication(e) THEN {[e EXCEPT !.maxSize = 64], [e EXCEPT !.sctpPort = 5001]}
         ELSE {[e EXCEPT !.bas = 1], ClearSsrcs(e), [e EXCEPT !.rids = Append(@, Len(@))]}
              \cup {AddCodec(e, pt, IF pt = 1 THEN "VP8" ELSE "H264") : pt \in PayloadTypes}
              \cup {AddRtxCodec(e, pt + 10, pt) : pt \in {x \in DOMAIN e.maps : e.maps[x].apt = 0}}
              \cup {RemoveRtpMap(e, pt) : pt \in DOMAIN e.maps}
              \cup {RemoveFormat(e, e.maps[pt].format) : pt \in DOMAIN e.maps}

Called == descriptionOps < MaxDescriptionOps /\ descriptionOps' = descriptionOps + 1

CallSession == Called /\ desc' \in WithMedia(desc) \cup WithSession(desc) /\ UNCHANGED <<prefixHit, reused>>

CallEntry(i) == Called /\ \E e \in WithEntry(desc.entries[i]) : desc' = [desc EXCEPT !.entries[i] = e] /\ UNCHANGED <<prefixHit, reused>>

\* An SSRC with a name, and with or without a stream.
CallAddSsrc(i, s) ==
    /\ Called /\ ~IsApplication(desc.entries[i])
    /\ \E name \in {"", "a", "b"}, msid \in BOOLEAN : desc' = [desc EXCEPT !.entries[i] = AddSsrc(@, s, name, msid)]
    /\ reused' = (reused \/ s \in DOMAIN desc.entries[i].cnames \/ s \in Range(desc.entries[i].ssrcs))
    /\ UNCHANGED prefixHit

CallRemoveSsrc(i, s) ==
    /\ Called /\ ~IsApplication(desc.entries[i])
    /\ desc' = [desc EXCEPT !.entries[i] = RemoveSsrc(@, s)]
    /\ prefixHit' = (prefixHit \/ \E x \in Range(desc.entries[i].ssrcs) \ {s} : DecimalPrefix(s, x))
    /\ UNCHANGED reused

DescriptionNext ==
    \/ CallSession
    \/ \E i \in DOMAIN desc.entries : CallEntry(i) \/ \E s \in Ssrcs : CallAddSsrc(i, s) \/ CallRemoveSsrc(i, s)

DescriptionSpec == DescriptionInit /\ [][DescriptionNext]_descriptionVars
--------------------------------------------------------------------------
\* What is written of an entry, the port of its media line apart.
Text(e) == EntryLines(e, 9)

Media(d) == {i \in DOMAIN d.entries : ~IsApplication(d.entries[i])}

\* What is read is what was written: the entries in their order, removed ones
\* too, with the same lines when they are written again, and what belongs to the
\* session when there is an entry to carry it.  Only a fingerprint of SHA-384,
\* which is written under the name of SHA-256, makes the constructor throw.
ReadAsWritten ==
    LET d == Parse(GenerateSdp(desc)).d IN
    /\ Parse(GenerateSdp(desc)).failed <=> desc.fp = "sha-384"
    /\ desc.fp # "sha-384" =>
        /\ Len(d.entries) = Len(desc.entries)
        /\ \A i \in DOMAIN d.entries : Text(d.entries[i]) = Text(desc.entries[i]) /\ d.entries[i].removed = desc.entries[i].removed
        /\ \A i \in Media(d) : d.entries[i].maps = desc.entries[i].maps /\ d.entries[i].pts = desc.entries[i].pts
        /\ d.fp = desc.fp /\ d.options = desc.options
        /\ d.entries # <<>> => d.role = desc.role /\ d.ufrag = desc.ufrag /\ d.pwd = desc.pwd
        /\ Kept(desc) # <<>> => CandidateLines(d) = CandidateLines(desc)

\* What is said of the session is not said again by being read: each time a
\* description is read and written once more, its groups are repeated, the old
\* ones beside the new ones, and nothing else is.
GroupsPileUp ==
    LET d == Parse(GenerateSdp(desc)).d IN
    desc.fp # "sha-384" =>
        d.attrs = SelectSeq(SessionLines(desc), LAMBDA x : x.k \in {"group", "msid-semantic"}) \o desc.attrs

\* The SSRCs and names that a reader gets are those of the description: unless
\* RIDs replace them, an SSRC was named anew, or the lines of an SSRC went with
\* those of another whose number is a prefix of its own.
SsrcsAsWritten ==
    LET d == Parse(GenerateSdp(desc)).d IN
    desc.fp # "sha-384" /\ ~prefixHit /\ ~reused =>
        \A i \in Media(d) :
            desc.entries[i].rids = <<>> =>
                /\ d.entries[i].ssrcs = desc.entries[i].ssrcs
                /\ d.entries[i].cnames = [s \in DOMAIN desc.entries[i].cnames \cap Range(d.entries[i].ssrcs) |->
                                            desc.entries[i].cnames[s]]

\* Every format of an entry is in its media line and no payload type is left
\* that retransmits one that is gone.
FormatsListed ==
    \A i \in Media(desc) :
        LET e == desc.entries[i] IN
        /\ DOMAIN e.maps = Range(e.pts) /\ IsInjective(e.pts)
        /\ \A pt \in DOMAIN e.maps : e.maps[pt].apt = 0 \/ e.maps[pt].apt \in DOMAIN e.maps

\* An answer to an answer has the direction of the offer, and an answer has no
\* SSRC of the offer, in its tables and in its lines.
AnswersFit ==
    \A i \in DOMAIN desc.entries :
        LET e == desc.entries[i] IN
        /\ Reciprocate(Reciprocate(e)).dir = e.dir /\ Reciprocate(Reciprocate(e)).ext = e.ext
        /\ e.dir \in {"sendonly", "recvonly"} /\ ~IsApplication(e) => Reciprocate(e).dir # e.dir
        /\ ~IsApplication(e) => Reciprocate(e).ssrcs = <<>> /\ \A x \in Range(Text(Reciprocate(e))) : x.k # "ssrc"

\* The address of the media lines is that of an IPv4 host candidate whenever one
\* is resolved, and then of the best: unless the first host candidate is not
\* resolved, which none with an address replaces.
DefaultIsBest ==
    LET hosts == SelectSeq(desc.cands, LAMBDA c : c.type = "host")
        best(f) == {c \in Range(hosts) : c.family = f /\ \A o \in Range(hosts) : o.family = f => o.priority <= c.priority}
    IN hosts # <<>> =>
         DefaultCandidate(desc) \in IF Head(hosts).family = "unresolved" THEN best("unresolved")
                                    ELSE IF best("ip4") # {} THEN best("ip4") ELSE best("ip6")

\* Descriptions that were edited by any calls are read as they were written and
\* answered as they fit, but for the exceptions named in the parts.
DescriptionInv ==
    /\ ReadAsWritten
    /\ GroupsPileUp
    /\ SsrcsAsWritten
    /\ FormatsListed
    /\ AnswersFit
    /\ DefaultIsBest
=============================================================================
