------------------------------ MODULE ChatTurn ------------------------------
(***************************************************************************)
(* One turn of the match chat in the agent: the request it takes           *)
(* (channels/chat.ts, lib/chat/request.ts), the sources it may cite         *)
(* (lib/chat/sources.ts) and the answer it streams (lib/chat/turn.ts).      *)
(*                                                                         *)
(* The context is those of its lines that open or shut a block of sources,  *)
(* and the numbered entries, whose link may be none the app can open.  Text *)
(* is the pieces it arrives in, cut anywhere: a citation is a bracket, a    *)
(* number and a bracket.  The model says nothing after its finish.          *)
(* Thinking, usage and the wording of failures are left out.                *)
(***************************************************************************)
EXTENDS Integers, Sequences, FiniteSetsExt

CONSTANTS
    None,
    Number,        \* what sources are numbered with
    Contexts,      \* the contexts the API may send
    MaxMessages,   \* MAX_MESSAGES
    MaxText        \* bound: pieces of an answer

VARIABLES
    request,   \* the context and the roles of the messages
    status,    \* of the turn: a refusal's, or how the answer stands
    text,      \* what the model has said
    finish,    \* its finish is held back
    out        \* what has been streamed

vars == <<request, status, text, finish, out>>

Entries(context) == {i \in DOMAIN context : context[i].tag = "entry"}
Tags(tag, context) == {i \in DOMAIN context : context[i].tag = tag}
Pieces == {"[", "]"} \union Number

TypeOK ==
    /\ request.messages \in Seq({"user", "assistant"})
    /\ status \in {"401", "413", "422", "running", "ended", "failed"}
    /\ text \in Seq(Pieces) /\ Len(text) <= MaxText
    /\ finish \in BOOLEAN

-----------------------------------------------------------------------------
\* request.ts: who spoke, in turn.
Alternates(messages) ==
    /\ Len(messages) \in 1 .. MaxMessages /\ Len(messages) % 2 = 1
    /\ \A i \in DOMAIN messages : messages[i] = IF i % 2 = 1 THEN "user" ELSE "assistant"

\* channels/chat.ts: the token, the size and the body, in this order; `form` is what the body has
\* to be besides: JSON, with a fixture, a context and no text empty or too long.
Status(token, size, form, messages) ==
    CASE ~token -> "401"
      [] token /\ ~size -> "413"
      [] token /\ size -> IF form /\ Alternates(messages) THEN "running" ELSE "422"

\* sources.ts, parseSources: the entries of the last block, up to its end or the context's; an
\* entry without a link is skipped, and of two with one number the later stands.
ParseSources(context) ==
    LET starts == Tags("open", context)
        ends == {i \in Tags("shut", context) : i > Max(starts)}
        end == IF ends = {} THEN Len(context) + 1 ELSE Min(ends)
        entry(n) == IF starts = {} THEN {}
                    ELSE {i \in Entries(context) \intersect (Max(starts) .. end - 1) :
                             context[i].n = n /\ context[i].link # None} IN
    [n \in {m \in Number : entry(m) # {}} |-> context[Max(entry(n))].link]

\* sources.ts, citedSources: in order of first citation.
Cites(said, n) ==
    {i \in 1 .. Len(said) - 2 : said[i] = "[" /\ said[i + 1] = n /\ said[i + 2] = "]"}

CitedSources(said, sources) ==
    LET cited == {n \in DOMAIN sources : Cites(said, n) # {}}
        rank(n) == Cardinality({m \in cited : Min(Cites(said, m)) <= Min(Cites(said, n))}) IN
    [k \in 1 .. Cardinality(cited) |->
        LET n == CHOOSE m \in cited : rank(m) = k IN <<"source", n, sources[n]>>]

Init ==
    /\ \E context \in Contexts, token, size, form \in BOOLEAN,
          messages \in UNION {[1 .. k -> {"user", "assistant"}] : k \in 0 .. MaxMessages + 1} :
          /\ messages = <<"user">> \/ (token /\ size /\ form /\ context = <<>>)
          /\ request = [context |-> context, messages |-> messages]
          /\ status = Status(token, size, form, messages)
    /\ text = <<>> /\ finish = FALSE /\ out = <<>>

\* turn.ts: what the model says is passed on as it arrives.
Delta ==
    /\ status = "running" /\ ~finish /\ Len(text) < MaxText
    /\ \E piece \in Pieces : text' = Append(text, piece) /\ out' = Append(out, <<"text", piece>>)
    /\ UNCHANGED <<request, status, finish>>

\* Its finish is held back for the sources.
Finish ==
    /\ status = "running" /\ ~finish /\ finish' = TRUE
    /\ UNCHANGED <<request, status, text, out>>

\* The model's stream is over: a finish is written, its own or a bare one.
Close ==
    /\ status = "running" /\ status' = "ended"
    /\ out' = out \o CitedSources(text, ParseSources(request.context)) \o <<<<"finish">>>>
    /\ UNCHANGED <<request, text, finish>>

\* The model or its stream fails, or the 45 seconds are over.
Fail ==
    /\ status = "running" /\ status' = "failed" /\ out' = Append(out, <<"error">>)
    /\ UNCHANGED <<request, text, finish>>

Next == Delta \/ Finish \/ Close \/ Fail

Spec == Init /\ [][Next]_vars

-----------------------------------------------------------------------------
\* What the last block lists, up to its end or the context's, and where the text cites a number.
Listed(context) ==
    {k \in Entries(context) :
        /\ \A j \in Tags("open", context) : j < k
        /\ \E j \in Tags("open", context) :
              \A l \in Tags("shut", context) : ~(j < l /\ l < k)}

Quotes(n) == {i \in 3 .. Len(text) : SubSeq(text, i - 2, i) = <<"[", n, "]">>}

\* A turn runs only for a conversation that begins and ends with the member, each speaking in
\* turn; its text is passed on whole and in order; what it cites, wherever the pieces were cut,
\* follows all of the text, each source once and the first cited first, none that the last block
\* does not list with a link or that the text does not cite, and of two with one number the later;
\* and it ends with one finish, or with one error and no source.
AnswersAreSourced ==
    LET of(kind) == {i \in DOMAIN out : out[i][1] = kind}
        line == request.context
        listed == Listed(line)
        m == request.messages IN
    /\ out # <<>> =>
          m[1] = "user" /\ m[Len(m)] = "user" /\ \A i \in 2 .. Len(m) : m[i] # m[i - 1]
    /\ of("text") = DOMAIN text /\ \A i \in DOMAIN text : out[i][2] = text[i]
    /\ \A i \in of("source") :
          /\ out[i][3] # None /\ Quotes(out[i][2]) # {}
          /\ \E k \in listed :
                /\ line[k].n = out[i][2] /\ line[k].link = out[i][3]
                /\ \A l \in listed : l > k /\ line[l].n = line[k].n => line[l].link = None
    /\ \A i, j \in of("source") :
          i < j => \E p \in Quotes(out[i][2]) : \A q \in Quotes(out[j][2]) : p < q
    /\ status = "ended" =>
          /\ of("finish") = {Len(out)}
          /\ \A k \in listed : line[k].link # None /\ Quotes(line[k].n) # {} =>
                \E i \in of("source") : out[i][2] = line[k].n
    /\ status = "failed" => of("source") = {} /\ of("finish") = {} /\ of("error") = {Len(out)}

\* A context is a sequence of lines, and its entries are numbered. The inductive invariant: what
\* was streamed is the text, then the sources and a finish, or an error, as the turn ended.
Listings ==
    /\ MaxMessages \in Nat
    /\ \A context \in Contexts :
          /\ Len(context) \in Nat /\ DOMAIN context = 1 .. Len(context)
          /\ \A i \in Entries(context) : context[i].n \in Number

Passed == [i \in DOMAIN text |-> <<"text", text[i]>>]

Closing ==
    IF status = "ended"
    THEN CitedSources(text, ParseSources(request.context)) \o <<<<"finish">>>>
    ELSE IF status = "failed" THEN <<<<"error">>>> ELSE <<>>

TurnInv ==
    /\ request.context \in Contexts /\ request.messages \in Seq({"user", "assistant"})
    /\ text \in Seq(Pieces) /\ out = Passed \o Closing
    /\ \/ status \in {"running", "ended", "failed"} /\ Alternates(request.messages)
       \/ status \in {"401", "413", "422"} /\ text = <<>>
=============================================================================
