----------------------------- MODULE JiraClient -----------------------------
(***************************************************************************)
(* The Jira client (integration/client/jira.go): the issue a payload       *)
(* becomes, with its description rendered to an ADF document, and the      *)
(* paged search by label, while issues are created and relabelled between  *)
(* its pages.                                                              *)
(*                                                                         *)
(* A text is a sequence of trimmed lines, a line a sequence of tokens, a   *)
(* token a sequence of characters: a word, an address or one of the marks  *)
(* below.  Labels are trimmed too.                                         *)
(***************************************************************************)
EXTENDS Integers, Sequences, FiniteSets, SequencesExt

CONSTANTS
  Payloads,    \* what the ticket form and the automations send
  MaxIssues,   \* bound: issues ever created
  PageSize,    \* searchPageSize
  MaxTickets   \* the loop of the search ends at this many

\* A bullet is no line of its own: trimmed, it has lost its blank.
Star == <<"**">>
Bullet == <<"- ">>
Rule == <<"---">>

Tokens == Seq(STRING)
IsText(text) == text \in Seq(Seq(Tokens)) /\ \A i \in DOMAIN text : text[i] # <<Bullet>>
IsPayload(payload) == IsText(payload.description) /\ payload.labels \in Seq(Seq(STRING))

ASSUME JiraAssumption ==
  /\ MaxIssues \in Nat /\ PageSize \in Nat \ {0} /\ MaxTickets \in Nat \ {0}
  /\ \A payload \in Payloads : IsPayload(payload)

VARIABLES
  issues,      \* Jira's issues, oldest first: [payload, fields]
  labelled,    \* the ones that carry the IdentityHub label now
  pc,          \* the search: "idle", "paging" or "done"
  got,         \* the issues it has read
  token,       \* where its next page starts: after issue token, or NoToken
  since        \* the issues labelled ever since it began

jira == <<issues, labelled>>
search == <<pc, got, token, since>>
jiraVars == <<jira, search>>

NoToken == 0
Ids == 1..MaxIssues

-----------------------------------------------------------------------------
(* The document of a description. *)

\* appendText: empty spans are dropped.
Span(tokens, bold) == IF tokens = <<>> THEN <<>> ELSE <<[text |-> tokens, bold |-> bold]>>

\* The first star from the i-th token on, or the end.
NextStar(s, i) == Min({Len(s) + 1} \cup {j \in i..Len(s) : s[j] = Star})

\* nodes[i]: what becomes of the text from its i-th token on.
AdfInline(s) ==
  LET nodes[i \in 1..(Len(s) + 1)] ==
        LET start == NextStar(s, i)
            end == NextStar(s, start + 1)
        IN  Span(SubSeq(s, i, start - 1), FALSE) \o
            IF start > Len(s) THEN <<>>
            ELSE IF end > Len(s) THEN Span(SubSeq(s, start, Len(s)), FALSE)
            ELSE Span(SubSeq(s, start + 1, end - 1), TRUE) \o nodes[end + 1]
  IN  nodes[1]

Paragraph(nodes) == [type |-> "paragraph", content |-> <<nodes>>]
BulletList(items) == [type |-> "bulletList", content |-> items]

\* flushBullets.
Flush(doc) ==
  IF doc.bullets = <<>> THEN doc
  ELSE [content |-> Append(doc.content, BulletList(doc.bullets)), bullets |-> <<>>]

\* Flush, then one more block.
Block(doc, block) == [Flush(doc) EXCEPT !.content = Append(@, block)]

AddLine(doc, line) ==
  CASE line = <<>> -> Flush(doc)
    [] line = <<Rule>> -> Block(doc, [type |-> "rule", content |-> <<>>])
    [] Len(line) > 1 /\ line[1] = Bullet ->
         LET item == AdfInline(Tail(line))
         IN  IF item = <<>> THEN doc ELSE [doc EXCEPT !.bullets = Append(@, item)]
    [] OTHER -> Block(doc, Paragraph(AdfInline(line)))

\* docs[n]: what has become of the first n lines.
AdfDoc(text) ==
  LET docs[n \in 0..Len(text)] ==
        IF n = 0 THEN [content |-> <<>>, bullets |-> <<>>]
        ELSE AddLine(docs[n - 1], text[n])
      doc == Flush(docs[Len(text)])
  IN  IF doc.content = <<>> THEN <<Paragraph(<<>>)>> ELSE doc.content

-----------------------------------------------------------------------------
(* The fields of an issue. *)

IdentityHub == <<"identityhub">>

\* Empty labels go, blanks become dashes; other whitespace inside a label stays.
SanitizeLabels(labels) ==
  FlattenSeq([i \in DOMAIN labels |->
                IF labels[i] = <<>> THEN <<>> ELSE <<ReplaceAll(labels[i], " ", "-")>>])

WithIdentityHubLabel(labels) ==
  IF Contains(labels, IdentityHub) THEN labels ELSE Append(labels, IdentityHub)

\* A blank description makes no field (<<>> here).
Fields(payload) ==
  [project |-> payload.project,
   summary |-> payload.title,
   description |-> IF \E i \in DOMAIN payload.description : payload.description[i] # <<>>
                   THEN AdfDoc(payload.description) ELSE <<>>,
   labels |-> WithIdentityHubLabel(SanitizeLabels(payload.labels))]

\* CreateIssue at Jira.
Post(payload) ==
  /\ Len(issues) < MaxIssues
  /\ issues' = Append(issues, [payload |-> payload, fields |-> Fields(payload)])
  /\ labelled' = labelled \cup {Len(issues) + 1}

-----------------------------------------------------------------------------
JiraInit ==
  /\ issues = <<>> /\ labelled = {}
  /\ pc = "idle" /\ got = <<>> /\ token = NoToken /\ since = {}

CreateIssue(payload) == Post(payload) /\ UNCHANGED search

\* Somebody takes the label off an issue, or puts it on.
Relabel(i) ==
  /\ i \in DOMAIN issues
  /\ labelled' = IF i \in labelled THEN labelled \ {i} ELSE labelled \cup {i}
  /\ since' = since \ {i}
  /\ UNCHANGED <<issues, pc, got, token>>

\* What the search has still to read.
Ahead == {i \in labelled : token = NoToken \/ i < token}

\* The pages that S, newest first, may begin with: as many issues as Jira likes up
\* to the page size, but at least one while there are any.
Openings(S) ==
  {page \in UNION {[1..n -> S] : n \in 0..PageSize} :
     /\ \A j, k \in DOMAIN page : j < k => page[j] > page[k]
     /\ \A i \in S \ ToSet(page), j \in ToSet(page) : i < j
     /\ S # {} => page # <<>>}

\* Jira's pages: the last one may be flagged, come without a token, or be told only
\* by the empty page after it.
Pages ==
  {page \in [issues : Openings(Ahead), more : BOOLEAN, isLast : BOOLEAN] :
     page.isLast \/ ~page.more => ToSet(page.issues) = Ahead}

\* Variant: a page that is not full is the last.
IsFinalPageShort(page) == page.isLast \/ ~page.more \/ Len(page.issues) < PageSize

IsFinalPage(page) == page.isLast \/ ~page.more \/ page.issues = <<>>

SearchByLabel ==
  /\ pc = "idle"
  /\ pc' = "paging" /\ got' = <<>> /\ token' = NoToken /\ since' = labelled
  /\ UNCHANGED jira

\* One turn of the loop: the page is kept whatever it is, then judged.
FetchPage ==
  /\ pc = "paging"
  /\ \E page \in Pages :
       LET tickets == got \o page.issues IN
       /\ got' = tickets
       /\ IF IsFinalPage(page) \/ Len(tickets) >= MaxTickets
          THEN pc' = "done" /\ UNCHANGED token
          ELSE UNCHANGED pc /\ token' = Last(page.issues)
  /\ UNCHANGED <<jira, since>>

\* A failed page fails the search; a result is used and forgotten.
EndSearch ==
  /\ pc # "idle"
  /\ pc' = "idle" /\ got' = <<>> /\ token' = NoToken /\ since' = {}
  /\ UNCHANGED jira

SearchNext ==
  \/ \E i \in Ids : Relabel(i)
  \/ SearchByLabel \/ FetchPage \/ EndSearch

JiraNext == SearchNext \/ \E payload \in Payloads : CreateIssue(payload)

-----------------------------------------------------------------------------
(* Properties. *)

JiraTypeOK ==
  /\ labelled \subseteq DOMAIN issues /\ since \subseteq labelled
  /\ pc \in {"idle", "paging", "done"}
  /\ ToSet(got) \subseteq DOMAIN issues /\ token \in {NoToken} \cup Ids
  /\ Len(got) < MaxTickets + PageSize

\* Whatever the sizes of Jira's pages and the changes between them, a search
\* returns no issue twice, newest first, and misses an issue that carried the
\* label all along only for MaxTickets newer ones (SearchByLabel).
NoneSkipped ==
  /\ \A i, j \in DOMAIN got : i < j => got[i] > got[j]
  /\ pc = "done" =>
       \A i \in since \ ToSet(got) :
         Len(got) >= MaxTickets /\ \A j \in ToSet(got) : j > i

\* How a line reads: the ** that pair up are gone, what is between a pair is bold,
\* and everything else is there.
Opened(line, i) == Cardinality({j \in DOMAIN line : j < i /\ line[j] = Star}) % 2 = 1
Closed(line, i) == \E j \in DOMAIN line : j > i /\ line[j] = Star

ReadToken(line, i) ==
  IF line[i] = Star /\ (Opened(line, i) \/ Closed(line, i)) THEN <<>>
  ELSE <<[token |-> line[i], bold |-> Opened(line, i) /\ Closed(line, i)]>>

ReadSpans(line) == FlattenSeq([i \in DOMAIN line |-> ReadToken(line, i)])

ReadLine(line) ==
  IF line # <<>> /\ line[1] = Bullet THEN ReadSpans(Tail(line)) ELSE ReadSpans(line)

ReadText(text) == FlattenSeq([i \in DOMAIN text |-> ReadLine(text[i])])

\* How a document reads.
ReadNode(node) == [i \in DOMAIN node.text |-> [token |-> node.text[i], bold |-> node.bold]]
ReadNodes(nodes) == FlattenSeq([i \in DOMAIN nodes |-> ReadNode(nodes[i])])
ReadBlock(block) ==
  IF block.type = "rule" THEN <<[token |-> Rule, bold |-> FALSE]>>
  ELSE FlattenSeq([i \in DOMAIN block.content |-> ReadNodes(block.content[i])])
ReadDoc(doc) == FlattenSeq([i \in DOMAIN doc |-> ReadBlock(doc[i])])

\* What Jira takes: no text node, list or list item is empty.  A paragraph may be: the
\* code leaves one of a line "****", and writes one for a text without any block.
Acceptable(block) ==
  /\ block.type = "bulletList" =>
       block.content # <<>> /\ \A i \in DOMAIN block.content : block.content[i] # <<>>
  /\ \A i \in DOMAIN block.content : \A j \in DOMAIN block.content[i] :
       block.content[i][j].text # <<>>

\* Every issue says what its payload says, word for word, in order and in the
\* same emphasis, has no node that Jira refuses, and can be found by the label of the
\* search, with no blank in any label (adfDoc, adfInline, CreateIssue).
Rendered ==
  \A i \in DOMAIN issues :
    LET fields == issues[i].fields IN
    /\ ReadDoc(fields.description) = ReadText(issues[i].payload.description)
    /\ \A k \in DOMAIN fields.description : Acceptable(fields.description[k])
    /\ Contains(fields.labels, IdentityHub)
    /\ \A k \in DOMAIN fields.labels : fields.labels[k] # <<>> /\ ~Contains(fields.labels[k], " ")
=============================================================================
