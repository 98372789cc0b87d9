----------------------------- MODULE DigestRun -----------------------------
(***************************************************************************)
(* What the runs of one automation file (automation/service.go), while its *)
(* editors change it: an edit reads the row, changes it and writes every   *)
(* field back; a run works on the copy of the row it claimed, reads the    *)
(* sitemap, takes the newest unseen posts and files a ticket for each that *)
(* can be scraped and summarised.  Claims, leases, crashes and lost calls  *)
(* are in Automation; here the rows, posts and tickets have contents.      *)
(***************************************************************************)
EXTENDS Sitemap, JiraClient

CONSTANTS
  Editors,         \* users in the middle of a PUT
  Requests,        \* bodies of POST and PUT: [site, project, interval, enabled]
  Webs,            \* what the watched host may serve
  Answers,         \* the objects the model answers with
  PageTitles,      \* titles of scraped pages
  MaxPosts,        \* per-run cap
  DefaultInterval, MinInterval,
  NoRow, NoEdit, Omitted

\* Of sites, automationRequest.validate admits those with a scheme and what follows
\* it; the rest are the types of the documents and of the configuration.
ASSUME DigestAssumption ==
  /\ MaxPosts \in Int /\ DefaultInterval \in Int /\ MinInterval \in Nat
  /\ \A w \in Webs : IsWeb(w)
  /\ \A req \in Requests :
       IsSite(req.site) /\ req.interval \in Int /\ req.enabled \in BOOLEAN \cup {Omitted}
  /\ \A answer \in Answers :
       /\ answer.summary.string => IsText(answer.summary.text)
       /\ answer.source.string => answer.source.text \in Tokens
       /\ answer.type.string => answer.type.text \in Tokens

VARIABLES
  web,        \* what the host serves
  row,        \* the automation, or NoRow
  born,       \* the automation was created
  clearing,   \* it was deleted and its seen set is still there
  edit,       \* edit[e]: the row editor e is going to write, or NoEdit
  seen,       \* the Redis set of posts
  run,        \* the worker: "idle", "discover", "post" or "mark"
  copy,       \* the row it claimed
  queue,      \* posts left of the run
  taken,      \* the posts of the run
  behind,     \* the posts its cap left for a later one
  digests     \* the issues that runs have filed

table == <<row, born, clearing, edit>>
worker == <<run, copy, queue, taken, behind>>
tickets == <<jira, digests>>
digestVars == <<web, table, seen, worker, tickets>>
contentVars == <<digestVars, search>>

DigestInit ==
  /\ web \in Webs
  /\ row = NoRow /\ born = FALSE /\ clearing = FALSE
  /\ edit = [e \in Editors |-> NoEdit]
  /\ seen = {}
  /\ run = "idle" /\ copy = NoRow /\ queue = <<>> /\ taken = {} /\ behind = {}
  /\ digests = {}

-----------------------------------------------------------------------------
(* Users. *)

\* automationRequest.validate: an interval is omitted (0) or long enough.
Valid(req) == req.interval = 0 \/ req.interval >= MinInterval

CreateAutomation(req) ==
  /\ Valid(req) /\ ~born
  /\ born' = TRUE
  /\ row' = [site |-> req.site, project |-> req.project,
             interval |-> IF req.interval = 0 THEN DefaultInterval ELSE req.interval,
             enabled |-> req.enabled # FALSE]
  /\ UNCHANGED <<web, clearing, edit, seen, worker, tickets>>

\* Variant: an omitted interval is written too.
MergeZero(old, req) ==
  [site |-> req.site, project |-> req.project, interval |-> req.interval,
   enabled |-> IF req.enabled = Omitted THEN old.enabled ELSE req.enabled]

\* UpdateInput: what the request omits stays as it was read.
Merge(old, req) ==
  [site |-> req.site, project |-> req.project,
   interval |-> IF req.interval = 0 THEN old.interval ELSE req.interval,
   enabled |-> IF req.enabled = Omitted THEN old.enabled ELSE req.enabled]

\* Update, first call: Get, and the changes in memory.
ReadRow(e, req) ==
  /\ Valid(req) /\ row # NoRow /\ edit[e] = NoEdit
  /\ edit' = [edit EXCEPT ![e] = Merge(row, req)]
  /\ UNCHANGED <<web, row, born, clearing, seen, worker, tickets>>

\* Variant: the project is not among the columns written.
WriteRowNoProject(e) ==
  /\ edit[e] # NoEdit
  /\ edit' = [edit EXCEPT ![e] = NoEdit]
  /\ row' = IF row = NoRow THEN NoRow ELSE [edit[e] EXCEPT !.project = row.project]
  /\ UNCHANGED <<web, born, clearing, seen, worker, tickets>>

\* Variant: a row that is gone is written again.
WriteRowUpsert(e) ==
  /\ edit[e] # NoEdit
  /\ edit' = [edit EXCEPT ![e] = NoEdit]
  /\ row' = edit[e]
  /\ UNCHANGED <<web, born, clearing, seen, worker, tickets>>

\* Second call: every column, if the row is still there (else not found).
WriteRow(e) ==
  /\ edit[e] # NoEdit
  /\ edit' = [edit EXCEPT ![e] = NoEdit]
  /\ row' = IF row = NoRow THEN NoRow ELSE edit[e]
  /\ UNCHANGED <<web, born, clearing, seen, worker, tickets>>

DeleteRow ==
  /\ row # NoRow
  /\ row' = NoRow /\ clearing' = TRUE
  /\ UNCHANGED <<web, born, edit, seen, worker, tickets>>

ClearSeen ==
  /\ clearing /\ clearing' = FALSE
  /\ seen' = {}
  /\ UNCHANGED <<web, row, born, edit, worker, tickets>>

-----------------------------------------------------------------------------
(* A run. *)

Claim ==
  /\ run = "idle" /\ row # NoRow /\ row.enabled
  /\ run' = "discover" /\ copy' = row
  /\ UNCHANGED <<web, table, seen, queue, taken, behind, tickets>>

\* RunOnce returns, or its loop has reached the end.
EndRun ==
  /\ run' = "idle" /\ copy' = NoRow /\ queue' = <<>> /\ taken' = {} /\ behind' = {}

\* Discover, Unseen and the cap; some files of the host may not be reachable.
DiscoverPosts ==
  /\ run = "discover"
  /\ \E up \in SUBSET DOMAIN web :
       LET found == Discover(web, copy.site, up)
           posts == Kept(found, ToSet(found) \ seen)
           cap == IF 0 < MaxPosts /\ MaxPosts < Len(posts) THEN MaxPosts ELSE Len(posts)
           now == SubSeq(posts, 1, cap)
           later == SubSeq(posts, cap + 1, Len(posts))
       IN  IF posts = <<>> THEN EndRun
           ELSE /\ run' = "post" /\ queue' = now /\ UNCHANGED copy
                /\ taken' = ToSet(now) /\ behind' = ToSet(later)
  /\ UNCHANGED <<web, table, seen, tickets>>

NextPost ==
  IF Len(queue) = 1 THEN EndRun
  ELSE run' = "post" /\ queue' = Tail(queue) /\ UNCHANGED <<copy, taken, behind>>

\* jsonText: whatever is not a string counts as absent.
JsonText(field) == IF field.string THEN field.text ELSE <<>>

\* sourceFromURL: the host.
SourceFromURL(loc) == <<Head(loc)>>

\* parseSummary (of an answer with a summary) and the fallback for the source.
Summary(answer, pageTitle, loc) ==
  [title |-> IF JsonText(answer.title) = <<>> THEN pageTitle ELSE JsonText(answer.title),
   source |-> IF JsonText(answer.source) = <<>> THEN SourceFromURL(loc)
              ELSE JsonText(answer.source),
   type |-> JsonText(answer.type),
   body |-> JsonText(answer.summary)]

Parens(word) == IF word = <<>> THEN <<>> ELSE << <<"(">>, word, <<")">> >>

\* [source] (type) title, without what is empty; the length bound is left out.
ComposeTitle(sum) ==
  << <<"[">>, sum.source, <<"]">> >> \o Parens(sum.type)
  \o (IF sum.title = <<>> THEN <<>> ELSE <<sum.title>>)

SourceLine(sum) == <<Star, <<"Source:">>, Star, sum.source>> \o Parens(sum.type)
LinkLine(loc) == <<Star, <<"Link:">>, Star, loc>>

\* Variant: the link follows the body at once.
ComposeDescriptionInline(sum, loc) ==
  Front(sum.body) \o <<Last(sum.body) \o LinkLine(loc)>>

\* The body, a rule, where the post is from and its address.
ComposeDescription(sum, loc) ==
  sum.body \o << <<>>, <<Rule>>, SourceLine(sum), LinkLine(loc)>>

BlogDigest == <<"blog-digest">>

TicketFor(sum, loc) ==
  [project |-> copy.project, title |-> ComposeTitle(sum),
   description |-> ComposeDescription(sum, loc),
   labels |-> <<IdentityHub, BlogDigest>>]

\* The owner is connected, the post is scraped, summarised and filed.
FilePost ==
  /\ run = "post"
  /\ \E answer \in Answers, pageTitle \in PageTitles :
       /\ JsonText(answer.summary) # <<>>
       /\ Post(TicketFor(Summary(answer, pageTitle, Head(queue)), Head(queue)))
  /\ digests' = digests \cup {Len(issues) + 1}
  /\ run' = "mark"
  /\ UNCHANGED <<web, table, seen, copy, queue, taken, behind>>

\* The page, the model or Jira fails, or the answer has no summary.
SkipPost == run = "post" /\ NextPost /\ UNCHANGED <<web, table, seen, tickets>>

\* The owner's connection is gone.
Disconnected == run = "post" /\ EndRun /\ UNCHANGED <<web, table, seen, tickets>>

MarkPost ==
  /\ run = "mark"
  /\ seen' = seen \cup {Head(queue)}
  /\ NextPost
  /\ UNCHANGED <<web, table, tickets>>

DigestNext ==
  \/ \E req \in Requests :
       CreateAutomation(req) \/ \E e \in Editors : ReadRow(e, req)
  \/ \E e \in Editors : WriteRow(e)
  \/ DeleteRow \/ ClearSeen
  \/ Claim \/ DiscoverPosts \/ FilePost \/ SkipPost \/ Disconnected \/ MarkPost

\* The automation, and beside it the tickets of users and the search.
ContentInit == JiraInit /\ DigestInit

ContentNext ==
  \/ DigestNext /\ UNCHANGED search
  \/ JiraNext /\ UNCHANGED <<web, table, seen, worker, digests>>

ContentSpec == ContentInit /\ [][ContentNext]_contentVars

-----------------------------------------------------------------------------
(* Properties. *)

Rows == [site : {req.site : req \in Requests}, project : {req.project : req \in Requests},
         interval : {req.interval : req \in Requests} \cup {DefaultInterval},
         enabled : BOOLEAN]

DigestTypeOK ==
  /\ web \in Webs /\ born \in BOOLEAN /\ clearing \in BOOLEAN
  /\ row \in {NoRow} \cup Rows /\ copy \in {NoRow} \cup Rows
  /\ row # NoRow => row.interval >= MinInterval \/ row.interval = DefaultInterval
  /\ edit \in [Editors -> {NoEdit} \cup Rows]
  /\ run \in {"idle", "discover", "post", "mark"}
  /\ ToSet(queue) \subseteq taken /\ (run \in {"post", "mark"} <=> queue # <<>>)
  /\ digests \subseteq DOMAIN issues

ContentTypeOK == JiraTypeOK /\ DigestTypeOK

\* The post a digest ticket is about: the address its description ends with.
PostOf(i) == Last(Last(issues[i].payload.description))

Asked(site, project) ==
  \E req \in Requests : Valid(req) /\ req.site = site /\ req.project = project

\* Edits replace the row whole: the site watched and the project written to are
\* always those of one request, in the row, and in every ticket of a run that was
\* under way when the row changed (Service.Update, RunOnce).
WholeEdits ==
  /\ row # NoRow => Asked(row.site, row.project)
  /\ \A i \in digests :
       \E req \in Requests :
         Asked(req.site, issues[i].fields.project) /\ Under(req.site, PostOf(i))

\* How often the sitemaps of a host list an address.
Times(loc) ==
  LET all == Entries(web, Head(loc), DOMAIN web)
  IN  Cardinality({k \in DOMAIN all : all[k].loc = loc})

\* While the automation exists, a post is filed at most as often as its host lists
\* it, once if it is listed once, whatever is edited, skipped or unreachable
\* meanwhile; and a deleted automation does not exist again, with its seen set gone
\* (RunOnce, Unseen, Service.Delete).
AsOftenAsListed ==
  row # NoRow =>
    \A loc \in {PostOf(i) : i \in digests} :
      Cardinality({i \in digests : PostOf(i) = loc}) <= Times(loc)

\* The lastmods an address is listed with.
Dates(loc) ==
  {e.lastmod : e \in {e \in UNION {ToSet(web[file].urls) : file \in DOMAIN web} : e.loc = loc}}

\* A capped run takes the newest unseen posts of its site: none it leaves behind has
\* a lastmod that sorts after one it takes, text against text, and all are under the
\* address the run was claimed with (Discover, RunOnce).
NewestTaken ==
  /\ \A loc \in taken, left \in behind :
       \E new \in Dates(loc), old \in Dates(left) : new >= old
  /\ \A loc \in taken \cup behind : Under(copy.site, loc)

\* The ticket of a post ends with a line that gives its address and nothing but
\* its address, under a bold label of its own, whatever the model wrote above it;
\* and it has a title (composeTitle, composeDescription).
Linked ==
  \A i \in digests :
    LET fields == issues[i].fields IN
    /\ fields.summary # <<>>
    /\ Last(fields.description)
         = Paragraph(<<[text |-> << <<"Link:">> >>, bold |-> TRUE],
                       [text |-> <<PostOf(i)>>, bold |-> FALSE]>>)

\* Both at once: what is filed reads as it was meant.
Readable == Rendered /\ Linked
=============================================================================
