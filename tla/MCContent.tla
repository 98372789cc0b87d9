----------------------------- MODULE MCContent -----------------------------
(* An instance of DigestRun and JiraClient.  The search and the automation  *)
(* share nothing but the issues: a behaviour exercises one of the two, so   *)
(* that their states add up and do not multiply.                            *)
EXTENDS DigestRun

\* Lines of every kind adfDoc tells apart, and all texts of up to three.
Lines ==
  {<<>>, <<Rule>>, << <<"a">> >>, <<Bullet, <<"a">>, <<"b">> >>, <<Bullet, Star, Star>>,
   <<Star, Star>>, << <<"a">>, Star, <<"b">> >>,
   << Star, <<"a">>, Star, <<"b">>, Star, <<"c">> >>}
Texts == UNION {[1..n -> Lines] : n \in 0..3}
Labels == {<<>>, << <<"a", " ", "\t", "b">>, <<>> >>, << IdentityHub >>}

Form(text, labels) ==
  [project |-> "P", title |-> << <<"t">> >>, description |-> text, labels |-> labels]
Plain == Form(<<>>, <<>>)
MCPayloads == {Form(text, labels) : text \in Texts, labels \in Labels}

Host == "host"
Blog == <<Host, "/blog">>
News == <<Host, "/news">>
PostA == <<Host, "/blog", "/a">>
PostB == <<Host, "/blog", "/b">>
PostX == <<Host, "/blog", "-x">>
PostN == <<Host, "/news", "/n">>
Entry(loc, lastmod) == [loc |-> loc, lastmod |-> lastmod]
File(urls) == [urls |-> urls, sitemaps |-> <<>>]

\* A flat sitemap, one with a post listed twice, and an index whose children
\* share a post.
MCWebs ==
  {[f \in {Host} |->
      File(<<Entry(PostX, 0), Entry(PostA, 1), Entry(PostN, 1), Entry(PostB, 2)>>)],
   [f \in {Host} |-> File(<<Entry(PostB, 1), Entry(PostA, 2), Entry(PostA, 2)>>)],
   [f \in {Host, "1", "2"} |->
      CASE f = Host -> [urls |-> <<>>, sitemaps |-> <<"1", "gone", "2">>]
        [] f = "1" -> File(<<Entry(PostA, 1), Entry(PostN, 0)>>)
        [] f = "2" -> File(<<Entry(PostB, 2), Entry(PostA, 1)>>)]}

MCRequests ==
  {[site |-> Blog, project |-> "P", interval |-> 0, enabled |-> Omitted],
   [site |-> Append(Blog, "/"), project |-> "P", interval |-> 60, enabled |-> TRUE],
   [site |-> News, project |-> "Q", interval |-> 0, enabled |-> FALSE],
   [site |-> News, project |-> "P", interval |-> 59, enabled |-> TRUE]}

Text(text) == [string |-> TRUE, text |-> text]
NotText == [string |-> FALSE, text |-> <<"{}">>]

MCAnswers ==
  {[title |-> Text(<<"t">>), source |-> Text(<<"s">>), type |-> Text(<<"y">>),
    summary |-> Text(<< << <<"a">> >>, <<Bullet, <<"b">> >> >>)],
   [title |-> NotText, source |-> NotText, type |-> NotText,
    summary |-> Text(<< << Star, <<"a">> >> >>)],
   [title |-> Text(<<"t">>), source |-> Text(<<"s">>), type |-> Text(<<"y">>),
    summary |-> NotText]}

MCTitles == {<<>>}

\* A payload with contents is the only issue of its behaviour.
JiraLeg ==
  /\ ~born /\ web = CHOOSE w \in Webs : TRUE
  /\ \A i \in DOMAIN issues : issues[i].payload = Plain
  /\ \/ \E payload \in IF issues = <<>> THEN Payloads ELSE {Plain} : CreateIssue(payload)
     \/ SearchNext
  /\ UNCHANGED <<web, table, seen, worker, digests>>

DigestLeg ==
  /\ (~born => issues = <<>>) /\ pc = "idle"
  /\ DigestNext
  /\ Len(issues') <= 3
  /\ UNCHANGED search

MCNext == JiraLeg \/ DigestLeg
MCSpec == ContentInit /\ [][MCNext]_contentVars

MCSymmetry == Permutations(Editors)
=============================================================================
