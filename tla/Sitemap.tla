------------------------------ MODULE Sitemap ------------------------------
(***************************************************************************)
(* Sitemap discovery (automation/discover/sitemap.go): the posts under a   *)
(* site's address, newest first, from the sitemap.xml of its host.         *)
(*                                                                         *)
(* A web maps a file to its document [urls, sitemaps]; the sitemap.xml of  *)
(* a host goes by the host's name.  An address is a sequence: the host,    *)
(* then pieces of the path ("/blog", "/a", "/").  The sort compares the    *)
(* lastmods as the texts they are, untrimmed: lastmod is the rank of the   *)
(* text among all texts, 0 for "", which sorts below every other.  It is   *)
(* the order of the dates where a site writes all of them in one format    *)
(* and one offset.                                                         *)
(***************************************************************************)
EXTENDS Integers, Sequences, FiniteSets, SequencesExt

CONSTANT MaxMod   \* bound: the highest rank of a lastmod

ASSUME SitemapAssumption == MaxMod \in Nat

\* What a file lists, and what a web may be.
Listed == [loc : Seq(STRING), lastmod : 0..MaxMod]

IsWeb(web) ==
  \A file \in DOMAIN web :
    web[file].urls \in Seq(Listed) /\ web[file].sitemaps \in Seq(STRING)

IsSite(site) == site \in Seq(STRING) /\ site # <<>> /\ Head(site) # "/"

\* The elements of s that are in S, in order: SelectSeq as a function of the test's
\* extension.
Kept(s, S) ==
  LET kept[n \in 0..Len(s)] ==
        IF n = 0 THEN <<>>
        ELSE IF s[n] \in S THEN Append(kept[n - 1], s[n]) ELSE kept[n - 1]
  IN  kept[Len(s)]

\* strings.TrimRight(siteURL, "/").
Prefix(site) == SubSeq(site, 1, Max({0} \cup {n \in DOMAIN site : site[n] # "/"}))

\* HasPrefix and longer than the prefix: pieces of a path are not told apart
\* from the rest of a name, so /blog-x and /blog/ are under /blog.
Under(site, loc) == IsStrictPrefix(Prefix(site), loc)

\* Every entry read: an index is followed one level, over the children that are
\* up; a child's own sitemaps are not followed.
Entries(web, host, up) ==
  LET children == Kept(web[host].sitemaps, up)
  IN  IF web[host].sitemaps = <<>> THEN web[host].urls
      ELSE FlattenSeq([i \in DOMAIN children |-> web[children[i]].urls])

\* The entries of one lastmod.
Dated(entries, lastmod) == Kept(entries, {e \in ToSet(entries) : e.lastmod = lastmod})

\* Variant: ascending.
OldestFirst(entries) == FlattenSeq([k \in 1..(MaxMod + 1) |-> Dated(entries, k - 1)])

\* The stable sort by descending lastmod, text against text.
NewestFirst(entries) == FlattenSeq([k \in 1..(MaxMod + 1) |-> Dated(entries, MaxMod + 1 - k)])

\* Discover; <<>> stands for its two errors, no sitemap and no post.
Discover(web, site, up) ==
  LET host == Head(site)
      all == Entries(web, host, up)
      posts == Kept(all, {e \in ToSet(all) : Under(site, e.loc)})
      sorted == NewestFirst(posts)
  IN  IF host \in up THEN [i \in DOMAIN sorted |-> sorted[i].loc] ELSE <<>>
=============================================================================
