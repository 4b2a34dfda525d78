--------------------------- MODULE MCArticleFetch ---------------------------
EXTENDS ArticleFetch

\* Three snippets of one group, and a queue of two: the oldest has no web
\* link, the others share a host.  One of those answers badly, or with a
\* redirect that loops; the other redirects to a long or a short article.
MCGroup == <<"g", "g", "g">>
MCLinks == << <<"mail">>, <<"mail", "flaky">>, <<"moved">> >>
MCWeb == [mail |-> {"bad_scheme"},
          flaky |-> {"server_status", "loop"},
          loop |-> {"loop"},
          moved |-> {"page"},
          page |-> {"long", "short"}]
MCDomain == [mail |-> NoDomain, flaky |-> "a", loop |-> "a", moved |-> "a", page |-> "b"]
=============================================================================
