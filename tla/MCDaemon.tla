------------------------------ MODULE MCDaemon ------------------------------
(***************************************************************************)
(* Instances of Daemon for TLC.                                            *)
(***************************************************************************)
EXTENDS Daemon

CONSTANTS d1, d2, wikiDomain, shop, blog, wiki, web, e1, e2, e3

Serves(p, domains, endpoint) ==
    [domains |-> domains, project |-> p, service |-> web, endpoint |-> endpoint]

\* The shop asks for the domain of the wiki as well.
ShopAndBlog == {Serves(shop, {d1, wikiDomain}, e1), Serves(blog, {d2}, e2)}
WithWiki == ShopAndBlog \cup {Serves(wiki, {wikiDomain}, e3)}
=============================================================================
