----------------------------- MODULE MCWebServer -----------------------------
\* Two connections with one request each.  Three browsers: the first two are in
\* one network, and the third is in another one, with room for one of them.
EXTENDS WebServer, TLC

CONSTANTS c1, c2, b1, b2, b3, s1, s2

MCHandlers == <<[prefix |-> <<"bt">>, handler |-> "serve_files"],
                [prefix |-> <<"bt", "control">>, handler |-> "libtorrent_webui"]>>
MCPath == {<<"bt", "control">>, <<"bt", "styles.css">>, <<"other">>}

Mapped(prefix) == [family |-> "v4 mapped", prefix |-> prefix]
V4(prefix) == [family |-> "v4", prefix |-> prefix]
MCAddress == {V4(1), Mapped(1), V4(2)}
MCAddressOf == (b1 :> V4(1)) @@ (b2 :> Mapped(1)) @@ (b3 :> V4(2))
MCAccount == [alice |-> [secret |-> "admins"], bob |-> [secret |-> "nobodies"]]
Pair(k, v) == [key |-> k, val |-> v, decodes |-> TRUE]
Form(user, password) == <<Pair("csrf", "token"), Pair("username", user), Pair("password", password)>>
Good == [method |-> "POST", too_large |-> FALSE, csrf |-> "token", body |-> Form("alice", "secret")]
MCContent ==
  [right |-> Good,
   \* The first of two users counts, and has no permissions.
   wrong |-> [Good EXCEPT !.body = Form("bob", "secret") \o Form("alice", "secret")]]
MCSends == (b1 :> {"right", "wrong"}) @@ (b2 :> {"right", "wrong"}) @@ (b3 :> {"wrong"})

Symmetry == Permutations({c1, c2})
=============================================================================
