--------------------------- MODULE MCLinkedDevice ---------------------------
EXTENDS LinkedDevice, TLC

\* Two contacts with their LIDs; only the first is on the list.
MCOwner == ("l1" :> "p1") @@ ("l3" :> "p2")

Device(jid, d) == [jid EXCEPT !.dev = d]
P1 == Jid("pn", "p1")
L1 == Jid("lid", "l1")
G == Jid("group", "g")

NoVote == [poll |-> "none", remote |-> P1, voter |-> P1, choice |-> "none"]
File(d, p, a) == [declared |-> d, place |-> p, actual |-> a]
Good == File("ok", "path", "ok")

Plain(has, parts, text) ==
    [has |-> has, parts |-> parts, text |-> text, file |-> Good, key |-> TRUE, vote |-> NoVote]
From(sender, alt, chat, wraps, body) ==
    [sender |-> sender, alt |-> alt, chat |-> chat, fromMe |-> FALSE, wraps |-> wraps, body |-> body]

\* The wrappers real clients nest, and one level more than the limit.
Nestings == { << >>, <<"ephemeral">>, <<"viewOnceV2">>, <<"ephemeral", "viewOnce">>,
              <<"ephemeral", "ephemeral", "viewOnceV2Ext", "viewOnce">> }

Files == { Good, File("absent", "path", "over"), File("over", "path", "over"),
           File("ok", "url", "ok"), File("ok", "badPath", "ok"), File("ok", "none", "ok") }

MediaMessages ==
    { From(Device(L1, 1), "none", L1, w, [Plain(f, TRUE, TRUE) EXCEPT !.file = x]) :
        w \in Nestings, x \in Files,
        f \in { {"image"}, {"ptv"}, {"audio", "conversation"}, {"documentWithCaption"},
                {"sticker"} } }

OtherMessages ==
    { From(L1, "p1", L1, w, Plain(f, parts, text)) :
        w \in { << >>, <<"viewOnceV2Ext">> }, parts \in BOOLEAN, text \in BOOLEAN,
        f \in { {"location", "conversation"}, {"liveLocation"}, {"contact"}, {"contacts"},
                {"reaction"}, {"encReaction", "conversation"}, {"edited"}, {"protocol"},
                {"video", "document"}, {"extendedText"} } }

\* A poll, as the message m1, and votes on it or on a poll of this device.  The
\* voter authenticates with its own JID or with the other form of it.
Polls ==
    { From(P1, "none", c, x[1], Plain({x[2]}, TRUE, TRUE)) :
        c \in {L1, P1}, x \in { << << >>, "poll">>, << << >>, "pollV4">>, << <<"ephemeral">>, "poll">> } }

Votes(poll) ==
    { From(x[1], "none", L1, << >>,
           [Plain({"vote"} \cup extra, TRUE, TRUE)
              EXCEPT !.vote = [poll |-> poll, remote |-> r, voter |-> x[2], choice |-> "yes"]]) :
        x \in { <<P1, P1>>, <<Device(L1, 2), Device(L1, 2)>>, <<Device(L1, 2), P1>> },
        r \in {P1, L1}, extra \in { {}, {"conversation"} } }

Text(sender, chat) == From(sender, "none", chat, << >>, Plain({"conversation"}, TRUE, TRUE))
L3 == Jid("lid", "l3")
Others ==
    { Text(L3, L3), [Text(L1, G) EXCEPT !.alt = "p1"], Text(P1, Jid("status", "status")), Text(L3, G),
      [Text(Jid("pn", "me"), L3) EXCEPT !.fromMe = TRUE] }

Racing == { From(L1, "none", L1, << >>, Plain({"image"}, TRUE, FALSE)) }

Pairs(A, B) == { ("m1" :> a) @@ ("m2" :> b) : a \in A, b \in B }

MCCorpus == Pairs(MediaMessages, Racing) \cup Pairs(OtherMessages, {Text(P1, P1)})
            \cup Pairs(Polls, Votes("m1")) \cup Pairs(Others, Votes("own"))

MCOwnPolls == "own" :> P1

\* The library's calls, by the tables they are on.
MCCalls == [g \in {"signal", "appSync", "groups", "retries", "tokens"} |->
    [t \in 0..1 |->
      CASE g = "signal" ->
             UNION { { PutIdentity("a", v), PutSession("a", v), StoreSignedPrekey(1, v),
                       PutSenderKey("a", v) } : v \in {"x", "y"} }
             \cup { DeleteIdentity("a"), DeleteSession("a"), RemoveSignedPrekey(1),
                    DeleteSenderKey("a"), StorePrekey(1, "x", 0), StorePrekey(2, "x", 0),
                    MarkPrekeysUploaded(<<1, 2>>), RemovePrekey(1), PutMsgSecrets }
        [] g = "appSync" ->
             { PutMutationMacs(n, v, <<"i", "j">>, "mac") : n \in {"regular", "critical"}, v \in 1..2 }
             \cup { DeleteMutationMacs("regular", <<"i", "j">>),
                    ClearMutationMacs("regular", {"i", "j"}),
                    SetSyncKey("k", "x"), SetSyncKey("l", "x"), SetVersion("regular", "s") }
        [] g = "groups" ->
             { SetSenderKeyStatus(x, <<"d", "e">>, n) : x \in {"g", "h"}, n \in 0..1 }
             \cup { ClearSenderKeyDevices("g", {"d", "e"}), ClearAllSenderKeyDevices,
                    DeleteSenderKeyDeviceRows({"g", "h"}, {"d"}),
                    DeleteSenderKeyDeviceRows({"g", "h"}, {"d", "e"}) }
        [] g = "retries" ->
             UNION { { StoreSentMessage(k, "bytes", t), TakeSentMessage(k) } : k \in {"s1", "s2"} }
             \cup { DeleteExpiredSentMessages(t), SaveBaseKey("a", "s1", "b"),
                    SaveBaseKey("a", "s1", "c"), DeleteBaseKey("a", "s1") }
        [] g = "tokens" ->
             { PutTcToken("j", v, t) : v \in {"x", "y"} }
             \cup { DeleteTcToken("j"), DeleteExpiredTcTokens(t), UpdateDeviceList("u", "v"),
                    UpdateDeviceList("u", "w"), DeleteDevices("u") }]]
=============================================================================
