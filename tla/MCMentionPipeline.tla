--------------------------- MODULE MCMentionPipeline ---------------------------
(* Two posts that tell one story, in three deployments: the inline path       *)
(* beside the extension, streams alone, and dual-write.                       *)
EXTENDS MentionPipeline

CONSTANTS p1, p2, p3

MCPosts == {p1, p2, p3}
MCTooShort == {p2}

\* p2 tells the story of p1.
MCStory == [p \in MCPosts |-> IF p = p3 THEN 2 ELSE 1]

Mode(s, i, a, ws, ps, tr, fail, f) ==
    [streams |-> s, inline |-> i, async |-> a, workers |-> ws,
     posts |-> ps, tracked |-> tr, failing |-> fail, maxFaults |-> f]

MCModes ==
    {Mode(FALSE, TRUE, FALSE, {"tick", "now"}, {p1}, {p1, p2}, {}, 0),
     Mode(FALSE, TRUE, FALSE, {"tick"}, {p1}, {p2}, {}, 1),
     Mode(FALSE, TRUE, FALSE, {"tick", "extension"}, {p1, p2}, {}, {}, 0),
     Mode(FALSE, TRUE, FALSE, {"tick", "extension"}, {p1}, {}, {}, 1),
     Mode(FALSE, TRUE, FALSE, {"tick"}, {p1, p3}, {}, {}, 1),
     Mode(FALSE, TRUE, FALSE, {"tick"}, {p1, p3}, {}, {p3}, 0),
     Mode(TRUE, FALSE, TRUE, {"tick", "scorer", "qualifier"}, {p1}, {}, {}, 1),
     Mode(TRUE, TRUE, FALSE, {"tick", "scorer"}, {p1}, {}, {}, 1),
     Mode(TRUE, TRUE, TRUE, {"tick", "extension", "qualifier"}, {p1}, {}, {}, 0)}

=============================================================================
