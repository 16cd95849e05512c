---------------------------- MODULE MCCommunity ----------------------------
(* Instances of Community for TLC: a post by `a' with a comment by the     *)
(* withdrawn user `w', who also liked both.                                *)
EXTENDS Community

P1 == <<"post", 1>>
MCSeed ==
    [k \in {P1, Comment(1), Link(P1, "w"), Link(Comment(1), "w"), User("a"), User("b"), User("w")} |->
        IF k = P1 THEN [NewPost("a") EXCEPT !.comments = 1, !.likes = 1]
        ELSE IF k = Comment(1) THEN [NewComment(P1, "w", 0) EXCEPT !.likes = 1]
        ELSE TRUE]
MCScenarios ==
    {{"create_comment", "delete_comment", "delete_post", "moderate"},
     {"like", "unlike", "delete_post", "purge"},
     {"report", "reset", "moderate", "purge"},
     {"update_post", "delete_post", "moderate"},
     {"block", "like", "create_comment", "purge"}}
MCTagLists == {<<>>, <<"#Dog", "cat", "dog">>, <<"cat", "dog">>, <<"!!">>}
MCTagName == [t \in {"#Dog", "dog", "cat", "!!"} |->
                CASE t = "cat" -> "cat" [] t = "!!" -> "" [] OTHER -> "dog"]
=============================================================================
