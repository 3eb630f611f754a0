---------------------------- MODULE MCExecution ----------------------------
(* A small instance of Execution: a role for patches, three rounds; and    *)
(* what its answers are parsed to, for all short texts.                    *)
EXTENDS Execution, ArtifactText

CONSTANTS patch, brief, sonnet, unpriced

MCTypeLists  == {<<>>, <<patch>>}
MCPrice      == [m \in {sonnet} |-> 3]
MCAgentTexts ==
    {[parses |-> TRUE, contract |-> {patch, ProgressLogEntry},
      allowed |-> {"bash", "web_search"}, model |-> Unset],
     [parses |-> TRUE, contract |-> {ProgressLogEntry},
      allowed |-> {"web_search"}, model |-> unpriced],
     [parses |-> TRUE, contract |-> {brief}, allowed |-> {"filesystem_read"},
      model |-> sonnet],
     [parses |-> FALSE, contract |-> {}, allowed |-> {}, model |-> Unset]}

-----------------------------------------------------------------------------
Texts(tokens, n) == UNION {[1 .. m -> tokens] : m \in 0 .. n}
Objects          == {t \in Texts(Tokens \ {"n", "f"}, 6) : IsObject(t)}

\* The one-pass brace counter finds what the grammar says is the first balanced
\* object outside of strings, and nothing where there is none.
ASSUME ExtractionIsFirstObject ==
    \A t \in Texts(Tokens \ {"f", "n"}, 6) :
        LET First(i, j) ==
                /\ Braced(SubSeq(t, i, j), {"x", "b"}, Tokens)
                /\ Nested(SubSeq(t, 1, i - 1), {"x", "b", "}"}, Tokens)
                /\ "{" \notin {t[k] : k \in {l \in 1 .. i - 1 :
                        Nested(SubSeq(t, 1, l - 1), {"x", "b", "}"}, Tokens)}}
            found == {p \in (1 .. Len(t)) \X (1 .. Len(t)) : First(p[1], p[2])}
        IN IF found = {} THEN ExtractBalancedJson(t) = <<>>
           ELSE \E p \in found : /\ found = {p}
                                 /\ ExtractBalancedJson(t) = SubSeq(t, p[1], p[2])

\* Prose without quotes or braces before the object and anything after it are
\* tolerated, and so are fences on lines of their own.
ASSUME ObjectsAreFound ==
    \A o \in Objects :
        /\ \A before \in Texts({"x", "n"}, 2), after \in Texts(Tokens, 2) :
              ParseArtifactContent(before \o o \o after) = [content |-> o]
        /\ ParseArtifactContent(<<"f", "x", "n">> \o o \o <<"n", "f">>) = [content |-> o]

\* What is not tolerated: a lone quote or a brace in the prose before, and a
\* fence on the line of the object.  The artifact is then the text, or empty.
ASSUME ObjectsAreMissed ==
    /\ ParseArtifactContent(<<"q", "x", "{", "}">>) = [raw_text |-> <<"q", "x", "{", "}">>]
    /\ ParseArtifactContent(<<"{", "x", "}", "{", "}">>) =
          [raw_text |-> <<"{", "x", "}", "{", "}">>]
    /\ ParseArtifactContent(<<"f", "{", "}", "f">>) = [raw_text |-> <<>>]
=============================================================================
