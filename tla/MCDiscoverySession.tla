-------------------------- MODULE MCDiscoverySession --------------------------
(* Instances of DiscoverySession for TLC. *)
EXTENDS DiscoverySession, TLC

CONSTANTS r1, r2, l1, none

Interchangeable == Permutations({r1, r2})

Path(absolute, parts) == [absolute |-> absolute, parts |-> parts]
Container(id, running, labels) == [id |-> id, running |-> running, labels |-> labels]
Labels(text, padded, directory, files) ==
    [name |-> [text |-> text, padded |-> padded], directory |-> directory, files |-> files]

\* A project, the same one spelled otherwise, the same one with another file, one of its
\* name without a directory, another project, labels that name no project, and no labels.
Web == Container(1, TRUE, Labels("web", FALSE, Path(TRUE, <<"a">>), <<Path(FALSE, <<"x">>)>>))
WebAgain ==
    Container(2, FALSE, Labels("web", TRUE, Path(TRUE, <<"..", "a", ".">>),
        <<Path(FALSE, <<>>), Path(TRUE, <<"a", "b", "..", "x">>), Path(FALSE, <<".", "x">>)>>))
WebChanged ==
    Container(1, TRUE, Labels("web", FALSE, Path(TRUE, <<"a">>), <<Path(FALSE, <<"y">>)>>))
Loose == Container(4, TRUE, Labels("web", FALSE, Path(FALSE, <<"a">>), <<Path(FALSE, <<"x">>)>>))
Nameless == Container(5, TRUE, Labels("", TRUE, Path(TRUE, <<"a">>), <<Path(FALSE, <<"x">>)>>))
Api == Container(3, TRUE, Labels("api", FALSE, Path(TRUE, <<"a">>), <<Path(FALSE, <<"x">>)>>))
Bare == Container(6, TRUE, none)

Names == {"web", "api"}
Projects == << {Web, WebAgain, Bare}, {WebChanged, Loose}, {Api, Nameless} >>
Sole == << {Web}, {Web, Loose} >>

\* The project's own profile, spelled otherwise: the other project's may take its name.
OwnDrafts == {[name |-> "web", directory |-> Path(TRUE, <<"a", ".">>),
               files |-> <<Path(TRUE, <<"a", "x">>)>>, origin |-> "Manual"]}
=============================================================================
