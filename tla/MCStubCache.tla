----------------------------- MODULE MCStubCache -----------------------------
(***************************************************************************)
(* An instance of StubCache small enough for TLC.                          *)
(***************************************************************************)
EXTENDS StubCache

Holding(names, folders, entries) ==
    [children |-> names, sources |-> folders, classpath |-> entries]
Workspace(markers, modules) == [markers |-> markers, modules |-> modules]
Relative(names) == [absolute |-> FALSE, names |-> names]
Absolute(names) == [absolute |-> TRUE, names |-> names]
Blank == Relative(<<>>)

\* A tree of modules, one without a pom among them, named by ways round and from
\* the root; modules that name each other by longer and longer paths, one that names
\* itself and two that name each other by the same paths; sources within sources;
\* two modules of Gradle; no build tool, with the standard directories and without.
Projects ==
    {Workspace({"pom"},
        <<>> :> Holding(<<Relative(<<"a">>), Relative(<<"gone">>), Relative(<<"a", "..", "b">>)>>,
                        <<>>, <<>>)
        @@ <<"a">> :> Holding(<<>>, <<"main", "test">>, <<"j1", "j2">>)
        @@ <<"b">> :> Holding(<<Absolute(<<"b", "c">>)>>, <<"main">>, <<"j2">>)
        @@ <<"b", "c">> :> Holding(<<>>, <<"main">>, <<>>)),
     Workspace({"pom"},
        <<>> :> Holding(<<Relative(<<"a">>)>>, <<"main">>, <<"j2">>)
        @@ <<"a">> :> Holding(<<Relative(<<"..">>)>>, <<"main">>, <<"j1">>)),
     Workspace({"pom"},
        <<>> :> Holding(<<Relative(<<"a">>)>>, <<>>, <<>>)
        @@ <<"a">> :> Holding(<<Relative(<<"gone">>), Blank>>, <<>>, <<>>)),
     Workspace({"pom"},
        <<>> :> Holding(<<Relative(<<"a">>)>>, <<>>, <<>>)
        @@ <<"a">> :> Holding(<<Absolute(<<>>)>>, <<>>, <<>>)),
     Workspace({"gradle", "pom"},
        <<"a">> :> Holding(<<>>, <<"main">>, <<"j1">>)
        @@ <<"a", "main", "b">> :> Holding(<<>>, <<"main">>, <<"j2">>)),
     Workspace({}, <<>> :> Holding(<<>>, <<"main">>, <<>>)),
     Workspace({}, <<>> :> Holding(<<>>, <<>>, <<>>))}

Names == {"a", "b", "c", "gone", "main", "test", "F", ".."}
Files == {<<"F">>, <<"a", "main", "F">>, <<"a", "main", "b", "main", "F">>, <<"a", "F">>}

SimpleNames == "util.Entry" :> "Entry" @@ "Map$Entry" :> "Entry" @@ "sun.X" :> "X"
               @@ "Map$1" :> "1"
Classes == DOMAIN SimpleNames

Compiled(name, content) == [name |-> name, content |-> content]
HomeOf(release, modules, stamp, contents) ==
    [java |-> TRUE, release |-> release, modules |-> modules, stamp |-> stamp,
     classes |-> contents]
NoHome == [java |-> FALSE]
Jars(j1, j2) == "j1" :> j1 @@ "j2" :> j2

Base == <<Compiled("Map$Entry", "e1"), Compiled("sun.X", "x1"), Compiled("Map$1", "n1")>>
Jar(content) == <<Compiled("util.Entry", content), Compiled("Map$Entry", content)>>
ForReleases(older, newer) == <<Compiled("util.Entry", older), Compiled("util.Entry", newer)>>

Jdk21 == HomeOf(<<21, 0, 11>>, TRUE, 1, Base)
Jdk8 == HomeOf(<<1, 8, 0>>, FALSE, 2, Base)
Unknown == HomeOf(<<>>, FALSE, 3, Unreadable)

Homes == {NoHome, Jdk8, Jdk21, Unknown}

\* A JDK on the PATH, one of before 9 by JAVA_HOME with another on the PATH, a java
\* without a JDK around it, none; jars of two releases, one with a class that was
\* cut short, one with a class twice, one that is no jar.
Installations ==
    {[javaHome |-> NoHome, path |-> <<NoHome, Jdk21>>, jars |-> Jars(Jar("u1"), Jar("v1"))],
     [javaHome |-> Jdk8, path |-> <<Jdk21>>,
      jars |-> Jars(<<Compiled("util.Entry", Malformed)>>, Jar("v1"))],
     [javaHome |-> NoHome, path |-> <<Unknown>>,
      jars |-> Jars(Unreadable, ForReleases("v2", "w2"))],
     [javaHome |-> NoHome, path |-> <<>>, jars |-> Jars(Jar("u1"), Jar("v1"))]}

\* Every path of up to three of the characters that matter, one of them of two bytes,
\* and one that begins like an escape.
Characters == {<<b>> : b \in {SlashByte, Backslash, Percent, 58, 50, 97}} \cup {<<195, 169>>}
Paths == {FlattenSeq(text) : text \in UNION {[1..n -> Characters] : n \in 1..3}}
         \cup {<<SlashByte, 50, 97, Percent, Percent>>}
=============================================================================
