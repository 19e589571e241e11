---------------------------- MODULE MCRemoteJob ----------------------------
(***************************************************************************)
(* Two sessions of one job, for TLC.  The requests are a plain one and what *)
(* differs from it in one or two places: the document, the policy it names, *)
(* the identity, the program and its spelling, the rest of the intent.      *)
(***************************************************************************)
EXTENDS RemoteJob

MCCeilings ==
  [b \in Bases |-> [l \in Limits |-> IF b = "Red" THEN 2 ELSE 1]]

As(kind, is) == [kind |-> kind, is |-> is]
Name(id, upper, exe) == [id |-> id, upper |-> upper, exe |-> exe]
Word(word, upper) == [word |-> word, upper |-> upper]
Posix(parts) == [flavor |-> "Posix", absolute |-> TRUE, ambiguous |-> FALSE, parts |-> parts]

PlainDocument ==
  [schema_version |-> 1, base |-> "Red", capabilities |-> Inherit, run_as |-> {As("uid", "7")},
   limits |-> [l \in Limits |-> Inherit], programs |-> Inherit, env_keys |-> Inherit, deny |-> {}]

Narrow(field, to) == [PlainDocument EXCEPT ![field] = to]
NarrowLimit(l, to) == [PlainDocument EXCEPT !.limits[l] = to]
Deny(kind, is) == Narrow("deny", {[kind |-> kind, is |-> is]})

Documents ==
  {PlainDocument, [PlainDocument EXCEPT !.schema_version = 2]}
  \cup {[PlainDocument EXCEPT !.base = b, !.run_as = {As("user", "nobody")}] : b \in Bases}
  \cup {Narrow("base", "Yellow")}
  \cup {Narrow("capabilities", c) :
          c \in {{}, {"ProcessInspect"}, {"ProcessRun"}, {"ProcessRun", "FsRead"}}}
  \cup {Narrow("run_as", ids) :
          ids \in {{}, {As("uid", "8")}, {As("uid", "0"), As("uid", "7")},
                   {As("user", "ROOT"), As("uid", "7")}}}
  \cup {NarrowLimit("deadline", n) : n \in 0..3}
  \cup {NarrowLimit("output", n) : n \in {0, 1, 3}}
  \cup {Narrow("programs", ps) :
          ps \in {{}, {Name("true", TRUE, 1)}, {Name("id", FALSE, 0)}, {Name("sh", FALSE, 1)},
                  {Name("true", FALSE, 0), Name("mkfs.", FALSE, 0)}, {Name("odd", FALSE, 0)}}}
  \cup {Narrow("env_keys", ks) : ks \in {{}, {"TZ"}, {"TZ", "PATH"}, {"HOME"}}}
  \cup {Deny("program", p) :
          p \in {Name("true", FALSE, 0), Name("true", TRUE, 1), Name("true", FALSE, 2),
                 Name("id", FALSE, 0), Name("odd", FALSE, 0)}}
  \cup {Deny("capability", c) : c \in {"ProcessRun", "FsRead"}}
  \cup {Deny("path", p) :
          p \in {Posix(<<"srv", "", "a">>), Posix(<<"..">>),
                 [Posix(<<"C", "CON">>) EXCEPT !.flavor = "Windows"],
                 [Posix(<<"C", "a">>) EXCEPT !.flavor = "Windows"]}}

MCPlain ==
  [document |-> PlainDocument, named |-> PlainDocument, intact |-> TRUE, uid |-> "7",
   program |-> Name("true", FALSE, 0), argv |-> <<>>, env |-> <<>>, cwd |-> {}]

\* Each document, named by its own digest or by the plain one's, asked for a
\* program in some spelling, with and without a variable.
Asked ==
  {[MCPlain EXCEPT !.document = d, !.named = n, !.program = p, !.env = e] :
     d \in Documents, n \in {PlainDocument, Narrow("env_keys", {"TZ"})},
     p \in {Name("true", FALSE, 0), Name("true", TRUE, 1)}, e \in {<<>>, <<"TZ">>}}
  \cup {[MCPlain EXCEPT !.document = d, !.named = d, !.program = p, !.env = e] :
          d \in Documents, p \in {Name("true", FALSE, 0), Name("true", TRUE, 1)},
          e \in {<<>>, <<"TZ">>, <<"LANG">>}}

MCRequests ==
  Asked
  \cup {[MCPlain EXCEPT !.program = p] :
          p \in {Name("true", FALSE, 2), Name("sh", TRUE, 1), Name("rm", FALSE, 0),
                 Name("make", FALSE, 0), Name("odd", FALSE, 0)}}
  \cup {[MCPlain EXCEPT !.env = e] : e \in {<<"TZ", "TZ">>, <<"LD_">>, <<"HOME">>, <<"odd">>}}
  \cup {[MCPlain EXCEPT !.argv = a] : a \in {<<Word("-a", TRUE)>>, <<Word("-a", FALSE), Word("-c", FALSE)>>,
                <<Word("-encodedcommand", TRUE)>>, <<Word("odd", FALSE)>>}}
  \cup {[MCPlain EXCEPT !.cwd = {c}] : c \in {Posix(<<>>), Posix(<<"srv">>)}}
  \cup {[MCPlain EXCEPT !.uid = u] : u \in {"0", "8"}}
  \cup {[MCPlain EXCEPT !.intact = FALSE]}
=============================================================================
