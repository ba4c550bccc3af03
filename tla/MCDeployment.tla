---------------------------- MODULE MCDeployment ----------------------------
(* DeploymentTx, bounded for TLC: two tracks with two and one units, two    *)
(* successive corpora and an invalid one, and what an editor may do.        *)
EXTENDS DeploymentTx

\* A title is the key it is found by and its letter case.
Text(key, body) == [key |-> key, case |-> "as shipped", body |-> body]
Recased(text) == [text EXCEPT !.case = "changed"]
Payload(marker, body, lab) == [marker |-> marker, body |-> body, lab |-> lab]
UnitOf(position, marker, payload, legacy) ==
  [position |-> position, marker |-> marker, payload |-> payload,
   legacy |-> legacy]

TitleKey(text) == text.key
TextObjective(text) == text.body

\* What seed_demo writes, and what the legacy fingerprints recognize.
PrimaryDemo == Payload("demo", "primary", TRUE)
SecondaryDemo == Payload("demo", "secondary", TRUE)

DemoTracks ==
  <<[text |-> Text("P", "p"), module |-> Text("MP", "mp"),
     payload |-> PrimaryDemo],
    [text |-> Text("S", "s"), module |-> Text("MS", "ms"),
     payload |-> SecondaryDemo]>>

\* The corpus with the given body of its second unit.
CorpusWith(body) ==
  <<[text |-> Text("P", "p"), legacy |-> {}, module |-> Text("MP", "mp"),
     units |-> <<UnitOf(1, "P1", Payload("P1", "one", TRUE), PrimaryDemo),
                 UnitOf(2, "P2", Payload("P2", body, TRUE), NoTitle)>>],
    [text |-> Text("S", "s"), legacy |-> {"S alias"},
     module |-> Text("MS", "ms"),
     units |-> <<UnitOf(1, "S1", Payload("S1", "one", FALSE), SecondaryDemo)>>]>>

ExpectedTracks ==
  <<[title |-> "P", units |-> 2, labs |-> TRUE, alias |-> {}],
    [title |-> "S", units |-> 1, labs |-> FALSE, alias |-> {"S alias"}]>>

\* A document that lost a unit.
Truncated == [CorpusWith("two") EXCEPT ![1].units = SubSeq(@, 1, 1)]

Releases == {CorpusWith("two"), CorpusWith("two, revised"), Truncated}

AllTitles ==
  {Text("P", "p"), Text("P", "edited"), Text("S", "s"), Text("S alias", "s"),
   Text("F", "f"), Text("MP", "mp"), Text("MP", "edited"), Text("MS", "ms"),
   Recased(Text("MP", "mp")),
   PrimaryDemo, SecondaryDemo, Payload("foreign", "one", FALSE),
   Payload("foreign", "one", TRUE), Payload("P1", "one", TRUE),
   Payload("P2", "two", TRUE), Payload("P2", "two, revised", TRUE),
   Payload("S1", "one", FALSE), Payload("S1", "one", TRUE)}

\* Retirements, renamings, foreign rows and reorderings by an editor, of the
\* rows that the first load or seed creates.
EditorCommands ==
  [op: {"create_track"}, actor: {DemoAdmin}, ok: {TRUE},
   title: {Text("F", "f"), Text("S alias", "s")}]
    \cup [op: {"edit_track"}, actor: {DemoAdmin}, track: {1}, rev: 1..4,
          ok: {TRUE}, pub: {TRUE},
          title: {Text("P", "edited"), Text("S alias", "s")}]
    \cup [op: {"change_track_status"}, actor: {DemoAdmin}, track: {1, 2},
          rev: 1..4, target: {"INACTIVE"}, pub: {TRUE}]
    \cup [op: {"move_track"}, actor: {DemoAdmin}, track: {2}, rev: 0..3,
          position: {1}]
    \cup [op: {"create_module"}, actor: {DemoAdmin}, track: {2},
          title: {Text("F", "f")}, ok: {TRUE}]
    \cup [op: {"edit_module"}, actor: {DemoAdmin}, track: {1}, module: {1},
          rev: 1..5, title: {Text("MP", "edited"), Recased(Text("MP", "mp"))},
          ok: {TRUE}, pub: {TRUE}]
    \cup [op: {"create_content_draft"}, actor: {DemoAdmin}, module: {1, 2},
          rev: 1..5]
    \cup [op: {"publish_content_item"}, actor: {DemoAdmin}, item: {1, 2},
          rev: 1..4, title: {Payload("foreign", "one", FALSE)}, ok: {TRUE}]
=============================================================================
