----------------------- MODULE FunctionalStagingProofs -----------------------
(***************************************************************************)
(* Proofs about FunctionalStaging for any number of changes, interventions *)
(* and faults.                                                             *)
(*                                                                         *)
(* CommittedIsTested is about the end of a run, so the invariant says what *)
(* a run that may still commit (On) has made sure of at each place of the  *)
(* script: first what the probes saw (Probed), then that the captured      *)
(* version was still the present one at the last look at it (Looked).      *)
(* Versions only grow, which is why one equal look after the probes is     *)
(* enough for what they read live (Ordered).                               *)
(***************************************************************************)
EXTENDS FunctionalStaging, TLAPS

(***************************************************************************)
(* What the script of FunctionalStaging is, entry by entry: it is written  *)
(* as a concatenation of the parts that the code calls one after another,  *)
(* and the proofs about a run need to know which steps are where.          *)
(***************************************************************************)

EarlyOps == {"capture", "check", "make", "own", "copies", "configs"}

Ops == EarlyOps \cup {"written", "spawn", "start", "probe", "stop", "reap", "clean"}

Args == Sources \cup Owners \cup Paths \cup {"", "record"}

Parts == {"none", "materials", "access", "workspace", "write", "worker"}

\* A list of n calls and a script of n entries, with operations out of A.
List(A, calls, n) == calls \in Seq(A \X Args) /\ Len(calls) = n

Spelt(A, s, n) == s \in Seq([op : A, arg : Args, part : Parts]) /\ Len(s) = n

\* The entries of u are the m entries of s, and after them the n entries of t.
Joined(u, s, m, t, n) == (\A i \in 1 .. m : u[i] = s[i]) /\ (\A i \in 1 .. n : u[m + i] = t[i])

Entry(call, name) == [op |-> call[1], arg |-> call[2], part |-> name]

-----------------------------------------------------------------------------
(* What a part and a concatenation are. *)

LEMMA PartIs ==
    ASSUME NEW A, NEW calls, NEW n \in Nat, List(A, calls, n), NEW name \in Parts
    PROVE  /\ Spelt(A, Part(name, calls), n)
           /\ \A i \in 1 .. n : Part(name, calls)[i] = Entry(calls[i], name)
<1> DEFINE p == Part(name, calls)
           E == [op : A, arg : Args, part : Parts]
<1>1. calls \in Seq(A \X Args) /\ Len(calls) = n
  BY DEF List
<1>2. DOMAIN calls = 1 .. n
  BY <1>1
<1>3. \A i \in 1 .. n : calls[i] \in A \X Args
  BY <1>1
<1>4. p = [i \in 1 .. n |-> Entry(calls[i], name)]
  BY <1>2 DEF Part, Entry
<1>5. \A c \in A \X Args : Entry(c, name) \in E
  BY DEF Entry
<1> HIDE DEF p, E
<1>6. \A i \in 1 .. n : p[i] = Entry(calls[i], name) /\ p[i] \in E
  BY <1>3, <1>4, <1>5
<1>7. p = [i \in 1 .. n |-> p[i]]
  BY <1>4
<1>8. p \in Seq(E) /\ Len(p) = n
  BY <1>6, <1>7
<1> QED
  BY <1>6, <1>8 DEF Spelt, p, E

LEMMA SeqConcat ==
    ASSUME NEW S, NEW s \in Seq(S), NEW t \in Seq(S)
    PROVE  /\ s \o t \in Seq(S)
           /\ Len(s \o t) = Len(s) + Len(t)
           /\ \A i \in 1 .. Len(s) : (s \o t)[i] = s[i]
           /\ \A i \in 1 .. Len(t) : (s \o t)[Len(s) + i] = t[i]
  OBVIOUS

LEMMA ListConcat ==
    ASSUME NEW A, NEW s, NEW t, NEW m \in Nat, NEW n \in Nat, List(A, s, m), List(A, t, n)
    PROVE  List(A, s \o t, m + n) /\ Joined(s \o t, s, m, t, n)
<1> DEFINE S == A \X Args
<1>1. s \in Seq(S) /\ t \in Seq(S) /\ Len(s) = m /\ Len(t) = n
  BY DEF List
<1> HIDE DEF S
<1>2. s \o t \in Seq(S) /\ Len(s \o t) = m + n
  BY <1>1
<1>3. Joined(s \o t, s, m, t, n)
  BY <1>1 DEF Joined
<1> QED
  BY <1>2, <1>3 DEF List, S

LEMMA Concat ==
    ASSUME NEW A, NEW s, NEW t, NEW m \in Nat, NEW n \in Nat, Spelt(A, s, m), Spelt(A, t, n)
    PROVE  Spelt(A, s \o t, m + n) /\ Joined(s \o t, s, m, t, n)
  BY SMTT(30) DEF Spelt, Joined

-----------------------------------------------------------------------------
(* The script up to the constructor of the workspace. *)

Early == Preflight \o Candidate \o CreateMaterials \o PrepareReadAccess \o CreateWorkspace

LEMMA EarlyIs == Spelt(EarlyOps, Early, 30)
<1> DEFINE C == EarlyOps \X Args
<1>1. /\ CaptureNative \in C /\ CaptureTools \in C /\ CaptureUsers \in C
      /\ CaptureRoutes \in C /\ CaptureStaged \in C /\ CaptureMaterial \in C
  BY DEF CaptureNative, CaptureTools, CaptureUsers, CaptureRoutes, CaptureStaged, CaptureMaterial,
         EarlyOps, Args, Sources
<1>2. /\ VerifyNative \in C /\ VerifyTools \in C /\ VerifyUsers \in C
      /\ VerifySeal \in C /\ VerifySources \in C
  BY DEF VerifyNative, VerifyTools, VerifyUsers, VerifySeal, VerifySources,
         EarlyOps, Args, Sources
<1>3. CallVerifyConfigs \in C /\ CallVerifyCopies \in C /\ RecordCopies \in C
  BY DEF CallVerifyConfigs, CallVerifyCopies, RecordCopies, EarlyOps, Args
<1>4. /\ \A p \in {"mroot", "copy", "root", "configs", "runtime", "temp"} : <<"make", p>> \in C
      /\ \A o \in Owners : <<"own", o>> \in C
  BY DEF EarlyOps, Args, Paths, Dirs, Files
<1> HIDE DEF C
<1>5. << CaptureNative, CaptureTools, CaptureUsers >> \in Seq(C)
  BY <1>1
<1>6. /\ VerifyPreflight \in Seq(C) /\ Len(VerifyPreflight) = 3
      /\ << CaptureRoutes, CaptureStaged, VerifySeal, VerifySeal >> \in Seq(C)
  BY <1>1, <1>2 DEF VerifyPreflight
<1>7. << CaptureMaterial, <<"make", "mroot">>, <<"make", "copy">>, RecordCopies,
         VerifySources, CallVerifyCopies, <<"own", "materials">> >> \in Seq(C)
  BY <1>1, <1>2, <1>3, <1>4 DEF Owners
<1>8. << CallVerifyCopies >> \in Seq(C) /\ << RecordCopies, VerifySources, CallVerifyCopies >> \in Seq(C)
  BY <1>2, <1>3
<1>9. << <<"make", "root">>, <<"make", "configs">>, <<"make", "runtime">>,
         <<"make", "temp">>, CallVerifyConfigs, <<"own", "workspace">> >> \in Seq(C)
  BY <1>3, <1>4 DEF Owners
<1> USE DEF Parts
<1>10. \A s, n : s \in Seq(C) /\ Len(s) = n => List(EarlyOps, s, n)
  BY DEF List, C
<1>11. Spelt(EarlyOps, Preflight, 6)
  <2>1. List(EarlyOps, << CaptureNative, CaptureTools, CaptureUsers >>, 3)
    BY <1>5, <1>10
  <2>2. List(EarlyOps, << CaptureNative, CaptureTools, CaptureUsers >> \o VerifyPreflight, 3 + 3)
    BY <2>1, <1>6, <1>10, ListConcat
  <2> QED
    BY <2>2, PartIs DEF Preflight
<1>12. Spelt(EarlyOps, Candidate, 7)
  <2>1. List(EarlyOps, << CaptureRoutes, CaptureStaged, VerifySeal, VerifySeal >>, 4)
    BY <1>6, <1>10
  <2>2. List(EarlyOps, << CaptureRoutes, CaptureStaged, VerifySeal, VerifySeal >> \o VerifyPreflight,
             4 + 3)
    BY <2>1, <1>6, <1>10, ListConcat
  <2> QED
    BY <2>2, PartIs DEF Candidate
<1>13. Spelt(EarlyOps, CreateMaterials, 7)
  BY <1>7, <1>10, PartIs DEF CreateMaterials
<1>14. Spelt(EarlyOps, PrepareReadAccess, 1 + 3)
  BY <1>8, <1>10, Concat, PartIs DEF PrepareReadAccess
<1>15. Spelt(EarlyOps, CreateWorkspace, 6)
  BY <1>9, <1>10, PartIs DEF CreateWorkspace
<1>16. Spelt(EarlyOps, Preflight \o Candidate, 6 + 7)
  BY <1>11, <1>12, Concat
<1>17. Spelt(EarlyOps, Preflight \o Candidate \o CreateMaterials, 13 + 7)
  BY <1>13, <1>16, Concat
<1>18. Spelt(EarlyOps, Preflight \o Candidate \o CreateMaterials \o PrepareReadAccess, 20 + 4)
  BY <1>14, <1>17, Concat
<1> QED
  BY <1>15, <1>18, Concat DEF Early

-----------------------------------------------------------------------------
(* The script from there on, entry by entry. *)


LEMMA PartAt ==
    ASSUME NEW calls, NEW n \in Nat, List(Ops, calls, n), NEW name \in Parts, NEW i \in 1 .. n
    PROVE  /\ Part(name, calls)[i].op = calls[i][1] /\ Part(name, calls)[i].arg = calls[i][2]
           /\ Part(name, calls)[i].part = name
<1>1. Part(name, calls)[i] = Entry(calls[i], name)
  BY PartIs
<1> QED
  BY <1>1 DEF Entry

LEMMA SmallLists ==
    ASSUME NEW C, NEW a \in C, NEW b \in C, NEW c \in C, NEW d \in C, NEW e \in C
    PROVE  /\ << a >> \in Seq(C) /\ Len(<< a >>) = 1
           /\ << a, b >> \in Seq(C) /\ Len(<< a, b >>) = 2
           /\ << a, b, c, d >> \in Seq(C) /\ Len(<< a, b, c, d >>) = 4
           /\ << a, b, c, d, e >> \in Seq(C) /\ Len(<< a, b, c, d, e >>) = 5
  OBVIOUS

LEMMA LongLists ==
    ASSUME NEW C, NEW a \in C, NEW b \in C, NEW c \in C, NEW d \in C, NEW e \in C,
           NEW f \in C, NEW g \in C, NEW h \in C, NEW i \in C
    PROVE  /\ << a, b, c, d, e, f >> \in Seq(C)
           /\ << a, b, c, d, e, f, g, h, i >> \in Seq(C)
  OBVIOUS

LEMMA WriteConfigsIs ==
    /\ Spelt(Ops, WriteConfigs, 5)
    /\ WriteConfigs[1].op = "configs" /\ WriteConfigs[2].op = "make" /\ WriteConfigs[3].op = "make"
    /\ WriteConfigs[4].op = "written" /\ WriteConfigs[5].op = "configs"
    /\ WriteConfigs[2].arg = "haproxy.conf" /\ WriteConfigs[3].arg = "nginx.conf"
<1> DEFINE c == << CallVerifyConfigs >>
           d == << <<"make", "haproxy.conf">>, <<"make", "nginx.conf">>, <<"written", "">>,
                   CallVerifyConfigs >>
           C == Ops \X Args
<1>1. /\ <<"make", "haproxy.conf">> \in C /\ <<"make", "nginx.conf">> \in C
      /\ <<"written", "">> \in C /\ CallVerifyConfigs \in C
  BY DEF CallVerifyConfigs, Ops, EarlyOps, Args, Paths, Files
<1>2. /\ c[1][1] = "configs"
      /\ d[1][1] = "make" /\ d[2][1] = "make" /\ d[3][1] = "written" /\ d[4][1] = "configs"
      /\ d[1][2] = "haproxy.conf" /\ d[2][2] = "nginx.conf"
  BY DEF CallVerifyConfigs
<1> HIDE DEF C
<1>3. c \in Seq(C) /\ d \in Seq(C) /\ Len(c) = 1 /\ Len(d) = 4
  BY <1>1, SmallLists
<1> HIDE DEF c, d
<1>4. List(Ops, c, 1) /\ List(Ops, d, 4) /\ "none" \in Parts /\ "write" \in Parts
  BY <1>3 DEF List, C, Parts
<1> DEFINE p == Part("none", c)
           q == Part("write", d)
<1>5. Spelt(Ops, p, 1) /\ Spelt(Ops, q, 4)
  BY <1>4, PartIs
<1>6. p[1].op = c[1][1]
  BY <1>4, PartAt
<1>7. /\ q[1].op = d[1][1] /\ q[2].op = d[2][1] /\ q[3].op = d[3][1] /\ q[4].op = d[4][1]
      /\ q[1].arg = d[1][2] /\ q[2].arg = d[2][2]
  BY <1>4, PartAt
<1> HIDE DEF p, q
<1> DEFINE r == p \o q
<1>8. Spelt(Ops, r, 1 + 4) /\ Joined(r, p, 1, q, 4)
  BY <1>5, Concat
<1> HIDE DEF r
<1>9. r[1] = p[1] /\ r[1 + 1] = q[1] /\ r[1 + 2] = q[2] /\ r[1 + 3] = q[3] /\ r[1 + 4] = q[4]
  BY <1>8 DEF Joined
<1>10. WriteConfigs = r
  BY DEF WriteConfigs, p, q, c, d, r
<1> QED
  BY <1>2, <1>6, <1>7, <1>8, <1>9, <1>10

LEMMA WorkerIs ==
    /\ Spelt(Ops, Worker, 11)
    /\ Worker[1].op = "configs" /\ Worker[2].op = "copies"
    /\ Worker[3].op = "spawn" /\ Worker[4].op = "configs" /\ Worker[5].op = "check"
    /\ Worker[6].op = "start" /\ Worker[7].op = "probe"
    /\ Worker[8].op = "configs" /\ Worker[8].part = "worker" /\ Worker[9].op = "check"
    /\ Worker[10].op = "stop" /\ Worker[11].op = "reap"
    /\ \A i \in 1 .. 9 : Worker[2 + i].part = "worker"
<1> DEFINE c == << CallVerifyConfigs, CallVerifyCopies >>
           d == << <<"spawn", "">>, CallVerifyConfigs, VerifyTools, <<"start", "">>, <<"probe", "">>,
                   CallVerifyConfigs, VerifyTools, <<"stop", "">>, <<"reap", "">> >>
           C == Ops \X Args
<1>1. /\ <<"spawn", "">> \in C /\ CallVerifyConfigs \in C /\ VerifyTools \in C
      /\ <<"start", "">> \in C /\ <<"probe", "">> \in C /\ <<"stop", "">> \in C
      /\ <<"reap", "">> \in C /\ CallVerifyCopies \in C
  BY DEF CallVerifyConfigs, CallVerifyCopies, VerifyTools, Ops, EarlyOps, Args, Sources
<1>2. /\ c[1][1] = "configs" /\ c[2][1] = "copies"
      /\ d[1][1] = "spawn" /\ d[2][1] = "configs" /\ d[3][1] = "check" /\ d[4][1] = "start"
      /\ d[5][1] = "probe" /\ d[6][1] = "configs" /\ d[7][1] = "check" /\ d[8][1] = "stop"
      /\ d[9][1] = "reap"
  BY DEF CallVerifyConfigs, CallVerifyCopies, VerifyTools
<1> HIDE DEF C
<1>3. c \in Seq(C) /\ d \in Seq(C) /\ Len(c) = 2 /\ Len(d) = 9
  <2>1. c \in Seq(C) /\ Len(c) = 2
    BY <1>1, SmallLists
  <2>2. d \in Seq(C)
    BY <1>1, LongLists, Zenon
  <2>3. Len(d) = 9
    OBVIOUS
  <2> QED
    BY <2>1, <2>2, <2>3
<1> HIDE DEF c, d
<1>4. List(Ops, c, 2) /\ List(Ops, d, 9) /\ "none" \in Parts /\ "worker" \in Parts
  BY <1>3 DEF List, C, Parts
<1> DEFINE p == Part("none", c)
           q == Part("worker", d)
<1>5. Spelt(Ops, p, 2) /\ Spelt(Ops, q, 9)
  BY <1>4, PartIs
<1>6. p[1].op = c[1][1] /\ p[2].op = c[2][1]
  BY <1>4, PartAt
<1>7. \A i \in 1 .. 9 : q[i].op = d[i][1] /\ q[i].part = "worker"
  BY <1>4, PartAt
<1> HIDE DEF p, q
<1> DEFINE r == p \o q
<1>8. Spelt(Ops, r, 2 + 9) /\ Joined(r, p, 2, q, 9)
  BY <1>5, Concat
<1> HIDE DEF r
<1>9. /\ r[1] = p[1] /\ r[2] = p[2] /\ r[2 + 1] = q[1] /\ r[2 + 2] = q[2] /\ r[2 + 3] = q[3]
      /\ r[2 + 4] = q[4] /\ r[2 + 5] = q[5] /\ r[2 + 6] = q[6] /\ r[2 + 7] = q[7]
      /\ r[2 + 8] = q[8] /\ r[2 + 9] = q[9]
  BY <1>8 DEF Joined
<1>10. Worker = r
  BY DEF Worker, p, q, c, d, r
<1>11. \A i \in 1 .. 9 : r[2 + i].part = "worker"
  BY <1>7, <1>8 DEF Joined
<1> QED
  BY <1>2, <1>6, <1>7, <1>8, <1>9, <1>10, <1>11

LEMMA ProofIs ==
    /\ Spelt(Ops, Proof, 5) /\ \A i \in 1 .. 5 : Proof[i].op = "check" /\ Proof[i].part = "none"
    /\ Proof[1].arg = "staged" /\ Proof[2].arg = "material" /\ Proof[3].arg = "users"
    /\ Proof[4].arg = "native" /\ Proof[5].arg = "tools"
<1> DEFINE c == << VerifySeal, VerifySources, VerifyUsers, VerifyNative, VerifyTools >>
           C == Ops \X Args
<1>1. /\ VerifySeal \in C /\ VerifySources \in C /\ VerifyUsers \in C /\ VerifyNative \in C
      /\ VerifyTools \in C
  BY DEF VerifySeal, VerifySources, VerifyUsers, VerifyNative, VerifyTools, Ops, EarlyOps, Args, Sources
<1>2. /\ \A i \in 1 .. 5 : c[i][1] = "check"
      /\ c[1][2] = "staged" /\ c[2][2] = "material" /\ c[3][2] = "users" /\ c[4][2] = "native"
      /\ c[5][2] = "tools"
  BY DEF VerifySeal, VerifySources, VerifyUsers, VerifyNative, VerifyTools
<1> HIDE DEF C
<1>3. c \in Seq(C) /\ Len(c) = 5
  BY <1>1, SmallLists
<1> HIDE DEF c
<1>4. List(Ops, c, 5) /\ "none" \in Parts
  BY <1>3 DEF List, C, Parts
<1> DEFINE p == Part("none", c)
<1>5. Spelt(Ops, p, 5) /\ \A i \in 1 .. 5 : p[i].op = c[i][1] /\ p[i].arg = c[i][2] /\ p[i].part = "none"
  BY <1>4, PartIs, PartAt
<1> HIDE DEF p
<1>6. Proof = p
  BY DEF Proof, p, c
<1> QED
  BY <1>2, <1>5, <1>6

LEMMA FencesIs ==
    /\ Spelt(Ops, Fences, 10)
    /\ Fences[1].op = "configs" /\ Fences[2].op = "copies"
    /\ Fences[3].op = "check" /\ Fences[3].arg = "material"
    /\ Fences[4].op = "copies" /\ Fences[4].arg = ""
    /\ Fences[5].op = "check" /\ Fences[5].arg = "users"
    /\ Fences[6].op = "check" /\ Fences[6].arg = "native"
    /\ Fences[7].op = "check" /\ Fences[8].op = "check"
    /\ Fences[9].op = "clean" /\ Fences[10].op = "clean"
    /\ Fences[9].arg = "workspace" /\ Fences[10].arg = "materials"
    /\ \A i \in 1 .. 10 : Fences[i].part = "none"
<1> DEFINE b == << CallVerifyConfigs, CallVerifyCopies >>
           d == << VerifyUsers, VerifyNative, VerifyTools, VerifySeal,
                   <<"clean", "workspace">>, <<"clean", "materials">> >>
           C == Ops \X Args
<1>1. /\ CallVerifyConfigs \in C /\ CallVerifyCopies \in C /\ VerifySources \in C
      /\ VerifyUsers \in C /\ VerifyNative \in C /\ VerifyTools \in C /\ VerifySeal \in C
      /\ <<"clean", "workspace">> \in C /\ <<"clean", "materials">> \in C
  BY DEF CallVerifyConfigs, CallVerifyCopies, VerifySources, VerifyUsers, VerifyNative, VerifyTools,
         VerifySeal, Ops, EarlyOps, Args, Sources, Owners
<1>2. /\ b[1][1] = "configs" /\ b[2][1] = "copies"
      /\ SourceFence[1][1] = "check" /\ SourceFence[1][2] = "material"
      /\ SourceFence[2][1] = "copies" /\ SourceFence[2][2] = ""
  BY DEF CallVerifyConfigs, CallVerifyCopies, SourceFence, VerifySources
<1>3. /\ d[1][1] = "check" /\ d[1][2] = "users" /\ d[2][1] = "check" /\ d[2][2] = "native"
      /\ d[3][1] = "check" /\ d[4][1] = "check" /\ d[5][1] = "clean" /\ d[6][1] = "clean"
      /\ d[5][2] = "workspace" /\ d[6][2] = "materials"
  BY DEF VerifyUsers, VerifyNative, VerifyTools, VerifySeal
<1> HIDE DEF C
<1>4. b \in Seq(C) /\ Len(b) = 2
  BY <1>1, SmallLists
<1>5. SourceFence \in Seq(C) /\ Len(SourceFence) = 2
  BY <1>1, SmallLists DEF SourceFence
<1>6. d \in Seq(C)
  BY <1>1, LongLists, Zenon
<1>7. Len(d) = 6
  OBVIOUS
<1> HIDE DEF b, d
<1>8. /\ List(Ops, b, 2) /\ List(Ops, SourceFence, 2) /\ List(Ops, d, 6)
      /\ "none" \in Parts
  BY <1>4, <1>5, <1>6, <1>7 DEF List, C, Parts
<1> DEFINE e == b \o SourceFence
           f == e \o d
<1>9. List(Ops, e, 2 + 2) /\ Joined(e, b, 2, SourceFence, 2)
  BY <1>8, ListConcat
<1> HIDE DEF e
<1>10. List(Ops, f, 4 + 6) /\ Joined(f, e, 4, d, 6)
  BY <1>8, <1>9, ListConcat
<1> HIDE DEF f
<1>11. f[1] = e[1] /\ f[2] = e[2] /\ f[3] = e[3] /\ f[4] = e[4]
  BY <1>10 DEF Joined
<1>12. e[1] = b[1] /\ e[2] = b[2] /\ e[2 + 1] = SourceFence[1] /\ e[2 + 2] = SourceFence[2]
  BY <1>9 DEF Joined
<1>13. /\ f[4 + 1] = d[1] /\ f[4 + 2] = d[2] /\ f[4 + 3] = d[3] /\ f[4 + 4] = d[4]
       /\ f[4 + 5] = d[5] /\ f[4 + 6] = d[6]
  BY <1>10 DEF Joined
<1> DEFINE p == Part("none", f)
<1>14. /\ Spelt(Ops, p, 10)
       /\ \A i \in 1 .. 10 : p[i].op = f[i][1] /\ p[i].arg = f[i][2] /\ p[i].part = "none"
  BY <1>8, <1>10, PartIs, PartAt
<1> HIDE DEF p
<1>15. Fences = p
  BY DEF Fences, p, f, e, d, b
<1>16. /\ p[1].op = b[1][1] /\ p[2].op = b[2][1]
       /\ p[3].op = SourceFence[1][1] /\ p[3].arg = SourceFence[1][2]
       /\ p[4].op = SourceFence[2][1] /\ p[4].arg = SourceFence[2][2]
  BY <1>11, <1>12, <1>14
<1>17. /\ p[5].op = d[1][1] /\ p[5].arg = d[1][2] /\ p[6].op = d[2][1] /\ p[6].arg = d[2][2]
       /\ p[7].op = d[3][1] /\ p[8].op = d[4][1] /\ p[9].op = d[5][1] /\ p[10].op = d[6][1]
       /\ p[9].arg = d[5][2] /\ p[10].arg = d[6][2]
  BY <1>13, <1>14
<1>18. /\ p[3].op = "check" /\ p[3].arg = "material" /\ p[4].op = "copies" /\ p[4].arg = ""
       /\ p[1].op = "configs" /\ p[2].op = "copies"
  BY <1>2, <1>16, ZenonT(30)
<1>19. /\ p[5].op = "check" /\ p[5].arg = "users" /\ p[6].op = "check" /\ p[6].arg = "native"
       /\ p[7].op = "check" /\ p[8].op = "check" /\ p[9].op = "clean" /\ p[10].op = "clean"
       /\ p[9].arg = "workspace" /\ p[10].arg = "materials"
  BY <1>3, <1>17, ZenonT(30)
<1> QED
  BY <1>14, <1>15, <1>18, <1>19, ZenonT(30)

LEMMA CommitIs ==
    /\ Spelt(Ops, Commit, 8) /\ \A i \in 1 .. 8 : Commit[i].op = "check" /\ Commit[i].part = "none"
    /\ Commit[1].arg = "routes" /\ Commit[2].arg = "staged"
    /\ \A i \in 1 .. 5 : Commit[2 + i] = Proof[i]
<1> DEFINE b == << VerifyRoutes, VerifySeal >>
           d == << VerifySeal >>
           C == Ops \X Args
<1>1. VerifyRoutes \in C /\ VerifySeal \in C
  BY DEF VerifyRoutes, VerifySeal, Ops, EarlyOps, Args, Sources
<1>2. /\ b[1][1] = "check" /\ b[2][1] = "check" /\ d[1][1] = "check"
      /\ b[1][2] = "routes" /\ b[2][2] = "staged"
  BY DEF VerifyRoutes, VerifySeal
<1> HIDE DEF C
<1>3. b \in Seq(C) /\ Len(b) = 2 /\ d \in Seq(C) /\ Len(d) = 1
  BY <1>1, SmallLists
<1> HIDE DEF b, d
<1>4. List(Ops, b, 2) /\ List(Ops, d, 1) /\ "none" \in Parts
  BY <1>3 DEF List, C, Parts
<1> DEFINE p == Part("none", b)
           q == Part("none", d)
<1>5. Spelt(Ops, p, 2) /\ Spelt(Ops, q, 1)
  BY <1>4, PartIs
<1>6. /\ p[1].op = b[1][1] /\ p[2].op = b[2][1] /\ q[1].op = d[1][1]
      /\ p[1].arg = b[1][2] /\ p[2].arg = b[2][2]
      /\ p[1].part = "none" /\ p[2].part = "none" /\ q[1].part = "none"
  BY <1>4, PartAt
<1> HIDE DEF p, q
<1> DEFINE r == p \o Proof
           s == r \o q
<1>7. Spelt(Ops, r, 2 + 5) /\ Joined(r, p, 2, Proof, 5)
  BY <1>5, ProofIs, Concat
<1> HIDE DEF r
<1>8. Spelt(Ops, s, 7 + 1) /\ Joined(s, r, 7, q, 1)
  BY <1>5, <1>7, Concat
<1> HIDE DEF s
<1>9. /\ r[1] = p[1] /\ r[2] = p[2] /\ r[2 + 1] = Proof[1] /\ r[2 + 2] = Proof[2]
      /\ r[2 + 3] = Proof[3] /\ r[2 + 4] = Proof[4] /\ r[2 + 5] = Proof[5]
  BY <1>7 DEF Joined
<1>10. /\ s[1] = r[1] /\ s[2] = r[2] /\ s[3] = r[3] /\ s[4] = r[4] /\ s[5] = r[5]
       /\ s[6] = r[6] /\ s[7] = r[7] /\ s[7 + 1] = q[1]
  BY <1>8 DEF Joined
<1>11. Commit = s
  BY DEF Commit, p, q, r, s, b, d
<1> QED
  BY <1>2, <1>6, <1>8, <1>9, <1>10, <1>11, ProofIs

LEMMA EarlyIsSpelt ==
    ASSUME NEW s, NEW n \in Nat, Spelt(EarlyOps, s, n)
    PROVE  Spelt(Ops, s, n) /\ \A i \in 1 .. n : s[i].op \in EarlyOps
<1> DEFINE E == [op : EarlyOps, arg : Args, part : Parts]
           F == [op : Ops, arg : Args, part : Parts]
<1>1. s \in Seq(E) /\ Len(s) = n
  BY DEF Spelt
<1>2. E \subseteq F /\ \A x \in E : x.op \in EarlyOps
  BY DEF Ops
<1> HIDE DEF E, F
<1>3. DOMAIN s = 1 .. n /\ \A i \in 1 .. n : s[i] \in E
  BY <1>1
<1>4. s = [i \in 1 .. n |-> s[i]]
  BY <1>1
<1>5. s \in Seq(F)
  BY <1>2, <1>3, <1>4
<1> QED
  BY <1>1, <1>2, <1>3, <1>5 DEF Spelt, F

\* Which part each entry of the script comes from.
LEMMA Segments ==
    /\ Spelt(Ops, Script, 69)
    /\ \A i \in 1 .. 30 : Script[i] = Early[i] /\ Script[i].op \in EarlyOps
    /\ \A i \in 1 .. 5 : Script[30 + i] = WriteConfigs[i]
    /\ \A i \in 1 .. 11 : Script[35 + i] = Worker[i]
    /\ \A i \in 1 .. 10 : Script[46 + i] = Fences[i]
    /\ \A i \in 1 .. 5 : Script[56 + i] = Proof[i]
    /\ \A i \in 1 .. 8 : Script[61 + i] = Commit[i]
<1> DEFINE a == Early \o WriteConfigs
           b == a \o Worker
           c == b \o Fences
           d == c \o Proof
           e == d \o Commit
<1>1. Spelt(Ops, Early, 30) /\ \A i \in 1 .. 30 : Early[i].op \in EarlyOps
  BY EarlyIs, EarlyIsSpelt
<1>2. Spelt(Ops, a, 30 + 5) /\ Joined(a, Early, 30, WriteConfigs, 5)
  BY <1>1, WriteConfigsIs, Concat
<1> HIDE DEF a
<1>3. Spelt(Ops, b, 35 + 11) /\ Joined(b, a, 35, Worker, 11)
  BY <1>2, WorkerIs, Concat
<1> HIDE DEF b
<1>4. Spelt(Ops, c, 46 + 10) /\ Joined(c, b, 46, Fences, 10)
  <2>1. Spelt(Ops, Fences, 10)
    BY FencesIs, Zenon
  <2> QED
    BY <1>3, <2>1, Concat
<1> HIDE DEF c
<1>5. Spelt(Ops, d, 56 + 5) /\ Joined(d, c, 56, Proof, 5)
  BY <1>4, ProofIs, Concat
<1> HIDE DEF d
<1>6. Spelt(Ops, e, 61 + 8) /\ Joined(e, d, 61, Commit, 8)
  BY <1>5, CommitIs, Concat
<1> HIDE DEF e
<1>7. Script = e
  BY DEF Script, Early, a, b, c, d, e
<1>8. \A i \in 1 .. 30 : Script[i] = Early[i]
  BY <1>2, <1>3, <1>4, <1>5, <1>6, <1>7 DEF Joined
<1>9. /\ \A i \in 1 .. 5 : Script[30 + i] = WriteConfigs[i]
      /\ \A i \in 1 .. 11 : Script[35 + i] = Worker[i]
  BY <1>2, <1>3, <1>4, <1>5, <1>6, <1>7 DEF Joined
<1>10. /\ \A i \in 1 .. 10 : Script[46 + i] = Fences[i]
       /\ \A i \in 1 .. 5 : Script[56 + i] = Proof[i]
       /\ \A i \in 1 .. 8 : Script[61 + i] = Commit[i]
  BY <1>4, <1>5, <1>6, <1>7 DEF Joined
<1> QED
  BY <1>1, <1>6, <1>7, <1>8, <1>9, <1>10

(***************************************************************************)
(* Where the steps are that the proofs below speak of.  The last round of  *)
(* looks is from 62 to 69.                                                 *)
(***************************************************************************)
LEMMA ScriptIs ==
    /\ Spelt(Ops, Script, 69)
    /\ \A i \in 1 .. 30 : Script[i].op \in EarlyOps
    /\ Script[31].op = "configs" /\ Script[32].op = "make" /\ Script[33].op = "make"
    /\ Script[34].op = "written" /\ Script[35].op = "configs"
    /\ Script[36].op = "configs" /\ Script[37].op = "copies"
    /\ Script[38].op = "spawn" /\ Script[39].op = "configs" /\ Script[40].op = "check"
    /\ Script[41].op = "start" /\ Script[42].op = "probe"
    /\ Script[43].op = "configs" /\ Script[43].part = "worker" /\ Script[44].op = "check"
    /\ Script[45].op = "stop" /\ Script[46].op = "reap"
    /\ Script[47].op = "configs" /\ Script[48].op = "copies"
    /\ Script[49].op = "check" /\ Script[49].arg = "material"
    /\ Script[50].op = "copies" /\ Script[50].arg = ""
    /\ Script[51].op = "check" /\ Script[51].arg = "users"
    /\ Script[52].op = "check" /\ Script[52].arg = "native"
    /\ Script[53].op = "check" /\ Script[54].op = "check"
    /\ Script[55].op = "clean" /\ Script[56].op = "clean"
    /\ \A i \in 57 .. 69 : Script[i].op = "check"
    /\ Script[62].arg = "routes" /\ Script[64].arg = "staged" /\ Script[65].arg = "material"
    /\ Script[66].arg = "users" /\ Script[67].arg = "native" /\ Script[68].arg = "tools"
<1>11. /\ Script[30 + 1] = WriteConfigs[1] /\ Script[30 + 2] = WriteConfigs[2]
       /\ Script[30 + 3] = WriteConfigs[3] /\ Script[30 + 4] = WriteConfigs[4]
       /\ Script[30 + 5] = WriteConfigs[5]
  BY Segments
<1>12. /\ Script[35 + 1] = Worker[1] /\ Script[35 + 2] = Worker[2] /\ Script[35 + 3] = Worker[3]
       /\ Script[35 + 4] = Worker[4] /\ Script[35 + 5] = Worker[5] /\ Script[35 + 6] = Worker[6]
       /\ Script[35 + 7] = Worker[7] /\ Script[35 + 8] = Worker[8] /\ Script[35 + 9] = Worker[9]
       /\ Script[35 + 10] = Worker[10] /\ Script[35 + 11] = Worker[11]
  BY Segments
<1>13. /\ Script[46 + 1] = Fences[1] /\ Script[46 + 2] = Fences[2] /\ Script[46 + 3] = Fences[3]
       /\ Script[46 + 4] = Fences[4] /\ Script[46 + 5] = Fences[5] /\ Script[46 + 6] = Fences[6]
       /\ Script[46 + 7] = Fences[7] /\ Script[46 + 8] = Fences[8] /\ Script[46 + 9] = Fences[9]
       /\ Script[46 + 10] = Fences[10]
  BY Segments
<1>14. /\ Script[61 + 1] = Commit[1] /\ Script[61 + 3] = Proof[1] /\ Script[61 + 4] = Proof[2]
       /\ Script[61 + 5] = Proof[3] /\ Script[61 + 6] = Proof[4] /\ Script[61 + 7] = Proof[5]
  <2>1. /\ Script[61 + 1] = Commit[1] /\ Script[61 + 3] = Commit[3] /\ Script[61 + 4] = Commit[4]
        /\ Script[61 + 5] = Commit[5] /\ Script[61 + 6] = Commit[6] /\ Script[61 + 7] = Commit[7]
    BY Segments
  <2>2. /\ Commit[2 + 1] = Proof[1] /\ Commit[2 + 2] = Proof[2] /\ Commit[2 + 3] = Proof[3]
        /\ Commit[2 + 4] = Proof[4] /\ Commit[2 + 5] = Proof[5]
    BY CommitIs
  <2> QED
    BY <2>1, <2>2
<1>15. \A i \in 57 .. 69 : Script[i].op = "check"
  <2> SUFFICES ASSUME NEW i \in 57 .. 69 PROVE Script[i].op = "check"
    OBVIOUS
  <2>1. CASE i \in 57 .. 61
    <3>1. i - 56 \in 1 .. 5 /\ 56 + (i - 56) = i
      BY <2>1
    <3> QED
      BY Segments, <3>1, ProofIs
  <2>2. CASE i \in 62 .. 69
    <3>1. i - 61 \in 1 .. 8 /\ 61 + (i - 61) = i
      BY <2>2
    <3> QED
      BY Segments, <3>1, CommitIs
  <2> QED
    BY <2>1, <2>2
<1> QED
  <2>1. Spelt(Ops, Script, 69) /\ \A i \in 1 .. 30 : Script[i].op \in EarlyOps
    BY Segments
  <2>2. /\ Script[31].op = "configs" /\ Script[32].op = "make" /\ Script[33].op = "make"
        /\ Script[34].op = "written" /\ Script[35].op = "configs"
    BY <1>11, WriteConfigsIs
  <2>3. /\ Script[36].op = "configs" /\ Script[37].op = "copies"
        /\ Script[38].op = "spawn" /\ Script[39].op = "configs" /\ Script[40].op = "check"
        /\ Script[41].op = "start" /\ Script[42].op = "probe"
        /\ Script[43].op = "configs" /\ Script[43].part = "worker" /\ Script[44].op = "check"
        /\ Script[45].op = "stop" /\ Script[46].op = "reap"
    BY <1>12, WorkerIs
  <2>4. /\ Script[47].op = "configs" /\ Script[48].op = "copies"
        /\ Script[49].op = "check" /\ Script[49].arg = "material"
        /\ Script[50].op = "copies" /\ Script[50].arg = ""
        /\ Script[51].op = "check" /\ Script[51].arg = "users"
        /\ Script[52].op = "check" /\ Script[52].arg = "native"
        /\ Script[53].op = "check" /\ Script[54].op = "check"
        /\ Script[55].op = "clean" /\ Script[56].op = "clean"
    <3>1. /\ Script[47] = Fences[1] /\ Script[48] = Fences[2] /\ Script[49] = Fences[3]
          /\ Script[50] = Fences[4] /\ Script[51] = Fences[5]
      BY <1>13
    <3>2. /\ Script[52] = Fences[6] /\ Script[53] = Fences[7] /\ Script[54] = Fences[8]
          /\ Script[55] = Fences[9] /\ Script[56] = Fences[10]
      BY <1>13
    <3> QED
      BY <3>1, <3>2, FencesIs, ZenonT(60)
  <2>5. /\ Script[62].arg = "routes" /\ Script[64].arg = "staged" /\ Script[65].arg = "material"
        /\ Script[66].arg = "users" /\ Script[67].arg = "native" /\ Script[68].arg = "tools"
    BY <1>14, CommitIs, ProofIs
  <2> QED
    BY <2>1, <2>2, <2>3, <2>4, <2>5, <1>15, ZenonT(60)

\* Which call may be at place i.
CallAt(op, i) ==
    /\ op \in {"capture", "own"} => i <= 30
    /\ op = "make" => i <= 33
    /\ op = "written" <=> i = 34
    /\ op = "spawn" <=> i = 38
    /\ op = "start" <=> i = 41
    /\ op = "probe" <=> i = 42
    /\ op = "stop" <=> i = 45
    /\ op = "reap" <=> i = 46
    /\ op = "clean" <=> i \in {55, 56}
    /\ op = "copies" => i <= 30 \/ i \in {37, 48, 50}
    /\ op = "configs" => i <= 36 \/ i \in {39, 43, 47}
    /\ op = "check" => i <= 30 \/ i \in {40, 44, 49} \/ i >= 51

LEMMA Places == \A i \in 1 .. 69 : CallAt(Script[i].op, i)
<1> SUFFICES ASSUME NEW i \in 1 .. 69, NEW op, op = Script[i].op PROVE CallAt(op, i)
  OBVIOUS
<1> USE DEF CallAt
<1>1. CASE i \in 1 .. 30
  <2>1. \A j \in 1 .. 30 : Script[j].op \in EarlyOps
    BY ScriptIs, ZenonT(60)
  <2> QED
    BY <1>1, <2>1 DEF EarlyOps
<1>2. CASE i \in 31 .. 37
  <2>1. \/ i = 31 \/ i = 32 \/ i = 33 \/ i = 34 \/ i = 35 \/ i = 36 \/ i = 37
    BY <1>2
  <2>2. \/ i \in {31, 35, 36} /\ op = "configs"
        \/ i \in {32, 33} /\ op = "make"
        \/ i = 34 /\ op = "written"
        \/ i = 37 /\ op = "copies"
    <3>1. /\ Script[31].op = "configs" /\ Script[32].op = "make" /\ Script[33].op = "make"
          /\ Script[34].op = "written" /\ Script[35].op = "configs"
          /\ Script[36].op = "configs" /\ Script[37].op = "copies"
      BY ScriptIs, ZenonT(60)
    <3> QED
      BY <2>1, <3>1
  <2> QED
    BY <2>2
<1>3. CASE i \in 38 .. 46
  <2>1. \/ i = 38 \/ i = 39 \/ i = 40 \/ i = 41 \/ i = 42 \/ i = 43 \/ i = 44 \/ i = 45 \/ i = 46
    BY <1>3
  <2>2. \/ i = 38 /\ op = "spawn"
        \/ i \in {39, 43} /\ op = "configs"
        \/ i \in {40, 44} /\ op = "check"
        \/ i = 41 /\ op = "start"
        \/ i = 42 /\ op = "probe"
        \/ i = 45 /\ op = "stop"
        \/ i = 46 /\ op = "reap"
    <3>1. /\ Script[38].op = "spawn" /\ Script[39].op = "configs" /\ Script[40].op = "check"
          /\ Script[41].op = "start" /\ Script[42].op = "probe" /\ Script[43].op = "configs"
          /\ Script[44].op = "check" /\ Script[45].op = "stop" /\ Script[46].op = "reap"
      BY ScriptIs, ZenonT(60)
    <3> QED
      BY <2>1, <3>1
  <2> QED
    BY <2>2
<1>4. CASE i \in 47 .. 56
  <2>1. \/ i = 47 \/ i = 48 \/ i = 49 \/ i = 50 \/ i = 51 \/ i = 52 \/ i = 53 \/ i = 54 \/ i = 55
        \/ i = 56
    BY <1>4
  <2>2. \/ i = 47 /\ op = "configs"
        \/ i \in {48, 50} /\ op = "copies"
        \/ i \in {49, 51, 52, 53, 54} /\ op = "check"
        \/ i \in {55, 56} /\ op = "clean"
    <3>1. /\ Script[47].op = "configs" /\ Script[48].op = "copies" /\ Script[49].op = "check"
          /\ Script[50].op = "copies" /\ Script[51].op = "check" /\ Script[52].op = "check"
          /\ Script[53].op = "check" /\ Script[54].op = "check"
          /\ Script[55].op = "clean" /\ Script[56].op = "clean"
      BY ScriptIs, ZenonT(60)
    <3> QED
      BY <2>1, <3>1
  <2> QED
    BY <2>2
<1>5. CASE i \in 57 .. 69
  <2>1. \A j \in 57 .. 69 : Script[j].op = "check"
    BY ScriptIs, ZenonT(60)
  <2> QED
    BY <1>5, <2>1
<1> QED
  BY <1>1, <1>2, <1>3, <1>4, <1>5

-----------------------------------------------------------------------------
(* What is made, handed over and cleaned where, and which part of the code is *)
(* at work there.                                                             *)

LookOps == {"capture", "check", "copies"}

\* Entries that make nothing and hand nothing over.
LEMMA EarlyLooks ==
    /\ Spelt(LookOps, Preflight, 6) /\ Spelt(LookOps, Candidate, 7)
    /\ Spelt(LookOps, PrepareReadAccess, 4)
<1> DEFINE C == LookOps \X Args
<1>1. /\ CaptureNative \in C /\ CaptureTools \in C /\ CaptureUsers \in C
      /\ CaptureRoutes \in C /\ CaptureStaged \in C
      /\ VerifyNative \in C /\ VerifyTools \in C /\ VerifyUsers \in C
      /\ VerifySeal \in C /\ VerifySources \in C /\ CallVerifyCopies \in C /\ RecordCopies \in C
  BY DEF CaptureNative, CaptureTools, CaptureUsers, CaptureRoutes, CaptureStaged,
         VerifyNative, VerifyTools, VerifyUsers, VerifySeal, VerifySources, CallVerifyCopies, RecordCopies,
         LookOps, Args, Sources
<1> HIDE DEF C
<1>2. << CaptureNative, CaptureTools, CaptureUsers >> \in Seq(C)
  BY <1>1
<1>3. /\ VerifyPreflight \in Seq(C) /\ Len(VerifyPreflight) = 3
      /\ << CaptureRoutes, CaptureStaged, VerifySeal, VerifySeal >> \in Seq(C)
  BY <1>1 DEF VerifyPreflight
<1>4. << CallVerifyCopies >> \in Seq(C) /\ << RecordCopies, VerifySources, CallVerifyCopies >> \in Seq(C)
  BY <1>1
<1> USE DEF Parts
<1>5. \A s, n : s \in Seq(C) /\ Len(s) = n => List(LookOps, s, n)
  BY DEF List, C
<1>6. Spelt(LookOps, Preflight, 6)
  <2>1. List(LookOps, << CaptureNative, CaptureTools, CaptureUsers >>, 3)
    BY <1>2, <1>5
  <2>2. List(LookOps, << CaptureNative, CaptureTools, CaptureUsers >> \o VerifyPreflight, 3 + 3)
    BY <2>1, <1>3, <1>5, ListConcat
  <2> QED
    BY <2>2, PartIs DEF Preflight
<1>7. Spelt(LookOps, Candidate, 7)
  <2>1. List(LookOps, << CaptureRoutes, CaptureStaged, VerifySeal, VerifySeal >>, 4)
    BY <1>3, <1>5
  <2>2. List(LookOps, << CaptureRoutes, CaptureStaged, VerifySeal, VerifySeal >> \o VerifyPreflight, 4 + 3)
    BY <2>1, <1>3, <1>5, ListConcat
  <2> QED
    BY <2>2, PartIs DEF Candidate
<1>8. Spelt(LookOps, PrepareReadAccess, 1 + 3)
  BY <1>4, <1>5, Concat, PartIs DEF PrepareReadAccess
<1> QED
  BY <1>6, <1>7, <1>8

LEMMA CreateMaterialsIs ==
    /\ Spelt(EarlyOps, CreateMaterials, 7)
    /\ \A i \in 1 .. 7 : CreateMaterials[i].part = "materials"
    /\ CreateMaterials[1].op = "capture"
    /\ CreateMaterials[2].op = "make" /\ CreateMaterials[2].arg = "mroot"
    /\ CreateMaterials[3].op = "make" /\ CreateMaterials[3].arg = "copy"
    /\ CreateMaterials[4].op = "copies" /\ CreateMaterials[5].op = "check"
    /\ CreateMaterials[6].op = "copies"
    /\ CreateMaterials[7].op = "own" /\ CreateMaterials[7].arg = "materials"
<1> DEFINE C == EarlyOps \X Args
           c == << CaptureMaterial, <<"make", "mroot">>, <<"make", "copy">>, RecordCopies,
                   VerifySources, CallVerifyCopies, <<"own", "materials">> >>
<1>1. /\ CaptureMaterial \in C /\ <<"make", "mroot">> \in C /\ <<"make", "copy">> \in C
      /\ RecordCopies \in C /\ VerifySources \in C /\ CallVerifyCopies \in C /\ <<"own", "materials">> \in C
  BY DEF CaptureMaterial, VerifySources, CallVerifyCopies, RecordCopies, EarlyOps, Args, Sources,
         Paths, Dirs, Files, Owners
<1> HIDE DEF C
<1>2. c \in Seq(C) /\ Len(c) = 7
  BY <1>1
<1>3. /\ c[1][1] = "capture" /\ c[2][1] = "make" /\ c[2][2] = "mroot" /\ c[3][1] = "make"
      /\ c[3][2] = "copy" /\ c[4][1] = "copies" /\ c[5][1] = "check" /\ c[6][1] = "copies"
      /\ c[7][1] = "own" /\ c[7][2] = "materials"
  BY DEF CaptureMaterial, VerifySources, CallVerifyCopies, RecordCopies
<1> DEFINE p == Part("materials", c)
<1>4. p = CreateMaterials
  BY DEF CreateMaterials
<1> HIDE DEF c
<1>5. List(EarlyOps, c, 7) /\ "materials" \in Parts
  BY <1>2 DEF List, C, Parts
<1>6. Spelt(EarlyOps, p, 7) /\ \A i \in 1 .. 7 : p[i] = Entry(c[i], "materials")
  BY <1>5, PartIs
<1> HIDE DEF p
<1>7. \A i \in 1 .. 7 : p[i].op = c[i][1] /\ p[i].arg = c[i][2] /\ p[i].part = "materials"
  BY <1>6 DEF Entry
<1> QED
  BY <1>3, <1>4, <1>6, <1>7

LEMMA CreateWorkspaceIs ==
    /\ Spelt(EarlyOps, CreateWorkspace, 6)
    /\ \A i \in 1 .. 6 : CreateWorkspace[i].part = "workspace"
    /\ \A i \in 1 .. 4 : CreateWorkspace[i].op = "make"
    /\ CreateWorkspace[1].arg = "root" /\ CreateWorkspace[2].arg = "configs"
    /\ CreateWorkspace[3].arg = "runtime" /\ CreateWorkspace[4].arg = "temp"
    /\ CreateWorkspace[5].op = "configs"
    /\ CreateWorkspace[6].op = "own" /\ CreateWorkspace[6].arg = "workspace"
<1> DEFINE C == EarlyOps \X Args
           c == << <<"make", "root">>, <<"make", "configs">>, <<"make", "runtime">>,
                   <<"make", "temp">>, CallVerifyConfigs, <<"own", "workspace">> >>
<1>1. /\ <<"make", "root">> \in C /\ <<"make", "configs">> \in C /\ <<"make", "runtime">> \in C
      /\ <<"make", "temp">> \in C /\ CallVerifyConfigs \in C /\ <<"own", "workspace">> \in C
  BY DEF CallVerifyConfigs, EarlyOps, Args, Paths, Dirs, Files, Owners
<1> HIDE DEF C
<1>2. c \in Seq(C) /\ Len(c) = 6
  BY <1>1
<1>3. /\ c[1][1] = "make" /\ c[2][1] = "make" /\ c[3][1] = "make" /\ c[4][1] = "make"
      /\ c[1][2] = "root" /\ c[2][2] = "configs" /\ c[3][2] = "runtime" /\ c[4][2] = "temp"
      /\ c[5][1] = "configs" /\ c[6][1] = "own" /\ c[6][2] = "workspace"
  BY DEF CallVerifyConfigs
<1> DEFINE p == Part("workspace", c)
<1>4. p = CreateWorkspace
  BY DEF CreateWorkspace
<1> HIDE DEF c
<1>5. List(EarlyOps, c, 6) /\ "workspace" \in Parts
  BY <1>2 DEF List, C, Parts
<1>6. Spelt(EarlyOps, p, 6) /\ \A i \in 1 .. 6 : p[i] = Entry(c[i], "workspace")
  BY <1>5, PartIs
<1> HIDE DEF p
<1>7. \A i \in 1 .. 6 : p[i].op = c[i][1] /\ p[i].arg = c[i][2] /\ p[i].part = "workspace"
  BY <1>6 DEF Entry
<1> QED
  BY <1>3, <1>4, <1>6, <1>7

LEMMA Widened ==
    ASSUME NEW A, NEW B, A \subseteq B, NEW s, NEW n \in Nat, Spelt(A, s, n)
    PROVE  Spelt(B, s, n) /\ \A i \in 1 .. n : s[i].op \in A
<1> DEFINE E == [op : A, arg : Args, part : Parts]
           F == [op : B, arg : Args, part : Parts]
<1>1. s \in Seq(E) /\ Len(s) = n
  BY DEF Spelt
<1>2. E \subseteq F /\ \A x \in E : x.op \in A
  OBVIOUS
<1> HIDE DEF E, F
<1>3. DOMAIN s = 1 .. n /\ \A i \in 1 .. n : s[i] \in E
  BY <1>1
<1>4. s = [i \in 1 .. n |-> s[i]]
  BY <1>1
<1>5. s \in Seq(F)
  BY <1>2, <1>3, <1>4
<1> QED
  BY <1>1, <1>2, <1>3, <1>5 DEF Spelt, F

LEMMA EarlySegments ==
    /\ \A i \in 1 .. 13 : Early[i].op \in LookOps
    /\ \A i \in 21 .. 24 : Early[i].op \in LookOps
    /\ \A i \in 1 .. 7 : Early[13 + i] = CreateMaterials[i]
    /\ \A i \in 1 .. 6 : Early[24 + i] = CreateWorkspace[i]
<1> DEFINE a == Preflight \o Candidate
           b == a \o CreateMaterials
           c == b \o PrepareReadAccess
           d == c \o CreateWorkspace
<1>1. LookOps \subseteq EarlyOps
  BY DEF LookOps, EarlyOps
<1>2. Spelt(LookOps, a, 13)
  <2>1. Spelt(LookOps, a, 6 + 7)
    BY EarlyLooks, Concat
  <2> HIDE DEF a
  <2> QED
    BY <2>1
<1> HIDE DEF a
<1>3. Spelt(EarlyOps, a, 13) /\ \A i \in 1 .. 13 : a[i].op \in LookOps
  BY <1>1, <1>2, Widened
<1>4. Spelt(EarlyOps, b, 13 + 7) /\ Joined(b, a, 13, CreateMaterials, 7)
  BY <1>3, CreateMaterialsIs, Concat
<1> HIDE DEF b
<1>5. Spelt(EarlyOps, PrepareReadAccess, 4) /\ \A i \in 1 .. 4 : PrepareReadAccess[i].op \in LookOps
  BY <1>1, EarlyLooks, Widened
<1>6. Spelt(EarlyOps, c, 20 + 4) /\ Joined(c, b, 20, PrepareReadAccess, 4)
  BY <1>4, <1>5, Concat
<1> HIDE DEF c
<1>7. Spelt(EarlyOps, d, 24 + 6) /\ Joined(d, c, 24, CreateWorkspace, 6)
  BY <1>6, CreateWorkspaceIs, Concat
<1>8. Early = d
  BY DEF Early, a, b, c, d
<1> HIDE DEF d
<1>9. \A i \in 1 .. 13 : Early[i] = a[i]
  BY <1>4, <1>6, <1>7, <1>8 DEF Joined
<1>10. \A i \in 1 .. 7 : Early[13 + i] = CreateMaterials[i]
  BY <1>4, <1>6, <1>7, <1>8 DEF Joined
<1>11. \A i \in 1 .. 4 : Early[20 + i] = PrepareReadAccess[i]
  BY <1>6, <1>7, <1>8 DEF Joined
<1>12. ASSUME NEW i \in 21 .. 24 PROVE Early[i].op \in LookOps
  <2>1. i - 20 \in 1 .. 4 /\ 20 + (i - 20) = i
    OBVIOUS
  <2> QED
    BY <1>5, <1>11, <2>1
<1> QED
  BY <1>3, <1>7, <1>8, <1>9, <1>10, <1>12 DEF Joined

\* The paths that are made and the owners that are handed over, with their places.
MadeAt == {<<15, "mroot">>, <<16, "copy">>, <<25, "root">>, <<26, "configs">>, <<27, "runtime">>,
           <<28, "temp">>, <<32, "haproxy.conf">>, <<33, "nginx.conf">>}

HandedAt == {<<20, "materials">>, <<30, "workspace">>}

CleanedAt == {<<55, "workspace">>, <<56, "materials">>}

LEMMA PartsAt ==
    /\ \A i \in 14 .. 20 : Script[i].part = "materials"
    /\ \A i \in 25 .. 30 : Script[i].part = "workspace"
    /\ \A i \in 38 .. 46 : Script[i].part = "worker"
    /\ \A i \in 47 .. 69 : Script[i].part = "none"
<1>1. ASSUME NEW i \in 14 .. 20 PROVE Script[i].part = "materials"
  <2>1. i - 13 \in 1 .. 7 /\ 13 + (i - 13) = i /\ i \in 1 .. 30
    OBVIOUS
  <2> QED
    BY <2>1, Segments, EarlySegments, CreateMaterialsIs
<1>2. ASSUME NEW i \in 25 .. 30 PROVE Script[i].part = "workspace"
  <2>1. i - 24 \in 1 .. 6 /\ 24 + (i - 24) = i /\ i \in 1 .. 30
    OBVIOUS
  <2> QED
    BY <2>1, Segments, EarlySegments, CreateWorkspaceIs
<1>3. ASSUME NEW i \in 38 .. 46 PROVE Script[i].part = "worker"
  <2>1. i - 37 \in 1 .. 9 /\ 2 + (i - 37) \in 1 .. 11 /\ 35 + (2 + (i - 37)) = i
    OBVIOUS
  <2> QED
    BY <2>1, Segments, WorkerIs
<1>4. ASSUME NEW i \in 47 .. 56 PROVE Script[i].part = "none"
  <2>1. i - 46 \in 1 .. 10 /\ 46 + (i - 46) = i
    OBVIOUS
  <2>2. \A j \in 1 .. 10 : Fences[j].part = "none"
    BY FencesIs, ZenonT(60)
  <2> QED
    BY <2>1, <2>2, Segments
<1>5. ASSUME NEW i \in 57 .. 61 PROVE Script[i].part = "none"
  <2>1. i - 56 \in 1 .. 5 /\ 56 + (i - 56) = i
    OBVIOUS
  <2> QED
    BY <2>1, Segments, ProofIs
<1>6. ASSUME NEW i \in 62 .. 69 PROVE Script[i].part = "none"
  <2>1. i - 61 \in 1 .. 8 /\ 61 + (i - 61) = i
    OBVIOUS
  <2> QED
    BY <2>1, Segments, CommitIs
<1>7. \A i \in 47 .. 69 : i \in 47 .. 56 \/ i \in 57 .. 61 \/ i \in 62 .. 69
  OBVIOUS
<1> QED
  BY <1>1, <1>2, <1>3, <1>4, <1>5, <1>6, <1>7

LEMMA EarlyEntries ==
    /\ \A i \in 1 .. 14 \cup 17 .. 19 \cup 21 .. 24 : Script[i].op \in LookOps
    /\ Script[15].op = "make" /\ Script[15].arg = "mroot"
    /\ Script[16].op = "make" /\ Script[16].arg = "copy"
    /\ Script[20].op = "own" /\ Script[20].arg = "materials"
    /\ Script[25].op = "make" /\ Script[25].arg = "root"
    /\ Script[26].op = "make" /\ Script[26].arg = "configs"
    /\ Script[27].op = "make" /\ Script[27].arg = "runtime"
    /\ Script[28].op = "make" /\ Script[28].arg = "temp"
    /\ Script[29].op = "configs"
    /\ Script[30].op = "own" /\ Script[30].arg = "workspace"
<1>1. /\ Script[13 + 1] = CreateMaterials[1] /\ Script[13 + 2] = CreateMaterials[2]
      /\ Script[13 + 3] = CreateMaterials[3] /\ Script[13 + 4] = CreateMaterials[4]
      /\ Script[13 + 5] = CreateMaterials[5] /\ Script[13 + 6] = CreateMaterials[6]
      /\ Script[13 + 7] = CreateMaterials[7]
  BY Segments, EarlySegments
<1>2. /\ Script[24 + 1] = CreateWorkspace[1] /\ Script[24 + 2] = CreateWorkspace[2]
      /\ Script[24 + 3] = CreateWorkspace[3] /\ Script[24 + 4] = CreateWorkspace[4]
      /\ Script[24 + 5] = CreateWorkspace[5] /\ Script[24 + 6] = CreateWorkspace[6]
  BY Segments, EarlySegments
<1>3. \A i \in 1 .. 13 : Script[i].op \in LookOps
  BY Segments, EarlySegments
<1>4. \A i \in 21 .. 24 : Script[i].op \in LookOps
  BY Segments, EarlySegments
<1>5. /\ Script[14].op = "capture" /\ Script[17].op = "copies" /\ Script[18].op = "check"
      /\ Script[19].op = "copies"
      /\ Script[15].op = "make" /\ Script[15].arg = "mroot"
      /\ Script[16].op = "make" /\ Script[16].arg = "copy"
      /\ Script[20].op = "own" /\ Script[20].arg = "materials"
  BY <1>1, CreateMaterialsIs
<1>6. /\ Script[25].op = "make" /\ Script[25].arg = "root"
      /\ Script[26].op = "make" /\ Script[26].arg = "configs"
      /\ Script[27].op = "make" /\ Script[27].arg = "runtime"
      /\ Script[28].op = "make" /\ Script[28].arg = "temp"
      /\ Script[29].op = "configs"
      /\ Script[30].op = "own" /\ Script[30].arg = "workspace"
  BY <1>2, CreateWorkspaceIs
<1>7. \A i \in 1 .. 14 \cup 17 .. 19 \cup 21 .. 24 : Script[i].op \in LookOps
  <2>1. \A i \in 1 .. 14 \cup 17 .. 19 \cup 21 .. 24 :
           i \in 1 .. 13 \/ i = 14 \/ i = 17 \/ i = 18 \/ i = 19 \/ i \in 21 .. 24
    OBVIOUS
  <2> QED
    BY <1>3, <1>4, <1>5, <2>1 DEF LookOps
<1> QED
  BY <1>5, <1>6, <1>7

LEMMA Makings ==
    ASSUME NEW i \in 1 .. 69
    PROVE  /\ Script[i].op = "make" => <<i, Script[i].arg>> \in MadeAt
           /\ Script[i].op = "own" <=> i \in {20, 30}
           /\ Script[i].op = "own" => <<i, Script[i].arg>> \in HandedAt
           /\ Script[i].op = "clean" => <<i, Script[i].arg>> \in CleanedAt
<1>1. CASE i \in 1 .. 14 \cup 17 .. 19 \cup 21 .. 24
  BY <1>1, EarlyEntries DEF LookOps
<1>2. CASE i \in {15, 16, 20, 25, 26, 27, 28, 29, 30}
  BY <1>2, EarlyEntries DEF MadeAt, HandedAt
<1>3. CASE i \in {32, 33, 55, 56}
  <2>1. /\ Script[30 + 2] = WriteConfigs[2] /\ Script[30 + 3] = WriteConfigs[3]
        /\ Script[46 + 9] = Fences[9] /\ Script[46 + 10] = Fences[10]
    BY Segments
  <2>2. /\ Script[32].op = "make" /\ Script[32].arg = "haproxy.conf"
        /\ Script[33].op = "make" /\ Script[33].arg = "nginx.conf"
    BY <2>1, WriteConfigsIs
  <2>3. /\ Script[55].op = "clean" /\ Script[55].arg = "workspace"
        /\ Script[56].op = "clean" /\ Script[56].arg = "materials"
    <3>1. /\ Fences[9].op = "clean" /\ Fences[10].op = "clean"
          /\ Fences[9].arg = "workspace" /\ Fences[10].arg = "materials"
      BY FencesIs, ZenonT(60)
    <3>2. Script[55] = Fences[9] /\ Script[56] = Fences[10]
      BY <2>1
    <3> QED
      BY <3>1, <3>2
  <2> QED
    BY <1>3, <2>2, <2>3 DEF MadeAt, CleanedAt
<1>4. CASE i = 31 \/ i \in 34 .. 54 \/ i \in 57 .. 69
  <2>1. CallAt(Script[i].op, i)
    BY Places
  <2>2. Script[i].op \notin {"make", "clean"} \/ i = 31
    BY <1>4, <2>1 DEF CallAt
  <2>3. Script[i].op # "own"
    BY <1>4, <2>1 DEF CallAt
  <2>4. Script[31].op = "configs"
    BY ScriptIs, ZenonT(60)
  <2> QED
    BY <1>4, <2>2, <2>3, <2>4
<1>5. \/ i \in 1 .. 14 \cup 17 .. 19 \cup 21 .. 24 \/ i \in {15, 16, 20, 25, 26, 27, 28, 29, 30}
      \/ i \in {32, 33, 55, 56} \/ i = 31 \/ i \in 34 .. 54 \/ i \in 57 .. 69
  OBVIOUS
<1> QED
  BY <1>1, <1>2, <1>3, <1>4, <1>5

-----------------------------------------------------------------------------
(* A run of the script. *)

\* The run may still commit.
On == mode = "run" \/ (mode = "clean" /\ clean.then = "script")

Place ==
    /\ at \in 1 .. 70
    /\ "then" \in DOMAIN clean
    /\ mode = "clean" => clean.then \in {"script", "finally", "next"}
    /\ mode = "clean" /\ clean.then = "script" => at \in {55, 56}

\* Processes exist only between the spawn and the reap.
Group == procs # {} => mode = "run" /\ at \in 39 .. 46

GroupInv == Place /\ Group

-----------------------------------------------------------------------------

LEMMA FailLeaves ==
    ASSUME Fail
    PROVE  /\ at' = at /\ ~On' /\ (mode' = "clean" => clean'.then = "finally")
           /\ "then" \in DOMAIN clean'
  BY DEF Fail, On, Idle

LEMMA CleanFailsLeaves ==
    ASSUME Place, mode = "clean", CleanFails
    PROVE  at' = at /\ mode' = "finally" /\ "then" \in DOMAIN clean'
  BY DEF Place, CleanFails, Idle

LEMMA CleanEndsLeaves ==
    ASSUME Place, mode = "clean", CleanEnds
    PROVE  /\ \/ at' = at /\ mode' = "finally"
              \/ clean.then = "script" /\ at' = at + 1 /\ mode' = "run"
           /\ "then" \in DOMAIN clean'
  BY DEF Place, CleanEnds, Idle

LEMMA HereIs ==
    ASSUME Place, NEW op, Here(op) PROVE mode = "run" /\ at \in 1 .. 69 /\ op = Script[at].op
<1>1. Len(Script) = 69
  BY ScriptIs, ZenonT(60) DEF Spelt
<1> QED
  BY <1>1 DEF Here, Place

LEMMA HerePlaces == ASSUME Place, NEW op, Here(op) PROVE CallAt(op, at)
  BY HereIs, Places

LEMMA HereAt ==
    ASSUME Place
    PROVE  /\ Here("written") => at = 34
           /\ Here("spawn") => at = 38
           /\ Here("start") => at = 41
           /\ Here("probe") => at = 42
           /\ Here("stop") => at = 45
           /\ Here("reap") => at = 46
           /\ Here("clean") => at \in {55, 56}
  BY HerePlaces DEF CallAt

LEMMA HereEarly ==
    ASSUME Place
    PROVE  /\ Here("capture") \/ Here("own") => at <= 30
           /\ Here("make") => at <= 33
           /\ Here("copies") => at <= 30 \/ at \in {37, 48, 50}
           /\ Here("configs") => at <= 36 \/ at \in {39, 43, 47}
           /\ Here("check") => at <= 30 \/ at \in {40, 44, 49} \/ at >= 51
  BY HerePlaces DEF CallAt

LEMMA LastPlace == Len(Script) = 69
  BY ScriptIs, ZenonT(60) DEF Spelt

-----------------------------------------------------------------------------
(* Where a run is, and when there are processes. *)

\* A step of the script: it fails, without processes, or goes on.
Goes ==
    /\ mode = "run" /\ at \in 1 .. 69
    /\ \/ Fail /\ procs' \in {procs, {}} /\ (procs' # {} => at \notin 39 .. 46)
       \/ at' = at + 1 /\ mode' = "run" /\ clean' = clean /\ procs' \in {procs, {}}
          /\ (procs' # {} => at \in 39 .. 45 \/ at \notin 39 .. 46)

LEMMA GoesKeeps == ASSUME GroupInv, Goes PROVE GroupInv'
  BY FailLeaves DEF GroupInv, Place, Group, Goes, On

LEMMA GroupStep == ASSUME GroupInv, [Next]_vars PROVE GroupInv'
<1> USE DEF GroupInv
<1>1. CASE Capture \/ Check \/ Make \/ Hand \/ Copies \/ VerifyConfigs \/ Written
  <2>1. Goes
    <3>1. CASE Capture
      BY <3>1, HereIs, HerePlaces DEF CallAt, Capture, Pass, Goes
    <3>2. CASE Check
      BY <3>2, HereIs, HerePlaces DEF CallAt, Check, Ask, Pass, Goes
    <3>3. CASE Make
      BY <3>3, HereIs, HerePlaces DEF CallAt, Make, Pass, Goes
    <3>4. CASE Hand
      BY <3>4, HereIs, HerePlaces DEF CallAt, Hand, Pass, Goes
    <3>5. CASE Copies
      BY <3>5, HereIs, HerePlaces DEF CallAt, Copies, Ask, Pass, Goes
    <3>6. CASE VerifyConfigs
      BY <3>6, HereIs, HerePlaces DEF CallAt, VerifyConfigs, Ask, Pass, Goes
    <3>7. CASE Written
      BY <3>7, HereIs, HerePlaces DEF CallAt, Written, Ask, Pass, Goes
    <3> QED
      BY <1>1, <3>1, <3>2, <3>3, <3>4, <3>5, <3>6, <3>7
  <2> QED
    BY <2>1, GoesKeeps
<1>2. CASE Spawn
  <2>1. at = 38 /\ mode = "run" /\ at' = 39 /\ mode' = "run" /\ clean' = clean
    BY <1>2, HereAt DEF Spawn, Pass, Here
  <2> QED
    BY <2>1 DEF Place, Group
<1>3. CASE Start
  <2>1. at = 41 /\ mode = "run"
    BY <1>3, HereAt DEF Start, Here
  <2> QED
    BY <1>3, <2>1, FailLeaves DEF Start, Pass, Place, Group, On
<1>4. CASE Probe
  <2>1. at = 42 /\ mode = "run" /\ at' = 43 /\ mode' = "run" /\ clean' = clean
    BY <1>4, HereAt DEF Probe, Pass, Here
  <2> QED
    BY <2>1 DEF Place, Group
<1>5. CASE Stop
  <2>1. at = 45 /\ mode = "run" /\ at' = 46 /\ mode' = "run" /\ clean' = clean
    BY <1>5, HereAt DEF Stop, Here
  <2> QED
    BY <2>1 DEF Place, Group
<1>6. CASE Reap
  <2>1. at = 46 /\ mode = "run" /\ procs' = {}
    BY <1>6, HereAt DEF Reap, Here
  <2> QED
    BY <1>6, <2>1, FailLeaves DEF Reap, Pass, Place, Group, On
<1>7. CASE CleanStep
  <2>1. /\ at \in {55, 56} /\ mode = "run" /\ procs' = procs /\ at' = at
        /\ mode' = "clean" /\ clean'.then = "script" /\ "then" \in DOMAIN clean'
    BY <1>7, HereAt DEF CleanStep, Here
  <2> QED
    BY <2>1 DEF Place, Group
<1>8. CASE CommitRun \/ NextOwner
  <2>1. CASE CommitRun
    <3>1. at = 70 /\ at' = 70 /\ mode' = "ended" /\ procs' = procs /\ clean' = clean
      BY <2>1, LastPlace DEF CommitRun
    <3> QED
      BY <3>1 DEF Place, Group
  <2>2. CASE NextOwner
    BY <2>2 DEF NextOwner, Place, Group
  <2> QED
    BY <1>8, <2>1, <2>2
<1>9. CASE Inspect \/ CleanFault \/ \E p \in Paths : Delete(p) \/ Unlink(p)
  <2>1. CASE Inspect
    <3>1. mode = "clean" /\ procs' = procs
      BY <2>1 DEF Inspect, Cleaning
    <3>2. \/ /\ at' = at /\ mode' = mode /\ clean'.then = clean.then
             /\ "then" \in DOMAIN clean'
          \/ at' = at /\ mode' = "finally" /\ "then" \in DOMAIN clean'
      <4>1. CASE Inspected(clean.of)
        BY <2>1, <4>1 DEF Inspect, Place
      <4>2. CASE ~Inspected(clean.of)
        BY <2>1, <4>2, <3>1, CleanFailsLeaves DEF Inspect
      <4> QED
        BY <4>1, <4>2
    <3> QED
      BY <3>1, <3>2 DEF Place, Group
  <2>2. CASE CleanFault
    BY <2>2, CleanFailsLeaves DEF CleanFault, Place, Group
  <2>3. ASSUME NEW p \in Paths, Delete(p) PROVE GroupInv'
    BY <2>3, CleanFailsLeaves DEF Delete, Cleaning, Place, Group
  <2>4. ASSUME NEW p \in Paths, Unlink(p) PROVE GroupInv'
    BY <2>4, CleanFailsLeaves, CleanEndsLeaves DEF Unlink, Gone, Cleaning, Place, Group
  <2> QED
    BY <1>9, <2>1, <2>2, <2>3, <2>4
<1>10. CASE Fault \/ MakeTorn
  <2>1. CASE Fault
    BY <2>1, FailLeaves DEF Fault, Place, Group, On
  <2>2. CASE MakeTorn
    BY <2>2, HereIs, HerePlaces, FailLeaves DEF CallAt, MakeTorn, Place, Group, On
  <2> QED
    BY <1>10, <2>1, <2>2
<1>11. CASE \/ RuntimeFile \/ UNCHANGED vars
            \/ \E s \in Sources : Drift(s)
            \/ \E p \in Paths : Tamper(p)
  <2>1. UNCHANGED <<control, procs>>
    BY <1>11 DEF RuntimeFile, vars, Drift, Tamper
  <2> QED
    BY <2>1 DEF control, Place, Group
<1> QED
  BY <1>1, <1>2, <1>3, <1>4, <1>5, <1>6, <1>7, <1>8, <1>9, <1>10, <1>11 DEF Next, Step

LEMMA InitGroup == Init => GroupInv
  BY DEF Init, GroupInv, Place, Group, Idle

(***************************************************************************)
(* Whatever happens while the worker runs: nothing is looked at or removed *)
(* in the private trees before every process of its group has ended.       *)
(***************************************************************************)
THEOREM GroupGone == Spec => []GroupGoneBeforeRemoval
<1>1. GroupInv /\ [Next]_vars => GroupInv'
  BY GroupStep
<1>2. GroupInv => GroupGoneBeforeRemoval
  BY DEF GroupInv, Group, GroupGoneBeforeRemoval
<1> QED
  BY InitGroup, <1>1, <1>2, PTL DEF Spec

-----------------------------------------------------------------------------
(* What the probes saw is what is committed. *)

Ready(p) == Own(p) /\ tree[p].stamp = 0

\* Versions are numbers and only grow; a file that was changed stays changed.
Ordered ==
    /\ now \in [Sources -> Nat] /\ held \in [Sources -> Nat] /\ tested \in [Sources -> Nat]
    /\ \A s \in Sources : held[s] <= now[s]
    /\ DOMAIN tree = Paths
    /\ \A p \in Paths : tree[p].stamp \in Nat /\ {"ino", "stamp"} \subseteq DOMAIN tree[p]

\* The configurations are written before the worker, and are looked at as written ones.
Recorded == On /\ at > 34 => written

Live == {"native", "users"}

\* From the probes on: backends and accounts were read live, all the rest as it was captured;
\* a copy or a configuration that was not in order then is found at the next look.
Probed ==
    On /\ at > 42 =>
        /\ \A s \in {"staged", "tools"} : tested[s] = held[s]
        /\ \A s \in Live : held[s] <= tested[s] /\ tested[s] <= now[s]
        /\ tested["routes"] = held["routes"] \/ (at <= 43 /\ ~\A p \in Configs : Ready(p))
        /\ tested["material"] = held["material"] \/ (at <= 48 /\ ~Ready("copy"))
        /\ at > 51 => tested["users"] = held["users"]
        /\ at > 52 => tested["native"] = held["native"]

\* The place of the last look at a source.
LastLook(s) ==
    CASE s = "routes" -> 62 [] s = "staged" -> 64 [] s = "material" -> 65
      [] s = "users" -> 66 [] s = "native" -> 67 [] s = "tools" -> 68

Looked == On => \A s \in Sources : at > LastLook(s) => now[s] = held[s] \/ s \in late

\* Nothing happens after the commit.
Final == outcome = "committed" => mode = "ended" /\ procs = {}

TestedInv ==
    GroupInv /\ Ordered /\ Recorded /\ Probed /\ Looked /\ Final /\ CommittedIsTested

LEMMA InitTested == Init => TestedInv
<1> SUFFICES ASSUME Init PROVE TestedInv
  OBVIOUS
<1>1. GroupInv /\ at = 1 /\ outcome = "none"
  BY InitGroup DEF Init
<1>2. Ordered
  BY DEF Init, Ordered
<1> QED
  BY <1>1, <1>2 DEF TestedInv, Recorded, Probed, Looked, LastLook, Sources, Final, CommittedIsTested

\* Looks that are made at the places that count.
LEMMA Looks ==
    /\ Script[43].part = "worker" /\ Script[51].arg = "users" /\ Script[52].arg = "native"
    /\ \A s \in Sources : Script[LastLook(s)].arg = s
<1>1. /\ Script[43].part = "worker" /\ Script[51].arg = "users" /\ Script[52].arg = "native"
      /\ Script[62].arg = "routes" /\ Script[64].arg = "staged" /\ Script[65].arg = "material"
      /\ Script[66].arg = "users" /\ Script[67].arg = "native" /\ Script[68].arg = "tools"
  BY ScriptIs, ZenonT(60)
<1> QED
  BY <1>1 DEF Sources, LastLook

(***************************************************************************)
(* A step of the script that goes on, with what it has made sure of where  *)
(* that counts; versions, what was captured and what was seen stay.        *)
(***************************************************************************)
Passes ==
    /\ On /\ On' /\ at \in 1 .. 69 /\ at # 42 /\ at' = at + 1
    /\ UNCHANGED <<now, held, tested, late>> /\ outcome' \in {outcome, "failed"}
    /\ at = 34 => written'
    /\ at > 34 => written' = written
    /\ at = 43 => \A p \in Configs : Ready(p)
    /\ at = 48 => Ready("copy")
    /\ at > 42 => \A p \in Configs \cup {"copy"} : Ready(p)' => Ready(p)
    /\ at \in {51, 52} \cup {LastLook(s) : s \in Sources} => now[Script[at].arg] = held[Script[at].arg]

LEMMA PassesKeeps ==
    ASSUME TestedInv, Passes PROVE Recorded' /\ Probed' /\ Looked' /\ Final' /\ CommittedIsTested'
<1> USE DEF TestedInv, Passes
<1>1. On /\ On' /\ at' = at + 1 /\ at \in 1 .. 69 /\ outcome # "committed"
  BY DEF On, Final
<1>2. Recorded'
  BY <1>1 DEF Recorded
<1>3. Probed'
  <2> SUFFICES ASSUME at > 42 PROVE Probed'
    BY <1>1 DEF Probed
  <2>1. \A s \in {"staged", "tools"} : tested[s] = held[s]
    BY <1>1 DEF Probed
  <2>2. \A s \in Live : held[s] <= tested[s] /\ tested[s] <= now[s]
    BY <1>1 DEF Probed
  <2>3. tested["routes"] = held["routes"]
    BY <1>1 DEF Probed
  <2>4. tested["material"] = held["material"] \/ (at < 48 /\ ~Ready("copy"))
    BY <1>1 DEF Probed
  <2>5. at >= 51 => tested["users"] = held["users"]
    BY <1>1, <2>2, Looks DEF Probed, Ordered, Sources, Live
  <2>6. at >= 52 => tested["native"] = held["native"]
    BY <1>1, <2>2, Looks DEF Probed, Ordered, Sources, Live
  <2>7. ~Ready("copy") => ~Ready("copy")'
    OBVIOUS
  <2> QED
    BY <1>1, <2>1, <2>2, <2>3, <2>4, <2>5, <2>6, <2>7 DEF Probed
<1>4. Looked'
  <2> SUFFICES ASSUME NEW s \in Sources, at + 1 > LastLook(s) PROVE now[s] = held[s] \/ s \in late
    BY <1>1 DEF Looked
  <2>1. CASE at > LastLook(s)
    BY <1>1, <2>1 DEF Looked
  <2>2. CASE at = LastLook(s)
    BY <2>2, Looks
  <2>3. LastLook(s) \in Nat
    BY DEF LastLook, Sources
  <2> QED
    BY <1>1, <2>1, <2>2, <2>3
<1> QED
  BY <1>1, <1>2, <1>3, <1>4 DEF Final, CommittedIsTested

\* A step that does not go on: the run stays where it is or can no longer commit.
Stays ==
    /\ On' => On /\ at' = at /\ written' = written
    /\ UNCHANGED <<now, held, tested, late>>
    /\ at > 42 => \A p \in Configs \cup {"copy"} : Ready(p)' => Ready(p)
    /\ outcome' = "committed" => outcome = "committed" /\ mode' = mode /\ procs' = procs

LEMMA StaysKeeps ==
    ASSUME TestedInv, Stays PROVE Recorded' /\ Probed' /\ Looked' /\ Final' /\ CommittedIsTested'
<1> USE DEF TestedInv, Stays
<1>1. Recorded'
  BY DEF Recorded
<1>2. Probed'
  <2> SUFFICES ASSUME On', at' > 42 PROVE Probed'
    BY DEF Probed
  <2>1. On /\ at' = at
    OBVIOUS
  <2>2. /\ ~Ready("copy") => ~Ready("copy")'
        /\ (~\A p \in Configs : Ready(p)) => (~\A p \in Configs : Ready(p))'
    BY <2>1
  <2> QED
    BY <2>1, <2>2 DEF Probed
<1>3. Looked'
  BY DEF Looked
<1> QED
  BY <1>1, <1>2, <1>3 DEF Final, CommittedIsTested

\* Trees change in ways that keep the stamps numbers.
LEMMA OrderedKeeps ==
    ASSUME Ordered, UNCHANGED <<now, held, tested>>,
           \/ tree' = tree
           \/ \E p \in Paths, i \in {"own", "none"} : tree' = [tree EXCEPT ![p] = [ino |-> i, stamp |-> 0]]
           \/ \E p \in Paths : tree' = [tree EXCEPT ![p].stamp = @ + 1]
           \/ \E p \in Paths : tree' = [tree EXCEPT ![p].ino = "alien"]
    PROVE  Ordered'
<1> USE DEF Ordered
<1>1. CASE tree' = tree
  BY <1>1
<1>2. ASSUME NEW p \in Paths, NEW i, tree' = [tree EXCEPT ![p] = [ino |-> i, stamp |-> 0]] PROVE Ordered'
  BY <1>2
<1>3. ASSUME NEW p \in Paths, tree' = [tree EXCEPT ![p].stamp = @ + 1] PROVE Ordered'
  BY <1>3
<1>4. ASSUME NEW p \in Paths, tree' = [tree EXCEPT ![p].ino = "alien"] PROVE Ordered'
  BY <1>4
<1> QED
  BY <1>1, <1>2, <1>3, <1>4

LEMMA MadeKeeps ==
    ASSUME Ordered, UNCHANGED <<now, held, tested>>, NEW a,
           tree' = [tree EXCEPT ![a] = [ino |-> "own", stamp |-> 0]]
    PROVE  Ordered'
  BY DEF Ordered

Keeps == Ordered' /\ Recorded' /\ Probed' /\ Looked' /\ Final' /\ CommittedIsTested'

\* Before the probes there is nothing to show.
LEMMA CaptureStep == ASSUME TestedInv, Capture PROVE Keeps
<1> USE DEF TestedInv
<1>1. at <= 30 /\ at \in 1 .. 69 /\ at' = at + 1 /\ mode = "run" /\ outcome' = outcome
  BY HereEarly, HereIs DEF Capture, Pass, GroupInv
<1>2. UNCHANGED <<now, tested, tree>> /\ held' = [held EXCEPT ![Arg] = now[Arg]]
  BY DEF Capture, trees
<1>3. Ordered'
  <2>1. PICK a : held' = [held EXCEPT ![a] = now[a]]
    BY <1>2
  <2>2. \A s \in Sources : held'[s] \in {held[s], now[s]}
    BY <2>1 DEF Ordered
  <2>3. held' \in [Sources -> Nat]
    BY <2>1 DEF Ordered
  <2>4. \A s \in Sources : held'[s] <= now[s]
    BY <2>2 DEF Ordered
  <2> QED
    BY <1>2, <2>3, <2>4 DEF Ordered
<1>4. Recorded' /\ Probed' /\ Looked'
  BY <1>1 DEF Recorded, Probed, Looked, LastLook, Sources
<1> QED
  BY <1>1, <1>3, <1>4 DEF Keeps, Final, CommittedIsTested

\* A look fails, or finds its source as it was captured.
LEMMA CheckStep == ASSUME TestedInv, Check PROVE Keeps
<1> USE DEF TestedInv, GroupInv
<1>1. /\ mode = "run" /\ at \in 1 .. 69 /\ (at <= 30 \/ at \in {40, 44, 49} \/ at >= 51)
  BY HereEarly, HereIs DEF Check
<1>2. UNCHANGED <<now, held, tested, late, tree, written>>
  BY DEF Check, sources, trees, records
<1>3. Ordered'
  BY <1>2, OrderedKeeps
<1>4. CASE now[Arg] = held[Arg]
  <2>1. Passes
    BY <1>1, <1>2, <1>4 DEF Check, Ask, Pass, Passes, On, Arg, Ready, Own
  <2> QED
    BY <1>3, <2>1, PassesKeeps DEF Keeps
<1>5. CASE now[Arg] # held[Arg]
  <2>1. Fail
    BY <1>5 DEF Check, Ask
  <2>2. Stays
    BY <1>1, <1>2, <2>1, FailLeaves DEF Stays, Fail, On, Ready, Own
  <2> QED
    BY <1>3, <2>2, StaysKeeps DEF Keeps
<1> QED
  BY <1>4, <1>5

LEMMA MakeStep == ASSUME TestedInv, Make PROVE Keeps
<1> USE DEF TestedInv, GroupInv
<1>1. mode = "run" /\ at \in 1 .. 69 /\ at <= 33
  BY HereEarly, HereIs DEF Make
<1>2. UNCHANGED <<now, held, tested, late, written>>
  BY DEF Make, sources
<1>3. CASE tree' = tree /\ Fail
  <2>1. Stays
    BY <1>1, <1>2, <1>3, FailLeaves DEF Stays, Fail, On
  <2> QED
    BY <1>2, <1>3, <2>1, StaysKeeps, OrderedKeeps DEF Keeps
<1>4. CASE tree' = [tree EXCEPT ![Arg] = [ino |-> "own", stamp |-> 0]] /\ Pass
  <2>1. Passes
    BY <1>1, <1>2, <1>4, Looks DEF Pass, Passes, On, LastLook, Sources
  <2>2. Ordered'
    BY <1>2, <1>4, MadeKeeps
  <2> QED
    BY <2>1, <2>2, PassesKeeps DEF Keeps
<1> QED
  BY <1>3, <1>4 DEF Make

LEMMA HandStep == ASSUME TestedInv, Hand PROVE Keeps
<1> USE DEF TestedInv, GroupInv
<1>1. mode = "run" /\ at \in 1 .. 69 /\ at <= 30
  BY HereEarly, HereIs DEF Hand
<1>2. UNCHANGED <<now, held, tested, late, tree, written>>
  BY DEF Hand, sources, trees, records
<1>3. Passes
  BY <1>1, <1>2 DEF Hand, Pass, Passes, On, LastLook, Sources
<1> QED
  BY <1>2, <1>3, PassesKeeps, OrderedKeeps DEF Keeps

\* The copy that the probes read is looked at once more after them.
LEMMA CopiesStep == ASSUME TestedInv, Copies PROVE Keeps
<1> USE DEF TestedInv, GroupInv
<1>1. mode = "run" /\ at \in 1 .. 69 /\ (at <= 30 \/ at \in {37, 48, 50})
  BY HereEarly, HereIs DEF Copies
<1>2. UNCHANGED <<now, held, tested, late, tree, written>>
  BY DEF Copies, sources, trees
<1>3. Ordered'
  BY <1>2, OrderedKeeps
<1>4. CASE Fail
  <2>1. Stays
    BY <1>1, <1>2, <1>4, FailLeaves DEF Stays, Fail, On, Ready, Own
  <2> QED
    BY <1>3, <2>1, StaysKeeps DEF Keeps
<1>5. CASE Pass /\ Ready("copy")
  <2>1. Passes
    BY <1>1, <1>2, <1>5 DEF Pass, Passes, On, Ready, Own, LastLook, Sources
  <2> QED
    BY <1>3, <2>1, PassesKeeps DEF Keeps
<1> QED
  BY <1>4, <1>5 DEF Copies, Ask, Ready

\* So are the configurations, which are there because they were written.
LEMMA ConfigsStep == ASSUME TestedInv, VerifyConfigs PROVE Keeps
<1> USE DEF TestedInv, GroupInv
<1>1. mode = "run" /\ at \in 1 .. 69 /\ (at <= 36 \/ at \in {39, 43, 47})
  BY HereEarly, HereIs DEF VerifyConfigs
<1>2. UNCHANGED <<now, held, tested, late, tree, written>>
  BY DEF VerifyConfigs, sources, trees
<1>3. Ordered'
  BY <1>2, OrderedKeeps
<1>4. CASE Fail
  <2>1. Stays
    BY <1>1, <1>2, <1>4, FailLeaves DEF Stays, Fail, On, Ready, Own
  <2> QED
    BY <1>3, <2>1, StaysKeeps DEF Keeps
<1>5. CASE Pass /\ (Script[at].part # "workspace" => Verified)
  <2>1. at = 43 => \A p \in Configs : Ready(p)
    BY <1>1, <1>5, Looks DEF Verified, Recorded, On, Ready
  <2>2. at # 34
    BY HereIs, HerePlaces DEF CallAt, VerifyConfigs
  <2>3. Passes
    BY <1>1, <1>2, <1>5, <2>1, <2>2 DEF Pass, Passes, On, Ready, Own, LastLook, Sources
  <2> QED
    BY <1>3, <2>3, PassesKeeps DEF Keeps
<1> QED
  BY <1>4, <1>5 DEF VerifyConfigs, Ask

LEMMA WrittenStep == ASSUME TestedInv, Written PROVE Keeps
<1> USE DEF TestedInv, GroupInv
<1>1. mode = "run" /\ at = 34
  BY HereAt, HereIs DEF Written
<1>2. UNCHANGED <<now, held, tested, late, tree>>
  BY DEF Written, sources, trees
<1>3. Ordered'
  BY <1>2, OrderedKeeps
<1>4. CASE Fail
  <2>1. mode' # "run" /\ ~On' /\ at' = at /\ outcome' = "failed"
    BY <1>4, FailLeaves DEF Fail, On
  <2> QED
    BY <1>3, <2>1 DEF Keeps, Recorded, Probed, Looked, Final, CommittedIsTested
<1>5. CASE Pass /\ written'
  <2>1. Passes
    BY <1>1, <1>2, <1>5 DEF Pass, Passes, On, LastLook, Sources
  <2> QED
    BY <1>3, <2>1, PassesKeeps DEF Keeps
<1> QED
  BY <1>4, <1>5 DEF Written, Ask

\* Spawn, Start, Stop and Reap look at nothing that the proof needs.
LEMMA WorkerSteps == ASSUME TestedInv, Spawn \/ Start \/ Stop \/ Reap PROVE Keeps
<1> USE DEF TestedInv, GroupInv
<1>1. mode = "run" /\ at \in {38, 41, 45, 46}
  <2>1. Here("spawn") \/ Here("start") \/ Here("stop") \/ Here("reap")
    BY DEF Spawn, Start, Stop, Reap
  <2> QED
    BY <2>1, HereAt DEF Here
<1>2. UNCHANGED <<now, held, tested, late, tree, written>>
  BY DEF Spawn, Start, Stop, Reap, sources, trees, records
<1>3. Ordered'
  BY <1>2, OrderedKeeps
<1>4. CASE Fail
  <2>1. Stays
    BY <1>1, <1>2, <1>4, FailLeaves DEF Stays, Fail, On, Ready, Own
  <2> QED
    BY <1>3, <2>1, StaysKeeps DEF Keeps
<1>5. CASE at' = at + 1 /\ mode' = mode /\ outcome' \in {outcome, "failed"}
  <2>1. Passes
    BY <1>1, <1>2, <1>5 DEF Passes, On, Ready, Own, LastLook, Sources
  <2> QED
    BY <1>3, <2>1, PassesKeeps DEF Keeps
<1> QED
  BY <1>4, <1>5 DEF Spawn, Start, Stop, Reap, Pass

LEMMA ProbeStep == ASSUME TestedInv, Probe PROVE Keeps
<1> USE DEF TestedInv, GroupInv
<1>1. at = 42 /\ mode = "run" /\ at' = 43 /\ mode' = "run" /\ outcome' = outcome
  BY HereAt DEF Probe, Pass, Here
<1>2. UNCHANGED <<now, held, late, tree, written>>
  BY DEF Probe, trees, records
<1>3. Nothing \in Nat
  BY BoundsAssumption DEF Nothing
<1>4. tested' = [s \in Sources |->
                    CASE s \in Live -> now[s]
                      [] s = "material" /\ ~Ready("copy") -> Nothing
                      [] s = "routes" /\ ~(\A p \in Configs : Ready(p)) -> Nothing
                      [] OTHER -> held[s]]
  BY DEF Probe, Live, Ready
<1>5. /\ \A s \in Live : tested'[s] = now[s]
      /\ \A s \in {"staged", "tools"} : tested'[s] = held[s]
      /\ tested'["material"] = held["material"] \/ ~Ready("copy")
      /\ tested'["routes"] = held["routes"] \/ ~\A p \in Configs : Ready(p)
  BY <1>4 DEF Live, Sources
<1>6. Ordered'
  <2>1. tested' \in [Sources -> Nat]
    BY <1>3, <1>4 DEF Ordered
  <2> QED
    BY <1>2, <2>1 DEF Ordered
<1>7. Recorded' /\ Looked'
  BY <1>1, <1>2 DEF Recorded, Looked, LastLook, Sources, On
<1>8. Probed'
  <2>1. UNCHANGED <<Ready("copy"), \A p \in Configs : Ready(p)>>
    BY <1>2 DEF Ready, Own
  <2>2. \A s \in Live : held'[s] <= tested'[s] /\ tested'[s] <= now'[s]
    BY <1>2, <1>5, <1>6 DEF Ordered, Live, Sources
  <2> QED
    BY <1>1, <1>2, <1>5, <2>1, <2>2 DEF Probed
<1> QED
  BY <1>1, <1>6, <1>7, <1>8 DEF Keeps, Final, CommittedIsTested

\* At the commit every source was looked at once more after the probes.
LEMMA CommitStep == ASSUME TestedInv, CommitRun PROVE Keeps
<1> USE DEF TestedInv, GroupInv
<1>1. mode = "run" /\ at = 70 /\ mode' = "ended"
  BY LastPlace DEF CommitRun
<1>2. UNCHANGED <<now, held, tested, late, tree, procs>>
  BY DEF CommitRun, sources, trees
<1>3. procs = {}
  BY <1>1 DEF Group
<1>4. \A s \in Sources : tested[s] = held[s]
  BY <1>1 DEF Probed, On, Sources, Live
<1>5. \A s \in Sources : now[s] = held[s] \/ s \in late
  BY <1>1 DEF Looked, On, LastLook, Sources
<1>6. CommittedIsTested'
  BY <1>2, <1>4, <1>5 DEF CommittedIsTested
<1> QED
  BY <1>1, <1>2, <1>3, <1>6, OrderedKeeps DEF Keeps, Recorded, Probed, Looked, Final, On

\* The two cleanups of the script, and those of a run that has failed.
LEMMA CleanupSteps ==
    ASSUME TestedInv, CleanStep \/ Inspect \/ CleanFault \/ NextOwner \/ \E p \in Paths : Delete(p) \/ Unlink(p)
    PROVE  Keeps
<1> USE DEF TestedInv, GroupInv
<1>1. UNCHANGED <<now, held, tested, late, written>>
  BY DEF CleanStep, Inspect, CleanFault, NextOwner, Delete, Unlink, sources, records
<1>2. CASE CleanStep
  <2>1. mode = "run" /\ tree' = tree
    BY <1>2, HereIs DEF CleanStep, trees
  <2>2. Stays
    BY <1>1, <1>2, <2>1 DEF CleanStep, Stays, On, Ready, Own, Final
  <2> QED
    BY <1>1, <2>1, <2>2, StaysKeeps, OrderedKeeps DEF Keeps
<1>3. CASE NextOwner
  <2>1. outcome # "committed" /\ tree' = tree
    BY <1>3 DEF NextOwner, Final, trees
  <2>2. Stays
    BY <1>1, <1>3, <2>1 DEF NextOwner, Stays, On, Ready, Own
  <2> QED
    BY <1>1, <2>1, <2>2, StaysKeeps, OrderedKeeps DEF Keeps
<1>4. CASE mode = "clean" /\ CleanFails /\ tree' = tree
  <2>1. at' = at /\ mode' = "finally"
    BY <1>4, CleanFailsLeaves
  <2>2. outcome' # "committed"
    BY <1>4 DEF CleanFails, Final, Place
  <2>3. Stays
    BY <1>1, <1>4, <2>1, <2>2 DEF Stays, On, Ready, Own
  <2> QED
    BY <1>1, <1>4, <2>3, StaysKeeps, OrderedKeeps DEF Keeps
<1>5. CASE Inspect
  <2>1. mode = "clean" /\ tree' = tree
    BY <1>5 DEF Inspect, Cleaning, trees
  <2>2. CASE Inspected(clean.of)
    <3>1. at' = at /\ mode' = mode /\ outcome' = outcome /\ clean'.then = clean.then
      BY <1>5, <2>2 DEF Inspect, Place
    <3>2. Stays
      BY <1>1, <2>1, <3>1 DEF Stays, On, Ready, Own, Final
    <3> QED
      BY <1>1, <2>1, <3>2, StaysKeeps, OrderedKeeps DEF Keeps
  <2> QED
    BY <1>4, <1>5, <2>1, <2>2 DEF Inspect
<1>6. CASE CleanFault
  BY <1>4, <1>6 DEF CleanFault, trees
<1>7. ASSUME NEW p \in Paths, Delete(p) PROVE Keeps
  <2>1. mode = "clean" /\ tree' = tree
    BY <1>7 DEF Delete, Cleaning, trees
  <2>2. CASE Deletable(p)
    <3>1. at' = at /\ mode' = mode /\ outcome' = outcome /\ clean'.then = clean.then
      BY <1>7, <2>2 DEF Delete, Place
    <3>2. Stays
      BY <1>1, <2>1, <3>1 DEF Stays, On, Ready, Own, Final
    <3> QED
      BY <1>1, <2>1, <3>2, StaysKeeps, OrderedKeeps DEF Keeps
  <2> QED
    BY <1>4, <1>7, <2>1, <2>2 DEF Delete
<1>8. ASSUME NEW p \in Paths, Unlink(p) PROVE Keeps
  <2>1. mode = "clean"
    BY <1>8 DEF Unlink, Cleaning
  <2>2. CASE Gone(p)
    <3>1. tree' = [tree EXCEPT ![p] = [ino |-> "none", stamp |-> 0]]
      BY <2>2 DEF Gone
    <3>2. Ordered'
      BY <1>1, <3>1, OrderedKeeps
    <3>3. \A q \in Paths : Ready(q)' => Ready(q)
      BY <3>1 DEF Ready, Own, Ordered
    <3>4. Configs \cup {"copy"} \subseteq Paths
      BY DEF Configs, Paths, Files
    <3>5. outcome' = outcome /\ outcome # "committed"
      BY <2>1, <2>2 DEF Gone, CleanEnds, Final
    <3>6. CASE at' = at /\ (mode' = "finally" \/ (mode' = mode /\ clean'.then = clean.then))
      <4>1. Stays
        BY <1>1, <3>3, <3>4, <3>5, <3>6 DEF Stays, On
      <4> QED
        BY <3>2, <4>1, StaysKeeps DEF Keeps
    <3>7. CASE clean.then = "script" /\ at' = at + 1 /\ mode' = "run"
      <4>1. at \in {55, 56}
        BY <2>1, <3>7 DEF Place
      <4>2. Passes
        BY <1>1, <2>1, <3>3, <3>4, <3>5, <3>7, <4>1 DEF Passes, On, LastLook, Sources
      <4> QED
        BY <3>2, <4>2, PassesKeeps DEF Keeps
    <3> QED
      BY <2>1, <2>2, <3>6, <3>7, CleanEndsLeaves DEF Gone, Place
  <2> QED
    BY <1>4, <1>8, <2>1, <2>2 DEF Unlink
<1> QED
  BY <1>2, <1>3, <1>5, <1>6, <1>7, <1>8

LEMMA FaultSteps == ASSUME TestedInv, Fault \/ MakeTorn PROVE Keeps
<1> USE DEF TestedInv, GroupInv
<1>1. UNCHANGED <<now, held, tested, late, written>> /\ Fail
  BY DEF Fault, MakeTorn, sources, records
<1>2. CASE Fault
  <2>1. tree' = tree /\ mode = "run"
    BY <1>2 DEF Fault, trees
  <2>2. Stays
    BY <1>1, <2>1, FailLeaves DEF Stays, Fail, On, Ready, Own
  <2> QED
    BY <1>1, <2>1, <2>2, StaysKeeps, OrderedKeeps DEF Keeps
<1>3. CASE MakeTorn
  <2>1. mode = "run" /\ at <= 33 /\ at \in 1 .. 69
    BY <1>3, HereEarly, HereIs DEF MakeTorn
  <2>2. Stays
    BY <1>1, <2>1, FailLeaves DEF Stays, Fail, On
  <2>3. Ordered'
    BY <1>1, <1>3, MadeKeeps DEF MakeTorn
  <2> QED
    BY <2>2, <2>3, StaysKeeps DEF Keeps
<1> QED
  BY <1>2, <1>3

\* A source that changes after its last look is late; one that the probes read live only grows.
LEMMA DriftStep == ASSUME TestedInv, NEW s \in Sources, Drift(s) PROVE Keeps
<1> USE DEF TestedInv, GroupInv
<1>1. UNCHANGED <<held, tested, at, mode, clean, outcome, tree, written, procs>> /\ outcome # "committed"
  BY DEF Drift, control, trees, records, Final
<1>2. now' = [now EXCEPT ![s] = @ + 1]
  BY DEF Drift
<1>3. \A x \in Sources : now'[x] \in Nat /\ now[x] <= now'[x] /\ (x # s => now'[x] = now[x])
  BY <1>2 DEF Ordered
<1>4. Ordered'
  <2>1. now' \in [Sources -> Nat]
    BY <1>2 DEF Ordered
  <2> QED
    BY <1>1, <1>3, <2>1 DEF Ordered
<1>5. Probed'
  <2>1. UNCHANGED <<On, Ready("copy"), \A p \in Configs : Ready(p)>>
    BY <1>1 DEF On, Ready, Own
  <2>2. \A x \in Live : held[x] <= now[x] /\ (tested[x] <= now[x] => tested[x] <= now'[x])
    BY <1>3 DEF Ordered, Live, Sources
  <2> QED
    BY <1>1, <2>1, <2>2 DEF Probed
<1>6. Looked'
  <2> SUFFICES ASSUME On, NEW x \in Sources, at > LastLook(x) PROVE now'[x] = held[x] \/ x \in late'
    BY <1>1 DEF Looked, On
  <2>1. late \subseteq late'
    BY DEF Drift
  <2>2. at > 62
    BY DEF LastLook, Sources, Place
  <2>3. s \in late'
    BY <2>2, LastPlace DEF Drift, LastRound, Place
  <2> QED
    BY <1>3, <2>1, <2>3 DEF Looked
<1> QED
  BY <1>1, <1>4, <1>5, <1>6 DEF Keeps, Recorded, Final, CommittedIsTested, On

LEMMA TamperStep == ASSUME TestedInv, NEW p \in Paths, Tamper(p) PROVE Keeps
<1> USE DEF TestedInv, GroupInv
<1>1. UNCHANGED <<now, held, tested, late, control, written, procs>>
  BY DEF Tamper, sources, records
<1>2. \/ tree' = tree
      \/ tree' = [tree EXCEPT ![p].stamp = @ + 1]
      \/ tree' = [tree EXCEPT ![p].ino = "alien"]
  BY DEF Tamper
<1>3. Ordered'
  BY <1>1, <1>2, OrderedKeeps
<1>4. \A q \in Paths : Ready(q)' => Ready(q)
  BY <1>2 DEF Ready, Own, Ordered
<1>5. Stays
  BY <1>1, <1>4 DEF Stays, control, On, Configs, Paths, Files
<1> QED
  BY <1>3, <1>5, StaysKeeps DEF Keeps

LEMMA RuntimeStep == ASSUME TestedInv, RuntimeFile PROVE Keeps
<1> USE DEF TestedInv, GroupInv
<1>1. UNCHANGED <<now, held, tested, late, control, written, procs>>
  BY DEF RuntimeFile, sources, records
<1>2. tree' = [tree EXCEPT !["nginx.pid"] = [ino |-> "own", stamp |-> 0]]
  BY DEF RuntimeFile
<1>3. Ordered'
  BY <1>1, <1>2, MadeKeeps
<1>4. \A q \in Configs \cup {"copy"} : Ready(q)' => Ready(q)
  BY <1>2 DEF Ready, Own, Ordered, Configs, Paths, Files
<1>5. Stays
  BY <1>1, <1>4 DEF Stays, control, On
<1> QED
  BY <1>3, <1>5, StaysKeeps DEF Keeps

LEMMA StutterStep == ASSUME TestedInv, UNCHANGED vars PROVE Keeps
<1>1. UNCHANGED <<now, held, tested, late, at, mode, clean, outcome, tree, written, procs>>
  BY DEF vars, sources, control, trees, records
<1>2. Stays
  BY <1>1 DEF Stays, On, Ready, Own
<1> QED
  BY <1>1, <1>2, StaysKeeps, OrderedKeeps DEF Keeps, TestedInv

LEMMA TestedStep == ASSUME TestedInv, [Next]_vars PROVE TestedInv'
<1>1. GroupInv'
  BY GroupStep DEF TestedInv
<1>2. Keeps
  BY CaptureStep, CheckStep, MakeStep, HandStep, CopiesStep, ConfigsStep, WrittenStep, WorkerSteps,
     ProbeStep, CommitStep, CleanupSteps, FaultSteps, DriftStep, TamperStep, RuntimeStep, StutterStep
     DEF Next, Step
<1> QED
  BY <1>1, <1>2 DEF TestedInv, Keeps

(***************************************************************************)
(* Whatever changes, is interfered with or fails, and however often: what  *)
(* is committed is what the probes ran with.                               *)
(***************************************************************************)
THEOREM TestedIsCommitted == Spec => []CommittedIsTested
<1>1. TestedInv /\ [Next]_vars => TestedInv'
  BY TestedStep
<1>2. TestedInv => CommittedIsTested
  BY DEF TestedInv
<1> QED
  BY InitTested, <1>1, <1>2, PTL DEF Spec

-----------------------------------------------------------------------------
(* What is left in the private trees, and what is said of it. *)

\* Versions and stamps are bounded by the changes so far.
Versions ==
    /\ DOMAIN bounds = {"drifts", "tampers", "faults"} /\ bounds.drifts \in Nat /\ bounds.tampers \in Nat
    /\ bounds.drifts <= MaxDrifts /\ bounds.tampers <= MaxTampers
    /\ now \in [Sources -> 0 .. bounds.drifts] /\ held \in [Sources -> 0 .. bounds.drifts]
    /\ tested \in [Sources -> 0 .. Nothing] /\ late \subseteq Sources
    /\ tree \in [Paths -> [ino : {"none", "own", "alien"}, stamp : 0 .. bounds.tampers]]

Shapes ==
    /\ alien \subseteq Dirs /\ created \subseteq Paths
    /\ owned \subseteq Owners /\ closed \subseteq Owners
    /\ DOMAIN remaining = Owners /\ \A o \in Owners : remaining[o] \subseteq created \cup {"nginx.pid"}
    /\ procs \subseteq {"worker", "haproxy", "nginx"}
    /\ outcome \in {"none", "failed", "cleanup", "committed"}

\* Whose turn it is: nobody's twice, and nobody's whose tree is gone.
InTurn(o) == \E i \in DOMAIN turn : turn[i] = o

Turns ==
    /\ turn \in {<<>>, <<"workspace">>, <<"materials">>, <<"workspace", "materials">>}
    /\ mode \in {"run", "clean", "finally", "ended"}
    /\ mode # "clean" => clean = Idle
    /\ mode = "clean" =>
         /\ DOMAIN clean = {"of", "step", "kind", "then"} /\ clean.of \in Owners \ closed
         /\ clean.then \in {"script", "finally", "next"}
    /\ On \/ (mode = "clean" /\ clean.then = "finally") => turn = <<>>
    /\ \A o \in Owners : InTurn(o) => o \in owned \ closed /\ (mode = "clean" => clean.of # o)

\* What is in a directory that is gone or somebody else's: nothing.
Trees ==
    /\ \A p \in Paths : tree[p].ino # "none" /\ Above(p) \in Dirs => Own(Above(p))
    /\ \A p \in Paths : Own(p) => OwnerOf(p) \notin closed

\* What a run that may still commit has recorded, handed over and removed at each place.
Progress ==
    On => /\ \A p \in Paths \ {"nginx.pid"} : Own(p) => p \in created
          /\ "mroot" \in created => at > 15
          /\ "root" \in created => at > 25
          /\ at > 20 => "materials" \in owned
          /\ at > 30 => "workspace" \in owned
          /\ at <= 55 => closed = {}
          /\ at = 56 => closed = {"workspace"}
          /\ at > 56 => closed = Owners
          /\ mode = "clean" => <<at, clean.of>> \in CleanedAt

\* What is left, and not handed over, is about to be removed or known to be there; what was handed
\* over has its turn, or its removal has failed.
Reported ==
    /\ ~On => \A p \in Paths : Own(p) /\ OwnerOf(p) \notin owned =>
                \/ OwnerOf(p) \in spoilt
                \/ mode = "clean" /\ clean.of = OwnerOf(p) /\ clean.then = "finally"
    /\ mode \in {"finally", "ended"} \/ (mode = "clean" /\ clean.then = "next") =>
         \A o \in owned \ closed : InTurn(o) \/ (mode = "clean" /\ clean.of = o) \/ outcome = "cleanup"
    /\ mode = "ended" => turn = <<>>
    /\ outcome = "cleanup" => mode \in {"finally", "ended"} \/ (mode = "clean" /\ clean.then = "next")

LeftInv == Versions /\ Shapes /\ Turns /\ Trees /\ Progress /\ Reported

-----------------------------------------------------------------------------

LEMMA OneByOneIs ==
    ASSUME NEW left
    PROVE  /\ OneByOne(left) \in {<<>>, <<"workspace">>, <<"materials">>, <<"workspace", "materials">>}
           /\ \A o \in Owners : (\E i \in DOMAIN OneByOne(left) : OneByOne(left)[i] = o) <=> o \in left
<1>1. CASE "workspace" \in left /\ "materials" \in left
  <2>1. OneByOne(left) = <<"workspace", "materials">>
    <3>1. <<"workspace">> \o <<"materials">> = <<"workspace", "materials">>
      <4> DEFINE u == <<"workspace">> \o <<"materials">>
      <4>1. u \in Seq(Owners) /\ Len(u) = 2 /\ u[1] = "workspace" /\ u[2] = "materials"
        BY DEF Owners
      <4> HIDE DEF u
      <4>2. u = [i \in 1 .. 2 |-> u[i]]
        BY <4>1
      <4>3. u = <<"workspace", "materials">>
        BY <4>1, <4>2
      <4> QED
        BY <4>3 DEF u
    <3> QED
      BY <1>1, <3>1 DEF OneByOne
  <2>2. DOMAIN <<"workspace", "materials">> = {1, 2}
    OBVIOUS
  <2> QED
    BY <1>1, <2>1, <2>2 DEF Owners
<1>2. CASE "workspace" \in left /\ "materials" \notin left
  <2>1. OneByOne(left) = <<"workspace">>
    BY <1>2 DEF OneByOne
  <2>2. DOMAIN <<"workspace">> = {1}
    OBVIOUS
  <2> QED
    BY <1>2, <2>1, <2>2 DEF Owners
<1>3. CASE "workspace" \notin left /\ "materials" \in left
  <2>1. OneByOne(left) = <<"materials">>
    BY <1>3 DEF OneByOne
  <2>2. DOMAIN <<"materials">> = {1}
    OBVIOUS
  <2> QED
    BY <1>3, <2>1, <2>2 DEF Owners
<1>4. CASE "workspace" \notin left /\ "materials" \notin left
  <2>1. OneByOne(left) = <<>>
    BY <1>4 DEF OneByOne
  <2> QED
    BY <1>4, <2>1 DEF Owners
<1> QED
  BY <1>1, <1>2, <1>3, <1>4

\* Where something is its owner's, the owner's root is too.
LEMMA RootThere ==
    ASSUME Trees, NEW p \in Paths, Own(p) PROVE Own(Root(OwnerOf(p)))
<1>1. \A q \in Paths : Own(q) /\ Above(q) \in Dirs => Own(Above(q))
  BY DEF Trees, Own
<1>2. /\ Own("configs") \/ Own("runtime") => Own("root")
      /\ Own("temp") \/ Own("nginx.pid") => Own("runtime")
      /\ Own("copy") => Own("mroot")
      /\ Own("haproxy.conf") \/ Own("nginx.conf") => Own("configs")
  BY <1>1 DEF Above, Paths, Dirs, Files
<1> QED
  BY <1>2 DEF OwnerOf, Root, Paths, Dirs, Files

\* With its root gone nothing of an owner is left.
LEMMA NothingUnder ==
    ASSUME Trees, NEW o \in Owners, Empty(Root(o)), NEW q \in Paths, OwnerOf(q) = o, q # Root(o)
    PROVE  ~Own(q)
<1>1. \A r \in Paths : Above(r) = Root(o) => tree[r].ino = "none"
  BY DEF Empty
<1>2. \A r \in Paths : tree[r].ino # "none" /\ Above(r) \in Dirs => Own(Above(r))
  BY DEF Trees
<1>3. /\ o = "workspace" => tree["configs"].ino = "none" /\ tree["runtime"].ino = "none"
      /\ o = "materials" => tree["copy"].ino = "none"
  BY <1>1 DEF Above, Root, Paths, Dirs, Files
<1>4. o = "workspace" => /\ ~Own("temp") /\ ~Own("nginx.pid")
                         /\ ~Own("haproxy.conf") /\ ~Own("nginx.conf")
  BY <1>2, <1>3 DEF Own, Above, Paths, Dirs, Files
<1> QED
  BY <1>3, <1>4 DEF Own, OwnerOf, Root, Owners, Paths, Dirs, Files

\* What is undone is the tree that is being made or written, before the worker.
LEMMA UndoesIs ==
    ASSUME at \in 1 .. 69
    PROVE  \/ Undoes = <<>>
           \/ /\ at <= 37 /\ Undoes[1] \in Owners /\ Undoes # <<>>
<1>1. Undoes # <<>> => Script[at].part \in {"materials", "access", "workspace", "write"}
  BY DEF Undoes
<1>2. at > 37 => Script[at].part \in {"worker", "none"}
  BY PartsAt
<1> QED
  BY <1>1, <1>2 DEF Undoes, Owners

-----------------------------------------------------------------------------
(* Kinds of steps *)

\* The run goes on: what it makes is recorded, and handed over in its place.
Onward ==
    /\ mode = "run" /\ at \in 1 .. 69 \ {55, 56} /\ at' = at + 1
    /\ UNCHANGED <<mode, clean, turn, closed>> /\ outcome' \in {outcome, "failed"}
    /\ owned \subseteq owned'
    /\ at = 20 => "materials" \in owned'
    /\ at = 30 => "workspace" \in owned'
    /\ \A p \in Paths \ {"nginx.pid"} : Own(p)' => p \in created'
    /\ "mroot" \in created' => "mroot" \in created \/ at = 15
    /\ "root" \in created' => "root" \in created \/ at = 25

LEMMA OnwardKeeps ==
    ASSUME LeftInv, Onward PROVE Turns' /\ Progress' /\ Reported'
<1> USE DEF LeftInv, Onward
<1>1. On /\ On' /\ turn = <<>> /\ outcome' # "cleanup"
  BY DEF On, Turns, Reported
<1>2. Turns'
  BY <1>1 DEF Turns, InTurn, On
<1>3. Progress'
  BY <1>1 DEF Progress
<1> QED
  BY <1>1, <1>2, <1>3 DEF Reported

\* What fails before it is handed over is undone.
LEMMA UndoesOwn ==
    ASSUME LeftInv, On, mode = "run", at \in 1 .. 69, NEW p \in Paths, Own(p), OwnerOf(p) \notin owned
    PROVE  Undoes # <<>> /\ Undoes[1] = OwnerOf(p)
<1> USE DEF LeftInv
<1>1. Own(Root(OwnerOf(p)))
  BY RootThere
<1>2. Root(OwnerOf(p)) \in created
  BY <1>1 DEF Progress, Root, Paths, Dirs
<1>3. CASE OwnerOf(p) = "materials"
  <2>1. at > 15 /\ at <= 20 /\ "mroot" \in created
    BY <1>2, <1>3 DEF Progress, Root
  <2>2. Script[at].part = "materials"
    BY <2>1, PartsAt
  <2> QED
    BY <1>3, <2>1, <2>2 DEF Undoes
<1>4. CASE OwnerOf(p) = "workspace"
  <2>1. at > 25 /\ at <= 30 /\ "root" \in created
    BY <1>2, <1>4 DEF Progress, Root
  <2>2. Script[at].part = "workspace"
    BY <2>1, PartsAt
  <2> QED
    BY <1>4, <2>1, <2>2 DEF Undoes
<1> QED
  BY <1>3, <1>4 DEF OwnerOf

\* The finally goes through every owner that is still there.
LEMMA FinallyTurns ==
    ASSUME LeftInv, UNCHANGED <<owned, closed>>, mode' = "finally", clean' = Idle, turn' = Finally
    PROVE  Turns' /\ \A o \in owned \ closed : InTurn(o)'
<1>1. /\ turn' \in {<<>>, <<"workspace">>, <<"materials">>, <<"workspace", "materials">>}
      /\ \A o \in Owners : InTurn(o)' <=> o \in owned \ closed
  BY OneByOneIs DEF Finally, InTurn
<1>2. \A o \in owned \ closed : InTurn(o)'
  BY <1>1 DEF LeftInv, Shapes
<1> QED
  BY <1>1, <1>2 DEF Turns, On

\* Whatever has its record or its root made before the failure is undone or has its turn.
LEMMA FailKeeps ==
    ASSUME LeftInv, mode = "run", at \in 1 .. 69, Fail, UNCHANGED <<owned, closed>>, spoilt \subseteq spoilt',
           \A p \in Paths : Own(p)' => Own(p) \/ OwnerOf(p) \in spoilt'
    PROVE  Turns' /\ Progress' /\ Reported'
<1> USE DEF LeftInv
<1>1. On /\ ~On' /\ outcome' = "failed" /\ mode' \in {"clean", "finally"}
  BY DEF Fail, On
<1>2. CASE Undoes # <<>>
  <2>1. /\ mode' = "clean" /\ turn' = <<>> /\ clean'.of = Undoes[1] /\ clean'.then = "finally"
        /\ DOMAIN clean' = {"of", "step", "kind", "then"}
    BY <1>2 DEF Fail
  <2>2. at <= 37 /\ Undoes[1] \in Owners
    BY <1>2, UndoesIs
  <2>3. closed = {}
    BY <1>1, <2>2 DEF Progress
  <2>4. Turns'
    <3>1. \A o \in Owners : ~InTurn(o)'
      BY <2>1 DEF InTurn
    <3> QED
      BY <1>1, <2>1, <2>2, <2>3, <3>1 DEF Turns
  <2>5. Reported'
    <3>1. ASSUME NEW p \in Paths, Own(p)', OwnerOf(p) \notin owned, OwnerOf(p) \notin spoilt'
          PROVE  clean'.of = OwnerOf(p)
      <4>1. Undoes[1] = OwnerOf(p)
        BY <1>1, <3>1, UndoesOwn
      <4> QED
        BY <2>1, <4>1
    <3> QED
      BY <1>1, <2>1, <3>1 DEF Reported
  <2> QED
    BY <1>1, <2>4, <2>5 DEF Progress
<1>3. CASE Undoes = <<>>
  <2>1. mode' = "finally" /\ clean' = Idle /\ turn' = Finally
    BY <1>3 DEF Fail
  <2>2. Turns'
    BY <1>1, <2>1, FinallyTurns
  <2>3. ASSUME NEW p \in Paths, Own(p)', OwnerOf(p) \notin owned PROVE OwnerOf(p) \in spoilt'
    BY <1>1, <1>3, <2>3, UndoesOwn
  <2>4. \A o \in owned \ closed : InTurn(o)'
    BY <2>1, FinallyTurns
  <2>5. Reported'
    BY <1>1, <2>1, <2>3, <2>4 DEF Reported
  <2> QED
    BY <1>1, <2>2, <2>5 DEF Progress
<1> QED
  BY <1>2, <1>3

\* A cleanup that fails leaves its owner where it is; what it could not undo is known.
LEMMA CleanFailsKeeps ==
    ASSUME LeftInv, mode = "clean", CleanFails, UNCHANGED <<owned, closed, tree>>
    PROVE  Turns' /\ Progress' /\ Reported'
<1> USE DEF LeftInv
<1>1. /\ mode' = "finally" /\ ~On' /\ clean' = Idle /\ spoilt \subseteq spoilt'
      /\ clean.then \in {"script", "finally", "next"} /\ clean.of \in Owners
      /\ clean.of \notin owned => clean.of \in spoilt'
  BY DEF CleanFails, Turns, On
<1>2. ASSUME NEW p \in Paths, Own(p), OwnerOf(p) \notin owned PROVE OwnerOf(p) \in spoilt'
  <2>1. CASE On
    <3>1. at \in {55, 56}
      BY <2>1 DEF Progress, CleanedAt
    <3>2. "materials" \in owned /\ "workspace" \in owned
      BY <2>1, <3>1 DEF Progress
    <3> QED
      BY <1>2, <3>2 DEF OwnerOf, Owners
  <2>2. CASE ~On
    BY <1>1, <1>2, <2>2 DEF Reported
  <2> QED
    BY <2>1, <2>2
<1>3. CASE clean.then \in {"script", "finally"}
  <2>1. turn' = Finally /\ outcome' \in {outcome, "failed"}
    BY <1>3 DEF CleanFails
  <2>2. Turns' /\ \A o \in owned \ closed : InTurn(o)'
    BY <1>1, <2>1, FinallyTurns
  <2> QED
    BY <1>1, <1>2, <2>1, <2>2 DEF Progress, Reported, Own
<1>4. CASE clean.then = "next"
  <2>1. turn' = turn /\ outcome' = "cleanup"
    BY <1>4 DEF CleanFails
  <2>2. Turns'
    BY <1>1, <2>1 DEF Turns, InTurn
  <2> QED
    BY <1>1, <1>2, <2>1, <2>2 DEF Progress, Reported, Own
<1> QED
  BY <1>1, <1>3, <1>4

\* A cleanup that removes the root leaves nothing.
LEMMA CleanEndsKeeps ==
    ASSUME LeftInv, Versions, mode = "clean", CleanEnds, UNCHANGED <<owned, created>>, Empty(Root(clean.of)),
           tree' = [tree EXCEPT ![Root(clean.of)] = [ino |-> "none", stamp |-> 0]]
    PROVE  Turns' /\ Trees' /\ Progress' /\ Reported'
<1> USE DEF LeftInv
<1> DEFINE o == clean.of
<1>1. /\ o \in Owners \ closed /\ closed' = closed \cup {o} /\ clean' = Idle
      /\ clean.then \in {"script", "finally", "next"}
      /\ UNCHANGED <<outcome, spoilt>> /\ Root(o) \in Paths
  BY DEF CleanEnds, Turns, Root, Paths, Dirs
<1>2. \A q \in Paths : tree'[q] = (IF q = Root(o) THEN [ino |-> "none", stamp |-> 0] ELSE tree[q])
  BY <1>1 DEF Versions
<1>3. \A q \in Paths : Own(q)' => Own(q) /\ OwnerOf(q) # o
  BY <1>1, <1>2, NothingUnder DEF Own
<1>4. Trees'
  <2>1. ASSUME NEW p \in Paths, tree'[p].ino # "none", Above(p) \in Dirs PROVE Own(Above(p))'
    <3>1. tree[p].ino # "none" /\ p # Root(o)
      BY <1>2, <2>1
    <3>2. Above(p) # Root(o)
      BY <3>1 DEF Empty
    <3>3. Own(Above(p)) /\ Above(p) \in Paths
      BY <2>1, <3>1 DEF Trees, Paths
    <3> QED
      BY <1>2, <3>2, <3>3 DEF Own
  <2> QED
    BY <1>1, <1>3, <2>1 DEF Trees
<1> HIDE DEF o
<1>5. CASE clean.then = "script"
  <2>1. On /\ mode' = "run" /\ at' = at + 1 /\ turn' = turn /\ turn = <<>>
    BY <1>5 DEF CleanEnds, On, Turns
  <2>2. Turns'
    BY <1>1, <2>1 DEF Turns, InTurn, On
  <2>3. \/ at = 55 /\ o = "workspace" /\ closed = {}
        \/ at = 56 /\ o = "materials" /\ closed = {"workspace"}
    BY <2>1 DEF Progress, CleanedAt, o
  <2>4. Progress'
    BY <1>1, <1>3, <2>1, <2>3 DEF Progress, Owners
  <2> QED
    BY <1>1, <1>4, <1>5, <2>1, <2>2, <2>4 DEF Reported, On
<1>6. CASE clean.then = "finally"
  <2>1. ~On /\ ~On' /\ mode' = "finally" /\ turn' = OneByOne((owned \ closed) \ {o})
    BY <1>6 DEF CleanEnds, On, o
  <2>2. /\ turn' \in {<<>>, <<"workspace">>, <<"materials">>, <<"workspace", "materials">>}
        /\ \A x \in Owners : InTurn(x)' <=> x \in (owned \ closed) \ {o}
    BY <2>1, OneByOneIs DEF InTurn
  <2>3. Turns'
    BY <1>1, <2>1, <2>2 DEF Turns
  <2>4. \A x \in owned' \ closed' : InTurn(x)'
    BY <1>1, <2>2 DEF Shapes
  <2>5. Reported'
    BY <1>1, <1>3, <2>1, <2>4 DEF Reported, o
  <2> QED
    BY <1>4, <2>1, <2>3, <2>5 DEF Progress
<1>7. CASE clean.then = "next"
  <2>1. ~On /\ ~On' /\ mode' = "finally" /\ turn' = turn
    BY <1>7 DEF CleanEnds, On
  <2>2. Turns'
    BY <1>1, <2>1 DEF Turns, InTurn, o
  <2>3. Reported'
    BY <1>1, <1>3, <1>7, <2>1 DEF Reported, InTurn, o
  <2> QED
    BY <1>4, <2>1, <2>2, <2>3 DEF Progress
<1> QED
  BY <1>1, <1>5, <1>6, <1>7

\* A step beside the control: nothing is made but the file of nginx, and that only in a run.
Aside ==
    /\ UNCHANGED <<at, mode, turn, outcome, owned, closed, created, spoilt>>
    /\ clean' = clean \/ (/\ DOMAIN clean' = DOMAIN clean /\ mode = "clean"
                          /\ clean'.of = clean.of /\ clean'.then = clean.then)
    /\ \A p \in Paths : Own(p)' => Own(p) \/ (p = "nginx.pid" /\ On)

LEMMA AsideKeeps == ASSUME LeftInv, Aside PROVE Turns' /\ Progress' /\ Reported'
<1> USE DEF LeftInv, Aside
<1>1. On' <=> On
  BY DEF On
<1>2. Turns'
  BY <1>1 DEF Turns, InTurn
<1>3. Progress'
  BY <1>1 DEF Progress
<1>4. Reported'
  BY <1>1 DEF Reported, InTurn
<1> QED
  BY <1>2, <1>3, <1>4

\* A tree changes where its shape allows it.
LEMMA TreesKeep ==
    ASSUME Trees, Versions, UNCHANGED closed,
           \/ tree' = tree
           \/ \E p \in Paths : \/ /\ tree' = [tree EXCEPT ![p] = [ino |-> "own", stamp |-> 0]]
                                  /\ Above(p) \in Dirs => Own(Above(p))
                                  /\ OwnerOf(p) \notin closed
                               \/ tree' = [tree EXCEPT ![p] = [ino |-> "none", stamp |-> 0]] /\ Empty(p)
                               \/ tree' = [tree EXCEPT ![p].stamp = @ + 1] /\ Own(p)
                               \/ tree' = [tree EXCEPT ![p].ino = "alien"] /\ Empty(p) /\ Own(p)
    PROVE  Trees'
<1>1. CASE tree' = tree
  BY <1>1 DEF Trees, Own
<1>2. ASSUME NEW p \in Paths, tree' = [tree EXCEPT ![p] = [ino |-> "own", stamp |-> 0]],
             Above(p) \in Dirs => Own(Above(p)), OwnerOf(p) \notin closed
      PROVE  Trees'
  <2>1. \A q \in Paths : tree'[q] = (IF q = p THEN [ino |-> "own", stamp |-> 0] ELSE tree[q])
    BY <1>2 DEF Versions
  <2>2. \A q \in Paths : Own(q)' <=> (q = p \/ Own(q))
    BY <2>1 DEF Own
  <2>3. Dirs \subseteq Paths
    BY DEF Paths
  <2> QED
    BY <1>2, <2>1, <2>2, <2>3 DEF Trees
<1>3. ASSUME NEW p \in Paths, NEW i, i # "own", Empty(p), tree[p].ino # "none" \/ i = "none",
             \A q \in Paths : tree'[q].ino = (IF q = p THEN i ELSE tree[q].ino)
      PROVE  Trees'
  <2>1. \A q \in Paths : tree'[q].ino = (IF q = p THEN i ELSE tree[q].ino)
    BY <1>3
  <2>2. \A q \in Paths : Own(q)' <=> (q # p /\ Own(q))
    BY <1>3, <2>1 DEF Own
  <2>3. Dirs \subseteq Paths
    BY DEF Paths
  <2>4. \A q \in Paths : Above(q) = p => tree[q].ino = "none"
    BY <1>3 DEF Empty
  <2>5. \A q \in Paths : tree'[q].ino # "none" => tree[q].ino # "none"
    BY <1>3, <2>1
  <2>6. ASSUME NEW q \in Paths, tree'[q].ino # "none", Above(q) \in Dirs PROVE Own(Above(q))'
    BY <2>2, <2>3, <2>4, <2>5, <2>6 DEF Trees
  <2> QED
    BY <1>3, <2>2, <2>6 DEF Trees
<1>4. ASSUME NEW p \in Paths, tree' = [tree EXCEPT ![p].stamp = @ + 1] PROVE Trees'
  <2>1. \A q \in Paths : tree'[q].ino = tree[q].ino
    BY <1>4 DEF Versions
  <2> QED
    BY <2>1 DEF Trees, Own, Paths
<1>5. ASSUME NEW p \in Paths, tree' = [tree EXCEPT ![p].ino = "alien"], Empty(p), Own(p) PROVE Trees'
  <2>1. \A q \in Paths : tree'[q].ino = (IF q = p THEN "alien" ELSE tree[q].ino)
    BY <1>5 DEF Versions
  <2> QED
    BY <1>3, <1>5, <2>1 DEF Own
<1>6. ASSUME NEW p \in Paths, tree' = [tree EXCEPT ![p] = [ino |-> "none", stamp |-> 0]], Empty(p) PROVE Trees'
  <2>1. \A q \in Paths : tree'[q].ino = (IF q = p THEN "none" ELSE tree[q].ino)
    BY <1>6 DEF Versions
  <2> QED
    BY <1>3, <1>6, <2>1
<1> QED
  BY <1>1, <1>2, <1>4, <1>5, <1>6

-----------------------------------------------------------------------------
(* Every step *)

Both == TestedInv /\ LeftInv

\* Versions grow within what is counted.
LEMMA VersionsKeep ==
    ASSUME Versions, UNCHANGED <<now, late>>,
           \/ UNCHANGED <<held, tested>>
           \/ \E s \in Sources : held' = [held EXCEPT ![s] = now[s]] /\ UNCHANGED tested
           \/ held' = held /\ tested' \in [Sources -> 0 .. Nothing],
           bounds' = bounds \/ Spend("faults"),
           \/ tree' = tree
           \/ \E p \in Paths, i \in {"own", "none"} : tree' = [tree EXCEPT ![p] = [ino |-> i, stamp |-> 0]]
    PROVE  Versions'
<1> USE DEF Versions
<1>1. /\ DOMAIN bounds' = {"drifts", "tampers", "faults"}
      /\ bounds'.drifts = bounds.drifts /\ bounds'.tampers = bounds.tampers
  BY DEF Spend
<1>2. /\ held' \in [Sources -> 0 .. bounds.drifts]
      /\ tested' \in [Sources -> 0 .. Nothing]
  OBVIOUS
<1>3. tree' \in [Paths -> [ino : {"none", "own", "alien"}, stamp : 0 .. bounds.tampers]]
  <2>1. ASSUME NEW p \in Paths, NEW i \in {"own", "none"}, tree' = [tree EXCEPT ![p] = [ino |-> i, stamp |-> 0]]
        PROVE  tree' \in [Paths -> [ino : {"none", "own", "alien"}, stamp : 0 .. bounds.tampers]]
    <3>1. 0 \in 0 .. bounds.tampers
      OBVIOUS
    <3>2. [ino |-> i, stamp |-> 0] \in [ino : {"none", "own", "alien"}, stamp : 0 .. bounds.tampers]
      BY <3>1
    <3> QED
      BY <2>1, <3>2
  <2> QED
    BY <2>1
<1> QED
  BY <1>1, <1>2, <1>3

LEMMA InitLeft == Init => LeftInv
<1> SUFFICES ASSUME Init PROVE LeftInv
  OBVIOUS
<1>1. Versions
  <2>1. 0 \in 0 .. 0 /\ 0 \in 0 .. Nothing /\ 0 <= MaxDrifts /\ 0 <= MaxTampers
    BY BoundsAssumption DEF Nothing
  <2>2. bounds.drifts = 0 /\ bounds.tampers = 0 /\ DOMAIN bounds = {"drifts", "tampers", "faults"}
    BY DEF Init
  <2> QED
    BY <2>1, <2>2 DEF Init, Versions
<1>2. \A p \in Paths : ~Own(p) /\ tree[p].ino = "none"
  BY DEF Init, Own
<1>3. Shapes
  BY DEF Init, Shapes, Owners
<1>4. Turns
  BY DEF Init, Turns, InTurn
<1> QED
  BY <1>1, <1>2, <1>3, <1>4 DEF Init, LeftInv, Trees, Progress, Reported, On

\* The looks, the hand-over and the worker: the trees stay.
LEMMA LookStep ==
    ASSUME Both, Capture \/ Check \/ Hand \/ Copies \/ VerifyConfigs \/ Written
    PROVE  LeftInv'
<1> USE DEF Both, LeftInv, TestedInv, GroupInv
<1>1. mode = "run" /\ at \in 1 .. 69 /\ at \notin {55, 56}
  <2>1. PICK op : op # "clean" /\ Here(op)
    BY DEF Capture, Check, Hand, Copies, VerifyConfigs, Written
  <2> QED
    BY <2>1, HereIs, HerePlaces DEF CallAt
<1>2. UNCHANGED <<now, tested, late, tree, alien, created, closed, remaining, spoilt, bounds>>
  BY DEF Capture, Check, Hand, Copies, VerifyConfigs, Written, sources, trees, records, owners, history
<1>3. Versions'
  <2>1. held' = held \/ \E s \in Sources : held' = [held EXCEPT ![s] = now[s]]
    <3>1. CASE Capture
      <4>1. held' = [held EXCEPT ![Arg] = now[Arg]]
        BY <3>1 DEF Capture
      <4>2. CASE Arg \in Sources
        BY <4>1, <4>2
      <4>3. CASE Arg \notin Sources
        <5>1. held' = held
          BY <4>1, <4>3 DEF Versions
        <5> QED
          BY <5>1
      <4> QED
        BY <4>2, <4>3
    <3> QED
      BY <3>1 DEF Check, Hand, Copies, VerifyConfigs, Written, sources
  <2> QED
    BY <1>2, <2>1, VersionsKeep
<1>4. Trees'
  BY <1>2, TreesKeep
<1>5. Hand => Pass /\ procs' = procs
  BY DEF Hand
<1>6. CASE Fail /\ ~Pass
  <2>1. ~Hand
    BY <1>5, <1>6
  <2>2. owned' = owned
    BY <2>1 DEF Capture, Check, Copies, VerifyConfigs, Written, owners
  <2>3. procs' \subseteq procs
    BY <2>1 DEF Capture, Check, Copies, VerifyConfigs, Written, Ask
  <2>4. Turns' /\ Progress' /\ Reported'
    BY <1>1, <1>2, <1>6, <2>2, FailKeeps DEF Own
  <2>5. Shapes'
    BY <1>2, <1>6, <2>2, <2>3 DEF Shapes, Fail
  <2> QED
    BY <1>3, <1>4, <2>4, <2>5
<1>7. CASE Pass
  <2>1. On
    BY <1>1 DEF On
  <2>2. \A p \in Paths \ {"nginx.pid"} : Own(p)' => p \in created'
    BY <1>2, <2>1 DEF Progress, Own
  <2>3. procs' \subseteq procs
    BY <1>5 DEF Capture, Check, Copies, VerifyConfigs, Written, Ask
  <2>4. /\ owned \subseteq owned' /\ owned' \subseteq Owners
        /\ at = 20 => "materials" \in owned'
        /\ at = 30 => "workspace" \in owned'
    <3>1. CASE Hand
      <4>1. <<at, Arg>> \in HandedAt
        BY <1>1, <3>1, HereIs, Makings DEF Hand, Arg
      <4>2. (at = 20 /\ Arg = "materials") \/ (at = 30 /\ Arg = "workspace")
        BY <4>1 DEF HandedAt
      <4>3. owned' = owned \cup {Arg} /\ owned \subseteq Owners
        BY <3>1 DEF Hand, Shapes
      <4>4. CASE at = 20 /\ Arg = "materials"
        BY <4>3, <4>4 DEF Owners
      <4>5. CASE at = 30 /\ Arg = "workspace"
        BY <4>3, <4>5 DEF Owners
      <4> QED
        BY <4>2, <4>4, <4>5
    <3>2. CASE ~Hand
      <4>1. owned' = owned
        BY <3>2 DEF Capture, Check, Copies, VerifyConfigs, Written, owners
      <4>2. PICK op : op # "own" /\ Here(op)
        BY <3>2 DEF Capture, Check, Copies, VerifyConfigs, Written
      <4>3. at \notin {20, 30}
        BY <4>2, HereIs, Makings
      <4> QED
        BY <4>1, <4>3 DEF Shapes
    <3> QED
      BY <3>1, <3>2
  <2>5. Onward
    BY <1>1, <1>2, <1>7, <2>2, <2>4 DEF Onward, Pass
  <2>6. Shapes'
    BY <1>2, <1>7, <2>3, <2>4 DEF Shapes, Pass
  <2> QED
    BY <1>3, <1>4, <2>5, <2>6, OnwardKeeps
<1> QED
  BY <1>6, <1>7 DEF Capture, Check, Hand, Copies, VerifyConfigs, Written, Ask

LEMMA MakeLeft == ASSUME Both, Make \/ MakeTorn PROVE LeftInv'
<1> USE DEF Both, LeftInv, TestedInv, GroupInv
<1>1. /\ mode = "run" /\ at \in 1 .. 69 /\ <<at, Arg>> \in MadeAt
  BY HereIs, Makings DEF Make, MakeTorn, Arg
<1>2. /\ at \in {15, 16, 25, 26, 27, 28, 32, 33} /\ Arg \in Paths
      /\ Arg = "mroot" <=> at = 15
      /\ Arg = "root" <=> at = 25
  BY <1>1 DEF MadeAt, Paths, Dirs, Files
<1>3. UNCHANGED <<now, held, tested, late, alien, owned, closed, remaining>>
  BY DEF Make, MakeTorn, sources, owners, history
<1>4. On /\ closed = {} /\ procs = {}
  BY <1>1, <1>2 DEF On, Progress, Group
<1>5. CASE Make /\ Fail /\ tree' = tree
  <2>1. UNCHANGED <<created, spoilt, procs, bounds>>
    BY <1>1, <1>5, FailLeaves DEF Make, Pass, On, history
  <2>2. Versions' /\ Trees'
    BY <1>3, <1>5, <2>1, VersionsKeep, TreesKeep
  <2>3. Turns' /\ Progress' /\ Reported'
    BY <1>1, <1>3, <1>5, <2>1, FailKeeps DEF Own
  <2>4. Shapes'
    BY <1>3, <1>5, <2>1 DEF Shapes, Fail
  <2> QED
    BY <2>2, <2>3, <2>4
<1>6. ASSUME tree' = [tree EXCEPT ![Arg] = [ino |-> "own", stamp |-> 0]], Above(Arg) \in Dirs => Own(Above(Arg)),
             bounds' = bounds \/ Spend("faults")
      PROVE  Versions' /\ Trees' /\ \A p \in Paths : Own(p)' <=> Own(p) \/ p = Arg
  <2>1. PICK a \in Paths : a = Arg
    BY <1>2
  <2>2. tree' = [tree EXCEPT ![a] = [ino |-> "own", stamp |-> 0]]
    BY <1>6, <2>1
  <2>3. Versions'
    BY <1>3, <1>6, <2>2, VersionsKeep
  <2>4. Trees'
    BY <1>3, <1>4, <1>6, <2>1, <2>2, TreesKeep
  <2>5. \A p \in Paths : Own(p)' <=> Own(p) \/ p = a
    BY <2>2 DEF Versions, Own
  <2> QED
    BY <2>1, <2>3, <2>4, <2>5
<1>7. CASE Make /\ Pass /\ tree' = [tree EXCEPT ![Arg] = [ino |-> "own", stamp |-> 0]]
  <2>1. /\ Above(Arg) \in Dirs => Own(Above(Arg))
        /\ created' = created \cup {Arg}
        /\ UNCHANGED <<bounds, spoilt, procs>>
    BY <1>1, <1>7, FailLeaves DEF Make, Pass, On, history
  <2>2. Versions' /\ Trees' /\ \A p \in Paths : Own(p)' <=> Own(p) \/ p = Arg
    BY <1>6, <1>7, <2>1
  <2>3. \A p \in Paths \ {"nginx.pid"} : Own(p)' => p \in created'
    BY <1>4, <2>1, <2>2 DEF Progress
  <2>4. Onward
    BY <1>1, <1>2, <1>3, <1>7, <2>1, <2>3 DEF Onward, Pass
  <2>5. Shapes'
    BY <1>2, <1>3, <1>7, <2>1 DEF Shapes, Pass
  <2> QED
    BY <2>2, <2>4, <2>5, OnwardKeeps
<1>8. CASE MakeTorn
  <2>1. Versions' /\ Trees' /\ \A p \in Paths : Own(p)' <=> Own(p) \/ p = Arg
    BY <1>6, <1>8 DEF MakeTorn
  <2>2. Fail /\ spoilt' = spoilt \cup {OwnerOf(Arg)} /\ UNCHANGED <<created, procs>>
    BY <1>8 DEF MakeTorn, records
  <2>3. Turns' /\ Progress' /\ Reported'
    BY <1>1, <1>3, <2>1, <2>2, FailKeeps
  <2>4. Shapes'
    BY <1>3, <2>2 DEF Shapes, Fail
  <2> QED
    BY <2>1, <2>3, <2>4
<1> QED
  BY <1>5, <1>7, <1>8 DEF Make

\* The worker's steps: nothing changes in the trees.
LEMMA WorkerLeft == ASSUME Both, Spawn \/ Start \/ Probe \/ Stop \/ Reap PROVE LeftInv'
<1> USE DEF Both, LeftInv, TestedInv, GroupInv
<1>1. mode = "run" /\ at \in {38, 41, 42, 45, 46}
  <2>1. Here("spawn") \/ Here("start") \/ Here("probe") \/ Here("stop") \/ Here("reap")
    BY DEF Spawn, Start, Probe, Stop, Reap
  <2> QED
    BY <2>1, HereAt DEF Here
<1>2. UNCHANGED <<now, held, late, tree, alien, created, owned, closed, remaining, spoilt, bounds>>
  BY DEF Spawn, Start, Probe, Stop, Reap, sources, trees, records, owners, history
<1>3. Versions'
  <2>1. tested' = tested \/ tested' \in [Sources -> 0 .. Nothing]
    <3>1. CASE Probe
      <4> DEFINE seen(s) == CASE s \in {"native", "users"} -> now[s]
                              [] s = "material" /\ ~(Own("copy") /\ tree["copy"].stamp = 0) -> Nothing
                              [] s = "routes" /\ ~(\A p \in Configs : Own(p) /\ tree[p].stamp = 0) -> Nothing
                              [] OTHER -> held[s]
      <4>1. \A s \in Sources : now[s] \in 0 .. Nothing /\ held[s] \in 0 .. Nothing /\ Nothing \in 0 .. Nothing
        BY BoundsAssumption DEF Versions, Nothing
      <4>2. \A s \in Sources : seen(s) \in {now[s], held[s], Nothing}
        OBVIOUS
      <4>3. tested' = [s \in Sources |-> seen(s)]
        BY <3>1 DEF Probe
      <4> HIDE DEF seen
      <4> QED
        BY <4>1, <4>2, <4>3
    <3> QED
      BY <3>1 DEF Spawn, Start, Stop, Reap, sources
  <2>2. /\ DOMAIN bounds' = {"drifts", "tampers", "faults"}
        /\ tested' \in [Sources -> 0 .. Nothing]
    BY <1>2, <2>1 DEF Versions
  <2> QED
    BY <1>2, <2>2 DEF Versions
<1>4. Trees'
  BY <1>2, TreesKeep
<1>5. procs' \subseteq {"worker", "haproxy", "nginx"}
  BY DEF Spawn, Start, Probe, Stop, Reap, Shapes
<1>6. CASE Fail
  <2>1. Turns' /\ Progress' /\ Reported'
    BY <1>1, <1>2, <1>6, FailKeeps DEF Own
  <2>2. Shapes'
    BY <1>2, <1>5, <1>6 DEF Shapes, Fail
  <2> QED
    BY <1>3, <1>4, <2>1, <2>2
<1>7. CASE at' = at + 1 /\ UNCHANGED <<mode, clean, turn>> /\ outcome' \in {outcome, "failed"}
  <2>1. \A p \in Paths \ {"nginx.pid"} : Own(p)' => p \in created'
    BY <1>1, <1>2 DEF Progress, On, Own
  <2>2. Onward
    BY <1>1, <1>2, <1>7, <2>1 DEF Onward
  <2>3. Shapes'
    BY <1>2, <1>5, <1>7 DEF Shapes
  <2> QED
    BY <1>3, <1>4, <2>2, <2>3, OnwardKeeps
<1> QED
  BY <1>6, <1>7 DEF Spawn, Start, Probe, Stop, Reap, Pass

LEMMA CommitLeft == ASSUME Both, CommitRun PROVE LeftInv'
<1> USE DEF Both, LeftInv, TestedInv, GroupInv
<1>1. mode = "run" /\ at = 70 /\ mode' = "ended" /\ outcome' = "committed" /\ at' = at
  BY LastPlace DEF CommitRun
<1>2. UNCHANGED <<now, held, tested, late, tree, alien, created, owned, closed, remaining, clean, turn, procs,
                  spoilt, bounds>>
  BY DEF CommitRun, sources, trees, records, owners, history
<1>3. closed = Owners /\ turn = <<>> /\ ~On'
  BY <1>1 DEF Progress, Turns, On
<1>4. Versions' /\ Trees'
  BY <1>2, VersionsKeep, TreesKeep
<1>5. Shapes'
  BY <1>1, <1>2 DEF Shapes
<1>6. Turns'
  BY <1>1, <1>2, <1>3 DEF Turns, InTurn
<1>7. \A p \in Paths : ~Own(p)'
  BY <1>2, <1>3 DEF Trees, Own, OwnerOf, Owners
<1> QED
  BY <1>1, <1>2, <1>3, <1>4, <1>5, <1>6, <1>7 DEF Progress, Reported, Shapes

LEMMA CleanStepLeft == ASSUME Both, CleanStep PROVE LeftInv'
<1> USE DEF Both, LeftInv, TestedInv, GroupInv
<1>1. /\ mode = "run" /\ at \in 1 .. 69 /\ <<at, Arg>> \in CleanedAt
  BY HereIs, Makings DEF CleanStep, Arg
<1>2. (at = 55 /\ Arg = "workspace") \/ (at = 56 /\ Arg = "materials")
  BY <1>1 DEF CleanedAt
<1>3. UNCHANGED <<now, held, tested, late, tree, alien, created, owned, closed, remaining, turn, procs,
                  spoilt, bounds, at, outcome>>
  BY DEF CleanStep, sources, trees, records, owners, history
<1>4. mode' = "clean" /\ clean' = [of |-> Arg, step |-> "inspect", kind |-> "regular", then |-> "script"]
  BY DEF CleanStep
<1>5. On /\ On'
  BY <1>1, <1>4 DEF On
<1>6. Arg \in Owners \ closed
  BY <1>2, <1>5 DEF Progress, Owners
<1>7. Versions' /\ Trees'
  BY <1>3, VersionsKeep, TreesKeep
<1>8. Shapes'
  BY <1>3 DEF Shapes
<1>9. Turns'
  BY <1>3, <1>4, <1>5, <1>6 DEF Turns, InTurn
<1>10. Progress'
  BY <1>1, <1>3, <1>4, <1>5 DEF Progress, Own
<1> QED
  BY <1>1, <1>3, <1>4, <1>5, <1>7, <1>8, <1>9, <1>10 DEF Reported

LEMMA NextOwnerLeft == ASSUME Both, NextOwner PROVE LeftInv'
<1> USE DEF Both, LeftInv, TestedInv, GroupInv
<1>1. UNCHANGED <<now, held, tested, late, tree, alien, created, owned, closed, remaining, procs,
                  spoilt, bounds, at, outcome>>
  BY DEF NextOwner, sources, trees, records, owners, history
<1>2. mode = "finally" /\ ~On /\ ~On' /\ clean = Idle
  BY DEF NextOwner, On, Turns
<1>3. Versions' /\ Trees'
  BY <1>1, VersionsKeep, TreesKeep
<1>4. Shapes'
  BY <1>1 DEF Shapes
<1>5. CASE turn = <<>>
  <2>1. mode' = "ended" /\ clean' = clean /\ turn' = turn
    BY <1>5 DEF NextOwner
  <2>2. Turns'
    BY <1>1, <1>2, <1>5, <2>1 DEF Turns, InTurn
  <2>3. Reported'
    BY <1>1, <1>2, <1>5, <2>1 DEF Reported, InTurn, Own
  <2> QED
    BY <1>2, <1>3, <1>4, <2>2, <2>3 DEF Progress
<1>6. ASSUME turn # <<>>
      PROVE  \E o \in Owners : /\ o \in owned \ closed /\ mode' = "clean" /\ (turn' = <<>> \/ turn' = <<"materials">>)
                               /\ clean'.of = o /\ clean'.then = "next"
                               /\ DOMAIN clean' = {"of", "step", "kind", "then"}
                               /\ \A x \in Owners : InTurn(x)' <=> (InTurn(x) /\ x # o)
  <2>1. /\ mode' = "clean" /\ turn' = Tail(turn)
        /\ clean' = [of |-> Head(turn), step |-> "inspect", kind |-> "regular", then |-> "next"]
    BY <1>6 DEF NextOwner
  <2>2. \A x \in Owners : InTurn(x) => x \in owned \ closed
    BY DEF Turns
  <2>3. CASE turn = <<"workspace">> \/ turn = <<"materials">>
    <3>1. PICK o \in Owners : turn = <<o>>
      BY <2>3 DEF Owners
    <3>2. Head(turn) = o /\ Tail(turn) = <<>> /\ DOMAIN turn = {1} /\ turn[1] = o
      BY <3>1
    <3>3. InTurn(o) /\ \A x \in Owners : InTurn(x) => x = o
      BY <3>2 DEF InTurn
    <3>4. /\ turn' = <<>> /\ clean'.of = o /\ clean'.then = "next"
          /\ DOMAIN clean' = {"of", "step", "kind", "then"}
      BY <2>1, <3>2
    <3>5. \A x \in Owners : ~InTurn(x)'
      BY <3>4 DEF InTurn
    <3>6. \A x \in Owners : InTurn(x)' <=> (InTurn(x) /\ x # o)
      BY <3>3, <3>5
    <3>7. o \in owned \ closed
      BY <2>2, <3>3
    <3> QED
      BY <2>1, <3>4, <3>6, <3>7
  <2>4. CASE turn = <<"workspace", "materials">>
    <3>1. /\ Head(turn) = "workspace" /\ Tail(turn) = <<"materials">>
          /\ DOMAIN turn = {1, 2} /\ turn[1] = "workspace" /\ turn[2] = "materials"
      BY <2>4
    <3>2. InTurn("workspace") /\ InTurn("materials")
      BY <3>1 DEF InTurn
    <3>3. /\ turn' = <<"materials">> /\ DOMAIN turn' = {1} /\ turn'[1] = "materials"
          /\ clean'.of = "workspace" /\ clean'.then = "next" /\ DOMAIN clean' = {"of", "step", "kind", "then"}
      BY <2>1, <3>1
    <3>4. \A x \in Owners : InTurn(x)' <=> (InTurn(x) /\ x # "workspace")
      BY <3>2, <3>3 DEF Owners, InTurn
    <3>5. "workspace" \in Owners /\ "workspace" \in owned \ closed
      BY <2>2, <3>2 DEF Owners
    <3> QED
      BY <2>1, <3>3, <3>4, <3>5
  <2> QED
    BY <1>6, <2>3, <2>4 DEF Turns
<1>7. CASE turn # <<>>
  <2>1. PICK o \in Owners : /\ o \in owned \ closed /\ mode' = "clean" /\ (turn' = <<>> \/ turn' = <<"materials">>)
                            /\ clean'.of = o /\ clean'.then = "next"
                            /\ DOMAIN clean' = {"of", "step", "kind", "then"}
                            /\ \A x \in Owners : InTurn(x)' <=> (InTurn(x) /\ x # o)
    BY <1>6, <1>7
  <2>2. Turns'
    <3>1. \A x \in Owners : InTurn(x) => x \in owned \ closed
      BY DEF Turns
    <3> QED
      BY <1>1, <1>2, <2>1, <3>1 DEF Turns
  <2>3. Reported'
    BY <1>1, <1>2, <2>1 DEF Reported, Own, Shapes
  <2> QED
    BY <1>2, <1>3, <1>4, <2>2, <2>3 DEF Progress
<1> QED
  BY <1>5, <1>7

\* A look of a cleanup, and a cleanup that fails at it or by itself.
LEMMA InspectLeft == ASSUME Both, Inspect \/ CleanFault PROVE LeftInv'
<1> USE DEF Both, LeftInv, TestedInv, GroupInv
<1>1. mode = "clean" /\ clean.of \in Owners
  BY DEF Inspect, CleanFault, Cleaning, Turns
<1>2. UNCHANGED <<now, held, tested, late, tree, alien, created, owned, closed, procs>>
  BY DEF Inspect, CleanFault, sources, trees, records, owners
<1>3. Versions'
  BY <1>2, VersionsKeep DEF Inspect, CleanFault
<1>4. Trees'
  BY <1>2, TreesKeep
<1>5. CASE CleanFails /\ remaining' = remaining
  <2>1. Turns' /\ Progress' /\ Reported'
    BY <1>1, <1>2, <1>5, CleanFailsKeeps
  <2>2. outcome' \in {"none", "failed", "cleanup", "committed"}
    BY <1>1, <1>5 DEF CleanFails, Shapes, Turns
  <2> QED
    BY <1>2, <1>3, <1>4, <1>5, <2>1, <2>2 DEF Shapes
<1>6. CASE Inspect /\ Inspected(clean.of)
  <2>1. /\ clean' = [clean EXCEPT !.step = "delete"]
        /\ remaining' = [remaining EXCEPT ![clean.of] = ToDelete(clean.of)]
        /\ UNCHANGED <<at, mode, turn, outcome, spoilt>>
    BY <1>6 DEF Inspect
  <2>2. ToDelete(clean.of) \subseteq created \cup {"nginx.pid"}
    BY <1>1 DEF ToDelete, Inventory, Shapes
  <2>3. Shapes'
    BY <1>2, <2>1, <2>2 DEF Shapes
  <2>4. Aside
    BY <1>1, <1>2, <2>1 DEF Aside, Turns, Own
  <2> QED
    BY <1>3, <1>4, <2>3, <2>4, AsideKeeps
<1> QED
  BY <1>5, <1>6 DEF Inspect, CleanFault, owners

LEMMA DeleteLeft == ASSUME Both, NEW p \in Paths, Delete(p) PROVE LeftInv'
<1> USE DEF Both, LeftInv, TestedInv, GroupInv
<1>1. mode = "clean" /\ clean.of \in Owners
  BY DEF Delete, Cleaning, Turns
<1>2. UNCHANGED <<now, held, tested, late, tree, alien, created, owned, closed, remaining, procs, bounds>>
  BY DEF Delete, sources, trees, records, owners
<1>3. CASE ~Deletable(p)
  <2>1. CleanFails
    BY <1>3 DEF Delete
  <2>2. Versions' /\ Trees'
    BY <1>2, VersionsKeep, TreesKeep
  <2>3. Turns' /\ Progress' /\ Reported'
    BY <1>1, <1>2, <2>1, CleanFailsKeeps
  <2>4. outcome' \in {"none", "failed", "cleanup", "committed"}
    BY <1>1, <2>1 DEF CleanFails, Shapes, Turns
  <2> QED
    BY <1>2, <2>1, <2>2, <2>3, <2>4 DEF Shapes
<1>4. CASE Deletable(p)
  <2>1. clean' = [clean EXCEPT !.step = p] /\ UNCHANGED <<at, mode, turn, outcome, spoilt>>
    BY <1>4 DEF Delete
  <2>2. Aside
    BY <1>1, <1>2, <2>1 DEF Aside, Turns, Own
  <2> QED
    BY <1>2, <2>1, <2>2, AsideKeeps, VersionsKeep, TreesKeep DEF Shapes
<1> QED
  BY <1>3, <1>4

LEMMA UnlinkLeft == ASSUME Both, NEW p \in Paths, Unlink(p) PROVE LeftInv'
<1> USE DEF Both, LeftInv, TestedInv, GroupInv
<1>1. mode = "clean" /\ clean.of \in Owners
  BY DEF Unlink, Cleaning, Turns
<1>2. UNCHANGED <<now, held, tested, late, alien, created, owned, procs, bounds>>
  BY DEF Unlink, sources, records
<1>3. CASE CleanFails /\ UNCHANGED <<tree, closed, remaining>>
  <2>2. Versions' /\ Trees'
    BY <1>2, <1>3, VersionsKeep, TreesKeep
  <2>3. Turns' /\ Progress' /\ Reported'
    BY <1>1, <1>2, <1>3, CleanFailsKeeps
  <2>4. outcome' \in {"none", "failed", "cleanup", "committed"}
    BY <1>1, <1>3 DEF CleanFails, Shapes, Turns
  <2> QED
    BY <1>2, <1>3, <2>2, <2>3, <2>4 DEF Shapes
<1>4. CASE Gone(p) /\ remaining' = [remaining EXCEPT ![clean.of] = @ \ {p}]
  <2>1. /\ tree' = [tree EXCEPT ![p] = [ino |-> "none", stamp |-> 0]]
        /\ remaining' = [remaining EXCEPT ![clean.of] = @ \ {p}]
        /\ p \in Dirs => Empty(p)
        /\ p = Root(clean.of) => CleanEnds
        /\ p # Root(clean.of) => /\ clean' = [clean EXCEPT !.step = "delete"]
                                 /\ UNCHANGED <<at, mode, turn, outcome, closed, spoilt>>
    BY <1>4 DEF Gone
  <2>2. Empty(p)
    <3>1. CASE p \in Dirs
      BY <2>1, <3>1
    <3>2. CASE p \notin Dirs
      BY <3>2 DEF Empty, Above, Paths, Dirs, Files
    <3> QED
      BY <3>1, <3>2
  <2>3. Versions'
    BY <1>2, <2>1, VersionsKeep
  <2>5. CASE p = Root(clean.of)
    <3>1. CleanEnds
      BY <2>1, <2>5
    <3>2. Turns' /\ Trees' /\ Progress' /\ Reported'
      BY <1>1, <1>2, <2>1, <2>2, <2>5, <3>1, CleanEndsKeeps
    <3>3. Shapes'
      BY <1>1, <1>2, <2>1, <3>1 DEF Shapes, CleanEnds
    <3> QED
      BY <2>3, <3>2, <3>3
  <2>6. CASE p # Root(clean.of)
    <3>1. /\ clean' = [clean EXCEPT !.step = "delete"]
          /\ UNCHANGED <<at, mode, turn, outcome, closed, spoilt>>
      BY <2>1, <2>6
    <3>2. Trees'
      BY <2>1, <2>2, <3>1, TreesKeep
    <3>3. \A q \in Paths : Own(q)' => Own(q)
      BY <2>1 DEF Own, Versions
    <3>4. Aside
      BY <1>1, <1>2, <3>1, <3>3 DEF Aside, Turns
    <3>5. Shapes'
      BY <1>1, <1>2, <2>1, <3>1 DEF Shapes
    <3> QED
      BY <2>3, <3>2, <3>4, <3>5, AsideKeeps
  <2> QED
    BY <2>5, <2>6
<1> QED
  BY <1>3, <1>4 DEF Unlink

LEMMA FaultLeft == ASSUME Both, Fault PROVE LeftInv'
<1> USE DEF Both, LeftInv, TestedInv, GroupInv
<1>1. mode = "run" /\ at \in 1 .. 69 /\ Fail /\ procs' = {}
  BY LastPlace DEF Fault, Place
<1>2. UNCHANGED <<now, held, tested, late, tree, alien, created, owned, closed, remaining, spoilt>>
  BY DEF Fault, sources, trees, records, owners, history
<1>3. Versions' /\ Trees'
  BY <1>2, VersionsKeep, TreesKeep DEF Fault
<1>4. Turns' /\ Progress' /\ Reported'
  BY <1>1, <1>2, FailKeeps DEF Own
<1>5. Shapes'
  BY <1>1, <1>2 DEF Shapes, Fail
<1> QED
  BY <1>3, <1>4, <1>5

\* What others do, and nginx in its directory.
LEMMA OthersLeft ==
    ASSUME Both, RuntimeFile \/ UNCHANGED vars \/ (\E s \in Sources : Drift(s)) \/ \E p \in Paths : Tamper(p)
    PROVE  LeftInv'
<1> USE DEF Both, LeftInv, TestedInv, GroupInv
<1>1. UNCHANGED <<held, tested, at, mode, clean, turn, outcome, created, owned, closed, remaining, procs,
                  spoilt>>
  BY DEF RuntimeFile, vars, Drift, Tamper, sources, control, records, owners, history
<1>2. CASE RuntimeFile
  <2>1. On /\ closed = {}
    BY <1>2 DEF RuntimeFile, Group, On, Progress
  <2>2. /\ UNCHANGED <<now, late, alien, bounds>>
        /\ Own("runtime") /\ "nginx.pid" \in Paths /\ Above("nginx.pid") = "runtime"
        /\ tree' = [tree EXCEPT !["nginx.pid"] = [ino |-> "own", stamp |-> 0]]
    BY <1>2 DEF RuntimeFile, sources, Paths, Files, Above
  <2>3. Versions'
    BY <1>1, <2>2, VersionsKeep
  <2>4. Trees'
    BY <1>1, <2>1, <2>2, TreesKeep
  <2>5. \A q \in Paths : Own(q)' => Own(q) \/ q = "nginx.pid"
    BY <2>2 DEF Own, Versions
  <2>6. Aside
    BY <1>1, <2>1, <2>5 DEF Aside
  <2>7. Shapes'
    BY <1>1, <2>2 DEF Shapes
  <2> QED
    BY <2>3, <2>4, <2>6, <2>7, AsideKeeps
<1>3. CASE UNCHANGED vars
  <2>1. UNCHANGED <<now, late, tree, alien, bounds>>
    BY <1>3 DEF vars, sources, trees
  <2>2. Versions' /\ Trees'
    BY <1>1, <2>1, VersionsKeep, TreesKeep
  <2>3. Aside
    BY <1>1, <2>1 DEF Aside, Own
  <2>4. Shapes'
    BY <1>1, <2>1 DEF Shapes
  <2> QED
    BY <2>2, <2>3, <2>4, AsideKeeps
<1>4. ASSUME NEW s \in Sources, Drift(s) PROVE LeftInv'
  <2>1. /\ UNCHANGED <<tree, alien>> /\ now' = [now EXCEPT ![s] = @ + 1] /\ late' \subseteq late \cup {s}
        /\ bounds' = [bounds EXCEPT !["drifts"] = @ + 1] /\ bounds.drifts < MaxDrifts
    BY <1>4 DEF Drift, Spend, trees
  <2>2. /\ DOMAIN bounds' = {"drifts", "tampers", "faults"}
        /\ bounds'.drifts = bounds.drifts + 1 /\ bounds'.tampers = bounds.tampers
    BY <2>1 DEF Versions
  <2>3. Versions'
    <3>1. bounds'.drifts \in Nat /\ bounds'.drifts <= MaxDrifts
      BY <2>1, <2>2, BoundsAssumption DEF Versions
    <3>2. \A x \in Sources : now[x] + 1 \in 0 .. bounds.drifts + 1 /\ now[x] \in 0 .. bounds.drifts + 1
                             /\ held[x] \in 0 .. bounds.drifts + 1
      BY DEF Versions
    <3>3. now' \in [Sources -> 0 .. bounds'.drifts]
      BY <2>1, <2>2, <3>2 DEF Versions
    <3>4. held' \in [Sources -> 0 .. bounds'.drifts]
      BY <1>1, <2>2, <3>2 DEF Versions
    <3>5. late' \subseteq Sources
      BY <2>1 DEF Versions
    <3> QED
      BY <1>1, <2>1, <2>2, <3>1, <3>3, <3>4, <3>5 DEF Versions
  <2>4. Trees'
    BY <1>1, <2>1, TreesKeep
  <2>5. Aside
    BY <1>1, <2>1 DEF Aside, Own
  <2>6. Shapes'
    BY <1>1, <2>1 DEF Shapes
  <2> QED
    BY <2>3, <2>4, <2>5, <2>6, AsideKeeps
<1>5. ASSUME NEW p \in Paths, Tamper(p) PROVE LeftInv'
  <2>1. /\ UNCHANGED <<now, late>>
        /\ bounds' = [bounds EXCEPT !["tampers"] = @ + 1] /\ bounds.tampers < MaxTampers
    BY <1>5 DEF Tamper, Spend, sources
  <2>2. /\ DOMAIN bounds' = {"drifts", "tampers", "faults"}
        /\ bounds'.tampers = bounds.tampers + 1 /\ bounds'.drifts = bounds.drifts
    BY <2>1 DEF Versions
  <2>3. \/ tree' = tree /\ alien' \subseteq Dirs
        \/ tree' = [tree EXCEPT ![p].stamp = @ + 1] /\ Own(p) /\ alien' = alien
        \/ tree' = [tree EXCEPT ![p].ino = "alien"] /\ Own(p) /\ Empty(p) /\ alien' = alien
    BY <1>5 DEF Tamper, SymDiff, Shapes
  <2>4. Trees'
    BY <1>1, <2>3, TreesKeep
  <2>5. \A q \in Paths : Own(q)' => Own(q)
    BY <2>3 DEF Own, Versions
  <2>6. Versions'
    <3>1. bounds'.tampers \in Nat /\ bounds'.tampers <= MaxTampers
      BY <2>1, <2>2, BoundsAssumption DEF Versions
    <3>2. \A q \in Paths : /\ tree[q].stamp \in 0 .. bounds.tampers + 1 /\ tree[q].stamp + 1 \in 0 .. bounds.tampers + 1
                           /\ tree[q] = [ino |-> tree[q].ino, stamp |-> tree[q].stamp]
                           /\ tree[q].ino \in {"none", "own", "alien"}
      BY DEF Versions
    <3> DEFINE Kind == [ino : {"none", "own", "alien"}, stamp : 0 .. bounds.tampers + 1]
    <3>3. \A q \in Paths : tree[q] \in Kind
      <4>1. \A q \in Paths : tree[q] \in [ino : {"none", "own", "alien"}, stamp : 0 .. bounds.tampers]
        BY DEF Versions
      <4> QED
        BY <3>2, <4>1
    <3>4. \A q \in Paths : [tree[q] EXCEPT !.stamp = @ + 1] \in Kind /\ [tree[q] EXCEPT !.ino = "alien"] \in Kind
      BY <3>2 DEF Versions
    <3>5. DOMAIN tree = Paths /\ tree = [q \in Paths |-> tree[q]]
      BY DEF Versions
    <3> HIDE DEF Kind
    <3>6. tree' \in [Paths -> Kind]
      BY <2>3, <3>3, <3>4, <3>5
    <3> QED
      BY <1>1, <2>1, <2>2, <3>1, <3>6 DEF Versions, Kind
  <2>7. Aside
    BY <1>1, <2>5 DEF Aside
  <2>8. Shapes'
    BY <1>1, <2>3 DEF Shapes
  <2> QED
    BY <2>4, <2>6, <2>7, <2>8, AsideKeeps
<1> QED
  BY <1>2, <1>3, <1>4, <1>5

LEMMA LeftStep == ASSUME Both, [Next]_vars PROVE Both'
<1>1. TestedInv'
  BY TestedStep DEF Both
<1>2. LeftInv'
  BY LookStep, MakeLeft, WorkerLeft, CommitLeft, CleanStepLeft, NextOwnerLeft, InspectLeft, DeleteLeft,
     UnlinkLeft, FaultLeft, OthersLeft DEF Next, Step
<1> QED
  BY <1>1, <1>2 DEF Both

(* What is deleted, and the window between the two calls of a removal. *)

\* A path that is to go now was compared: it is its owner's, or was replaced since.
Window ==
    mode = "clean" /\ clean.step \notin {"inspect", "delete"} =>
        /\ clean.step \in Paths /\ clean.step \in remaining[clean.of]
        /\ tree[clean.step].ino # "none" /\ (clean.step \in Dirs => Empty(clean.step))
        /\ Own(clean.step) \/ clean.step \in raced

Harmless == OnlyOwnDeleted /\ Window

LEMMA InitHarmless == Init => Harmless
BY DEF Init, Harmless, OnlyOwnDeleted, Window

\* Steps that delete nothing and begin no removal.
LEMMA HarmlessKeeps ==
    ASSUME Both, Harmless, UNCHANGED <<alien, raced, harmed>>,
           tree' = tree \/ \E p \in Paths : tree' = [tree EXCEPT ![p] = [ino |-> "own", stamp |-> 0]],
           mode' = "clean" => clean'.step \in {"inspect", "delete"}
    PROVE  Harmless'
<1>1. \A p \in Paths : tree[p].ino # "none" => tree'[p].ino # "none"
  BY DEF Both, LeftInv, Versions
<1>2. alien \subseteq Paths
  BY DEF Both, LeftInv, Shapes, Paths
<1> QED
  BY <1>1, <1>2 DEF Harmless, OnlyOwnDeleted, Window

LEMMA ScriptHarmless ==
    ASSUME Both, Harmless,
           \/ Capture \/ Check \/ Make \/ Hand \/ Copies \/ VerifyConfigs \/ Written
           \/ Spawn \/ Start \/ Probe \/ Stop \/ Reap \/ CleanStep \/ CommitRun
           \/ Fault \/ MakeTorn \/ NextOwner
    PROVE  Harmless'
<1> USE DEF Both, TestedInv, GroupInv
<1>1. UNCHANGED <<alien, raced, harmed>>
  BY DEF Capture, Check, Make, Hand, Copies, VerifyConfigs, Written, Spawn, Start, Probe, Stop, Reap, CleanStep,
         CommitRun, Fault, MakeTorn, NextOwner, trees, history
<1>2. tree' = tree \/ \E p \in Paths : tree' = [tree EXCEPT ![p] = [ino |-> "own", stamp |-> 0]]
  <2>1. CASE Make \/ MakeTorn
    <3>1. <<at, Arg>> \in MadeAt
      BY <2>1, HereIs, Makings DEF Make, MakeTorn, Arg
    <3>2. Arg \in Paths
      BY <3>1 DEF MadeAt, Paths, Dirs, Files
    <3> QED
      BY <2>1, <3>2 DEF Make, MakeTorn
  <2>2. CASE ~(Make \/ MakeTorn)
    BY <2>2 DEF Capture, Check, Hand, Copies, VerifyConfigs, Written, Spawn, Start, Probe, Stop, Reap, CleanStep,
                CommitRun, Fault, NextOwner, trees
  <2> QED
    BY <2>1, <2>2
<1>3. mode = "run" \/ mode = "finally"
  BY DEF Capture, Check, Make, Hand, Copies, VerifyConfigs, Written, Spawn, Start, Probe, Stop, Reap, CleanStep,
         CommitRun, Fault, MakeTorn, NextOwner, Here
<1>4. \/ Fail
      \/ mode' = mode /\ mode = "run"
      \/ mode' = "ended"
      \/ mode' = "clean" /\ clean'.step = "inspect"
  <2>1. CASE Capture \/ Check \/ Copies \/ VerifyConfigs \/ Written \/ Spawn \/ Start \/ Probe
    BY <2>1 DEF Capture, Check, Copies, VerifyConfigs, Written, Spawn, Start, Probe, Here, Ask, Pass
  <2>2. CASE Make \/ Hand \/ Stop \/ Reap \/ Fault \/ MakeTorn
    BY <2>2 DEF Make, Hand, Stop, Reap, Fault, MakeTorn, Here, Pass
  <2>3. CASE CleanStep \/ CommitRun \/ NextOwner
    BY <2>3 DEF CleanStep, CommitRun, NextOwner
  <2> QED
    BY <2>1, <2>2, <2>3
<1>5. mode' = "clean" => clean'.step \in {"inspect", "delete"}
  BY <1>3, <1>4 DEF Fail
<1> QED
  BY <1>1, <1>2, <1>5, HarmlessKeeps

LEMMA InspectHarmless == ASSUME Both, Harmless, Inspect \/ CleanFault PROVE Harmless'
<1> USE DEF Both, LeftInv, TestedInv, GroupInv
<1>1. mode = "clean" /\ UNCHANGED <<tree, alien, raced, harmed>>
  BY DEF Inspect, CleanFault, Cleaning, trees
<1>2. mode' = "clean" => clean'.step \in {"inspect", "delete"}
  <2>1. CASE CleanFails
    BY <1>1, <2>1, CleanFailsLeaves
  <2>2. CASE Inspect /\ Inspected(clean.of)
    <3>1. clean' = [clean EXCEPT !.step = "delete"] /\ DOMAIN clean = {"of", "step", "kind", "then"}
      BY <1>1, <2>2 DEF Inspect, Turns
    <3> QED
      BY <3>1
  <2> QED
    BY <2>1, <2>2 DEF Inspect, CleanFault
<1> QED
  BY <1>1, <1>2, HarmlessKeeps

LEMMA DeleteHarmless == ASSUME Both, Harmless, NEW p \in Paths, Delete(p) PROVE Harmless'
<1> USE DEF Both, LeftInv, TestedInv, GroupInv
<1>1. mode = "clean" /\ UNCHANGED <<tree, alien, raced, harmed, remaining>> /\ p \in remaining[clean.of]
  BY DEF Delete, Cleaning, trees, owners, Deepest
<1>2. CASE ~Deletable(p)
  <2>1. mode' = "finally"
    BY <1>1, <1>2, CleanFailsLeaves DEF Delete
  <2> QED
    BY <1>1, <2>1, HarmlessKeeps
<1>3. CASE Deletable(p)
  <2>1. clean'.step = p /\ clean'.of = clean.of
    BY <1>1, <1>3 DEF Delete, Turns
  <2>2. Own(p) /\ tree[p].ino # "none" /\ (p \in Dirs => Empty(p))
    BY <1>3 DEF Deletable, Own
  <2> QED
    BY <1>1, <2>1, <2>2 DEF Harmless, OnlyOwnDeleted, Window, Own, Empty
<1> QED
  BY <1>2, <1>3

\* What goes is its owner's, or took the place of what had just been compared.
LEMMA UnlinkHarmless == ASSUME Both, Harmless, NEW p \in Paths, Unlink(p) PROVE Harmless'
<1> USE DEF Both, LeftInv, TestedInv, GroupInv
<1>1. mode = "clean" /\ UNCHANGED <<alien, raced>> /\ clean.step = p
  BY DEF Unlink, Cleaning
<1>2. CASE CleanFails /\ UNCHANGED <<tree, harmed>>
  <2>1. mode' = "finally"
    BY <1>1, <1>2, CleanFailsLeaves
  <2> QED
    BY <1>1, <1>2, <2>1, HarmlessKeeps
<1>3. CASE Gone(p)
  <2>1. Own(p) \/ p \in raced
    BY <1>1 DEF Harmless, Window, Paths, Dirs, Files
  <2>2. harmed' \subseteq raced'
    BY <1>1, <1>3, <2>1 DEF Gone, Harmless, OnlyOwnDeleted
  <2>3. \A d \in alien : tree'[d].ino # "none"
    <3>1. p \notin alien
      BY <1>3 DEF Gone, Shapes
    <3>2. \A d \in alien : tree'[d] = tree[d]
      BY <1>3, <3>1 DEF Gone, Versions
    <3> QED
      BY <3>2 DEF Harmless, OnlyOwnDeleted
  <2>4. mode' = "clean" => clean'.step \in {"inspect", "delete"}
    <3>1. CASE p = Root(clean.of)
      BY <1>1, <1>3, <3>1, CleanEndsLeaves DEF Gone
    <3>2. CASE p # Root(clean.of)
      BY <1>1, <1>3, <3>2 DEF Gone, Turns
    <3> QED
      BY <3>1, <3>2
  <2> QED
    BY <1>1, <2>2, <2>3, <2>4 DEF Harmless, OnlyOwnDeleted, Window
<1> QED
  BY <1>2, <1>3 DEF Unlink

LEMMA OthersHarmless ==
    ASSUME Both, Harmless,
           \/ RuntimeFile \/ UNCHANGED vars
           \/ \E s \in Sources : Drift(s)
           \/ \E p \in Paths : Tamper(p)
    PROVE  Harmless'
<1> USE DEF Both, LeftInv, TestedInv, GroupInv
<1>1. UNCHANGED <<mode, clean, remaining, harmed>>
  BY DEF RuntimeFile, vars, Drift, Tamper, control, owners, history
<1>2. CASE RuntimeFile
  <2>1. mode # "clean" /\ UNCHANGED <<alien, raced>> /\ "nginx.pid" \in Paths
    BY <1>2 DEF RuntimeFile, Group, history, Paths, Files
  <2> QED
    BY <1>1, <1>2, <2>1, HarmlessKeeps DEF RuntimeFile
<1>3. CASE UNCHANGED <<tree, alien, raced>>
  BY <1>1, <1>3 DEF Harmless, OnlyOwnDeleted, Window, Own, Empty
<1>4. ASSUME NEW p \in Paths, Tamper(p) PROVE Harmless'
  <2>1. /\ Own(p)
        /\ \A q \in Paths : tree'[q].ino \in {tree[q].ino} \cup (IF q = p THEN {"alien"} ELSE {})
        /\ alien' \subseteq alien \cup {p}
        /\ raced \subseteq raced'
    BY <1>4 DEF Tamper, SymDiff, Versions
  <2>2. \A q \in Paths : tree'[q].ino # "none" <=> tree[q].ino # "none"
    BY <2>1 DEF Own
  <2>3. \A q \in Paths : Empty(q) => Empty(q)'
    BY <2>2 DEF Empty
  <2>4. OnlyOwnDeleted'
    <3>1. alien \subseteq Paths /\ tree[p].ino # "none"
      BY <2>1 DEF Shapes, Paths, Own
    <3> QED
      BY <1>1, <2>1, <2>2, <3>1 DEF Harmless, OnlyOwnDeleted
  <2>5. ASSUME mode = "clean", clean.step = p PROVE Own(p)' \/ p \in raced'
    BY <1>4, <2>1, <2>5 DEF Tamper, Cleaning, Own, Versions
  <2>6. \A q \in Paths : q # p => (Own(q)' <=> Own(q))
    BY <2>1 DEF Own
  <2>7. Window'
    <3> SUFFICES ASSUME mode = "clean", clean.step \notin {"inspect", "delete"} PROVE Window'
      BY <1>1 DEF Window
    <3>1. /\ clean.step \in Paths /\ clean.step \in remaining[clean.of]
          /\ tree[clean.step].ino # "none" /\ (clean.step \in Dirs => Empty(clean.step))
          /\ Own(clean.step) \/ clean.step \in raced
      BY DEF Harmless, Window
    <3>2. Own(clean.step)' \/ clean.step \in raced'
      BY <1>1, <2>1, <2>5, <2>6, <3>1
    <3>3. tree'[clean.step].ino # "none" /\ (clean.step \in Dirs => Empty(clean.step)')
      BY <1>1, <2>2, <2>3, <3>1
    <3> QED
      BY <1>1, <3>1, <3>2, <3>3 DEF Window, Own, Empty
  <2> QED
    BY <2>4, <2>7 DEF Harmless
<1> QED
  BY <1>2, <1>3, <1>4 DEF vars, trees, history, Drift

LEMMA HarmlessStep == ASSUME Both, Harmless, [Next]_vars PROVE Harmless'
BY ScriptHarmless, InspectHarmless, DeleteHarmless, UnlinkHarmless, OthersHarmless DEF Next, Step

LEMMA BothGivesInv == ASSUME Both, Harmless PROVE Inv
<1> USE DEF Both, LeftInv
<1>1. TypeOK
  <2>1. Len(Script) + 1 = 70
    BY LastPlace
  <2>2. at \in 1 .. Len(Script) + 1
    BY <2>1 DEF TestedInv, GroupInv, Place
  <2>3. now \in [Sources -> 0 .. MaxDrifts] /\ held \in [Sources -> 0 .. MaxDrifts]
    <3>1. 0 .. bounds.drifts \subseteq 0 .. MaxDrifts
      BY BoundsAssumption DEF Versions
    <3> QED
      BY <3>1 DEF Versions
  <2>4. \A p \in Paths : tree[p].ino \in {"none", "own", "alien"} /\ tree[p].stamp \in 0 .. MaxTampers
    <3>1. 0 .. bounds.tampers \subseteq 0 .. MaxTampers
      BY BoundsAssumption DEF Versions
    <3> QED
      BY <3>1 DEF Versions
  <2>5. procs # {} => Script[at].part = "worker"
    BY PartsAt DEF TestedInv, GroupInv, Group
  <2>6. (clean = Idle) = (mode # "clean")
    <3>1. mode = "clean" => clean # Idle
      BY DEF Turns, Idle, Owners
    <3> QED
      BY <3>1 DEF Turns
  <2> QED
    BY <2>2, <2>3, <2>4, <2>5, <2>6 DEF TypeOK, Shapes, Turns, Versions
<1>2. NothingLeftSilently
  <2> SUFFICES ASSUME mode = "ended", NEW p \in Paths, Own(p)
               PROVE  outcome = "cleanup" \/ OwnerOf(p) \in spoilt \ owned
    BY DEF NothingLeftSilently
  <2>1. OwnerOf(p) \notin closed /\ turn = <<>> /\ ~On
    BY DEF Trees, Reported, On
  <2>2. CASE OwnerOf(p) \in owned
    BY <2>1, <2>2 DEF Reported, InTurn
  <2>3. CASE OwnerOf(p) \notin owned
    BY <2>1, <2>3 DEF Reported
  <2> QED
    BY <2>2, <2>3
<1> QED
  BY <1>1, <1>2 DEF Inv, Harmless

(***************************************************************************)
(* However the private trees are interfered with and wherever the run      *)
(* fails: of somebody else's things none is deleted but what took a path's *)
(* place after it was compared and before it was removed, and a run that   *)
(* leaves a tree behind has said that its cleanup failed, unless the       *)
(* tree's own constructor could not undo it.                               *)
(***************************************************************************)
THEOREM StagingInvariant == Spec => []Inv
<1>1. Init => Both /\ Harmless
  BY InitTested, InitLeft, InitHarmless DEF Both
<1>2. Both /\ Harmless /\ [Next]_vars => Both' /\ Harmless'
  BY LeftStep, HarmlessStep
<1>3. Both /\ Harmless => Inv
  BY BothGivesInv
<1> QED
  BY <1>1, <1>2, <1>3, PTL DEF Spec

-----------------------------------------------------------------------------
(* Trying a removal again. *)

\* Once the removal of a workspace has begun, what is recorded as left is what is there, and
\* nothing more is made.
Retrying ==
    /\ \A o \in Owners : \A p \in remaining[o] : OwnerOf(p) = o
    /\ deleting = "regular" =>
         /\ remaining["workspace"] = Present("workspace")
         /\ mode = "run" => at > 55
         /\ mode = "clean" /\ clean.of = "workspace" => clean.kind = "regular"

LEMMA RetryingKeeps ==
    ASSUME Both, Retrying, UNCHANGED <<remaining, deleting>>,
           deleting = "regular" => Present("workspace")' = Present("workspace"),
           mode' = "run" => at' > 55 \/ (mode = "run" /\ at' \in {at, at + 1}),
           mode' = "clean" => \/ mode = "clean" /\ clean' = clean
                              \/ mode = "run" /\ at <= 55
                              \/ clean'.kind = "regular"
    PROVE  Retrying'
<1>1. at \in 1 .. 70
  BY DEF Both, TestedInv, GroupInv, Place
<1> QED
  BY <1>1 DEF Retrying

\* A failure undoes only what is being made, before the worker.
LEMMA RetryingFails ==
    ASSUME Both, Retrying, mode = "run", at \in 1 .. 69, Fail, UNCHANGED <<remaining, deleting>>,
           deleting = "regular" => Present("workspace")' = Present("workspace")
    PROVE  Retrying'
<1>1. mode' = "clean" => at <= 55
  BY UndoesIs DEF Fail
<1>2. mode' # "run"
  BY DEF Fail
<1> QED
  BY <1>1, <1>2, RetryingKeeps

LEMMA ScriptRetrying ==
    ASSUME Both, Retrying,
           \/ Capture \/ Check \/ Hand \/ Copies \/ VerifyConfigs \/ Written
           \/ Spawn \/ Start \/ Probe \/ Stop \/ Reap \/ Fault
    PROVE  Retrying'
<1> USE DEF Both, TestedInv, GroupInv
<1>1. mode = "run" /\ at \in 1 .. 69
  <2>1. CASE Fault
    BY <2>1, LastPlace DEF Fault, Place
  <2>2. CASE ~Fault
    <3>1. PICK op : Here(op)
      BY <2>2 DEF Capture, Check, Hand, Copies, VerifyConfigs, Written, Spawn, Start, Probe, Stop, Reap
    <3> QED
      BY <3>1, HereIs
  <2> QED
    BY <2>1, <2>2
<1>2. UNCHANGED <<tree, remaining, deleting>>
  BY DEF Capture, Check, Hand, Copies, VerifyConfigs, Written, Spawn, Start, Probe, Stop, Reap, Fault,
         trees, owners
<1>3. Present("workspace")' = Present("workspace")
  BY <1>2 DEF Present
<1>4. Fail \/ (mode' = mode /\ at' = at + 1)
  BY DEF Capture, Check, Hand, Copies, VerifyConfigs, Written, Spawn, Start, Probe, Stop, Reap, Fault,
         Ask, Pass
<1>5. CASE Fail
  BY <1>1, <1>2, <1>3, <1>5, RetryingFails
<1>6. CASE mode' = mode /\ at' = at + 1
  BY <1>1, <1>2, <1>3, <1>6, RetryingKeeps
<1> QED
  BY <1>4, <1>5, <1>6

LEMMA MakeRetrying == ASSUME Both, Retrying, Make \/ MakeTorn PROVE Retrying'
<1> USE DEF Both, TestedInv, GroupInv
<1>1. mode = "run" /\ at \in 1 .. 69 /\ at <= 33
  BY HereIs, HereEarly DEF Make, MakeTorn
<1>2. UNCHANGED <<remaining, deleting>> /\ deleting # "regular"
  BY <1>1 DEF Make, MakeTorn, owners, Retrying
<1>3. Fail \/ (mode' = mode /\ at' = at + 1)
  BY DEF Make, MakeTorn, Pass
<1>4. CASE Fail
  BY <1>1, <1>2, <1>4, RetryingFails
<1>5. CASE mode' = mode /\ at' = at + 1
  BY <1>1, <1>2, <1>5, RetryingKeeps
<1> QED
  BY <1>3, <1>4, <1>5

LEMMA CallsRetrying == ASSUME Both, Retrying, CleanStep \/ NextOwner \/ CommitRun PROVE Retrying'
<1>1. UNCHANGED <<tree, remaining, deleting>>
  BY DEF CleanStep, NextOwner, CommitRun, trees, owners
<1>2. Present("workspace")' = Present("workspace")
  BY <1>1 DEF Present
<1>3. mode' # "run" /\ (mode' = "clean" => clean'.kind = "regular")
  BY DEF CleanStep, NextOwner, CommitRun
<1> QED
  BY <1>1, <1>2, <1>3, RetryingKeeps

\* The first look at a workspace takes what is there for what is to be deleted.
LEMMA InspectRetrying == ASSUME Both, Retrying, Inspect \/ CleanFault PROVE Retrying'
<1> USE DEF Both, LeftInv, TestedInv, GroupInv
<1>1. mode = "clean" /\ clean.of \in Owners /\ DOMAIN clean = {"of", "step", "kind", "then"}
  BY DEF Inspect, CleanFault, Cleaning, Turns
<1>2. tree' = tree
  BY DEF Inspect, CleanFault, trees
<1>3. Present("workspace")' = Present("workspace")
  BY <1>2 DEF Present
<1>4. CASE CleanFails /\ UNCHANGED <<remaining, deleting>>
  <2>1. mode' = "finally"
    BY <1>1, <1>4, CleanFailsLeaves
  <2> QED
    BY <1>3, <1>4, <2>1, RetryingKeeps
<1>5. CASE Inspect /\ Inspected(clean.of)
  <2>1. /\ clean' = [clean EXCEPT !.step = "delete"]
        /\ remaining' = [remaining EXCEPT ![clean.of] = ToDelete(clean.of)]
        /\ deleting' = IF clean.of = "workspace" /\ deleting = "no" THEN clean.kind ELSE deleting
        /\ UNCHANGED <<at, mode>>
    BY <1>5 DEF Inspect
  <2>2. clean'.of = clean.of /\ clean'.kind = clean.kind
    BY <1>1, <2>1
  <2>3. /\ \A p \in ToDelete(clean.of) : OwnerOf(p) = clean.of
        /\ DOMAIN remaining = Owners
    BY <1>1 DEF ToDelete, Inventory, Present, Retrying, Shapes
  <2>4. \A o \in Owners : \A p \in remaining'[o] : OwnerOf(p) = o
    BY <2>1, <2>3 DEF Retrying
  <2>5. ASSUME deleting' = "regular" PROVE remaining'["workspace"] = Present("workspace")
    <3>1. CASE deleting = "no"
      <4>1. clean.of = "workspace" /\ clean.kind = "regular"
        BY <2>1, <2>5, <3>1
      <4>2. remaining'["workspace"] = Inventory("workspace") /\ Known("workspace", Inventory("workspace"))
        BY <1>5, <2>1, <2>3, <3>1, <4>1 DEF ToDelete, Inspected, Owners
      <4>3. \A p \in Inventory("workspace") : p \in Paths /\ OwnerOf(p) = "workspace"
        BY DEF Inventory, Present, Shapes
      <4>4. Inventory("workspace") = Present("workspace")
        BY <4>2, <4>3 DEF Known, Present, Own
      <4> QED
        BY <4>2, <4>4
    <3>2. CASE deleting # "no"
      <4>1. deleting = "regular" /\ remaining["workspace"] = Present("workspace")
        BY <2>1, <2>5, <3>2 DEF Retrying
      <4>2. CASE clean.of = "workspace"
        <5>1. clean.kind = "regular"
          BY <1>1, <4>1, <4>2 DEF Retrying
        <5>2. remaining'["workspace"] = remaining["workspace"]
          BY <2>1, <2>3, <4>1, <4>2, <5>1 DEF ToDelete, Owners
        <5> QED
          BY <4>1, <5>2
      <4>3. CASE clean.of # "workspace"
        BY <2>1, <2>3, <4>1, <4>3 DEF Owners
      <4> QED
        BY <4>2, <4>3
    <3> QED
      BY <3>1, <3>2
  <2>6. deleting' = "regular" /\ clean.of = "workspace" => clean.kind = "regular"
    BY <1>1, <2>1 DEF Retrying
  <2> QED
    BY <1>1, <1>3, <2>1, <2>2, <2>4, <2>5, <2>6 DEF Retrying
<1> QED
  BY <1>4, <1>5 DEF Inspect, CleanFault, owners

LEMMA DeleteRetrying == ASSUME Both, Retrying, NEW p \in Paths, Delete(p) PROVE Retrying'
<1> USE DEF Both, LeftInv, TestedInv, GroupInv
<1>1. mode = "clean" /\ UNCHANGED <<tree, remaining, deleting>> /\ DOMAIN clean = {"of", "step", "kind", "then"}
  BY DEF Delete, Cleaning, Turns, trees, owners
<1>2. Present("workspace")' = Present("workspace")
  BY <1>1 DEF Present
<1>3. CASE ~Deletable(p)
  <2>1. mode' = "finally"
    BY <1>1, <1>3, CleanFailsLeaves DEF Delete
  <2> QED
    BY <1>1, <1>2, <2>1, RetryingKeeps
<1>4. CASE Deletable(p)
  <2>1. clean' = [clean EXCEPT !.step = p] /\ UNCHANGED <<at, mode>>
    BY <1>4 DEF Delete
  <2>2. clean'.of = clean.of /\ clean'.kind = clean.kind
    BY <1>1, <2>1
  <2> QED
    BY <1>1, <1>2, <2>1, <2>2 DEF Retrying
<1> QED
  BY <1>3, <1>4

LEMMA UnlinkRetrying == ASSUME Both, Harmless, Retrying, NEW p \in Paths, Unlink(p) PROVE Retrying'
<1> USE DEF Both, LeftInv, TestedInv, GroupInv
<1>1. /\ mode = "clean" /\ clean.of \in Owners /\ DOMAIN remaining = Owners
      /\ p \in remaining[clean.of] /\ deleting' = deleting /\ DOMAIN clean = {"of", "step", "kind", "then"}
  BY DEF Unlink, Cleaning, Turns, Shapes, Harmless, Window, Paths, Dirs, Files
<1>2. CASE CleanFails /\ UNCHANGED <<tree, remaining>>
  <2>2. mode' = "finally" /\ Present("workspace")' = Present("workspace")
    BY <1>1, <1>2, CleanFailsLeaves DEF Present
  <2> QED
    BY <1>1, <1>2, <2>2, RetryingKeeps
<1>3. CASE Gone(p) /\ remaining' = [remaining EXCEPT ![clean.of] = @ \ {p}]
  <2>1. /\ tree' = [tree EXCEPT ![p] = [ino |-> "none", stamp |-> 0]]
        /\ remaining' = [remaining EXCEPT ![clean.of] = @ \ {p}]
        /\ p = Root(clean.of) => CleanEnds
        /\ p # Root(clean.of) => clean' = [clean EXCEPT !.step = "delete"] /\ UNCHANGED <<at, mode>>
    BY <1>3 DEF Gone
  <2>2. OwnerOf(p) = clean.of
    BY <1>1 DEF Retrying
  <2>3. \A o \in Owners : \A q \in remaining'[o] : OwnerOf(q) = o
    BY <1>1, <2>1 DEF Retrying
  <2>4. Present("workspace")' = Present("workspace") \ {p}
    <3>1. DOMAIN tree = Paths
      BY DEF Versions
    <3>2. \A q \in Paths : tree'[q].ino # "none" <=> (tree[q].ino # "none" /\ q # p)
      BY <2>1, <3>1
    <3> QED
      BY <3>2 DEF Present
  <2>5. deleting = "regular" => remaining'["workspace"] = Present("workspace")'
    <3>1. CASE clean.of = "workspace"
      BY <1>1, <2>1, <2>4, <3>1 DEF Retrying
    <3>2. CASE clean.of # "workspace"
      <4>1. p \notin Present("workspace")
        BY <2>2, <3>2 DEF Present
      <4>2. remaining'["workspace"] = remaining["workspace"]
        BY <1>1, <2>1, <3>2 DEF Owners
      <4> QED
        BY <2>4, <4>1, <4>2 DEF Retrying
    <3> QED
      BY <3>1, <3>2
  <2>6. CASE p = Root(clean.of)
    <3>1. mode' = "finally" \/ (mode' = "run" /\ at' = at + 1 /\ clean.then = "script")
      BY <1>1, <2>1, <2>6, CleanEndsLeaves
    <3>2. mode' = "run" => at' > 55
      BY <1>1, <3>1 DEF Place
    <3> QED
      BY <1>1, <2>3, <2>5, <3>1, <3>2 DEF Retrying
  <2>7. CASE p # Root(clean.of)
    <3>1. UNCHANGED <<at, mode>> /\ clean'.of = clean.of /\ clean'.kind = clean.kind
      BY <1>1, <2>1, <2>7
    <3> QED
      BY <1>1, <2>3, <2>5, <3>1 DEF Retrying
  <2> QED
    BY <2>6, <2>7
<1> QED
  BY <1>2, <1>3 DEF Unlink

LEMMA OthersRetrying ==
    ASSUME Both, Retrying,
           \/ RuntimeFile \/ UNCHANGED vars
           \/ \E s \in Sources : Drift(s)
           \/ \E p \in Paths : Tamper(p)
    PROVE  Retrying'
<1> USE DEF Both, LeftInv, TestedInv, GroupInv
<1>1. UNCHANGED <<remaining, deleting, mode, at, clean>>
  BY DEF RuntimeFile, vars, Drift, Tamper, owners, control
<1>2. ASSUME deleting = "regular" PROVE Present("workspace")' = Present("workspace")
  <2>1. ~RuntimeFile
    BY <1>2 DEF RuntimeFile, Group, Retrying
  <2>2. CASE tree' = tree
    BY <2>2 DEF Present
  <2>3. ASSUME NEW p \in Paths, Own(p),
               tree' = [tree EXCEPT ![p].stamp = @ + 1] \/ tree' = [tree EXCEPT ![p].ino = "alien"]
        PROVE  Present("workspace")' = Present("workspace")
    <3>1. /\ tree \in [Paths -> [ino : {"none", "own", "alien"}, stamp : 0 .. bounds.tampers]]
          /\ tree[p].ino = "own"
      BY <2>3 DEF Versions, Own
    <3>2. \A q \in Paths : tree'[q].ino # "none" <=> tree[q].ino # "none"
      BY <2>3, <3>1
    <3> QED
      BY <3>2 DEF Present
  <2> QED
    BY <2>1, <2>2, <2>3 DEF vars, trees, Drift, Tamper
<1> QED
  BY <1>1, <1>2, RetryingKeeps

LEMMA CountedStep == ASSUME Both, bounds.faults \in Nat, [Next]_vars PROVE bounds'.faults \in Nat
<1>1. bounds' = bounds \/ \E what \in {"drifts", "tampers", "faults"} : Spend(what)
  BY DEF Next, Step, Capture, Check, Make, Hand, Copies, VerifyConfigs, Written, Spawn, Start, Probe, Stop,
         Reap, CleanStep, CommitRun, NextOwner, RuntimeFile, Fault, MakeTorn, CleanFault, Inspect, Delete,
         Unlink, Drift, Tamper, vars
<1> QED
  BY <1>1 DEF Spend, Both, LeftInv, Versions

LEMMA RetryingStep == ASSUME Both, Harmless, Retrying, [Next]_vars PROVE Retrying'
BY ScriptRetrying, MakeRetrying, CallsRetrying, InspectRetrying, DeleteRetrying, UnlinkRetrying, OthersRetrying
   DEF Next, Step

\* What is intact passes the look, and its deepest path can be deleted.
LEMMA IntactGoes ==
    ASSUME Both, Retrying, mode = "clean", clean.of = "workspace", deleting = "regular", Intact("workspace")
    PROVE  /\ Inspected("workspace")
           /\ \A p \in Deepest(remaining["workspace"]) : Deletable(p)
<1> USE DEF Both, LeftInv
<1>1. remaining["workspace"] = Present("workspace") /\ clean.kind = "regular"
  BY DEF Retrying
<1>2. \A p \in Present("workspace") : Own(p) /\ (p \in Files => tree[p].stamp = 0) /\ p \notin alien
  BY DEF Intact
<1>3. Known("workspace", remaining["workspace"]) /\ Untouched(remaining["workspace"])
  BY <1>1, <1>2 DEF Known, Untouched, Present
<1>4. Inspected("workspace")
  BY <1>1, <1>3 DEF Inspected
<1>5. ASSUME NEW p \in Deepest(Present("workspace")) PROVE Deletable(p)
  <2>1. p \in Present("workspace") /\ \A q \in Present("workspace") : Depth(q) <= Depth(p)
    BY DEF Deepest
  <2>2. p \in Paths /\ OwnerOf(p) = "workspace" /\ Own(p)
    BY <1>2, <2>1 DEF Present
  <2>3. Own(Root(OwnerOf(p)))
    BY <2>2, RootThere
  <2>4. ASSUME NEW q \in Paths, Above(q) = p, tree[q].ino # "none" PROVE FALSE
    <3>1. OwnerOf(q) = "workspace" /\ Depth(q) > Depth(p)
      BY <2>2, <2>4 DEF Above, OwnerOf, Depth, Paths, Dirs, Files
    <3>2. Depth(q) \in Nat /\ Depth(p) \in Nat
      BY DEF Depth
    <3> QED
      BY <2>1, <2>4, <3>1, <3>2 DEF Present
  <2> QED
    BY <1>2, <2>1, <2>2, <2>3, <2>4 DEF Deletable, Empty
<1> QED
  BY <1>1, <1>4, <1>5

(***************************************************************************)
(* However the private trees are interfered with and wherever the run      *)
(* fails: the removal of a workspace that has failed half way can be tried *)
(* again, and completes if what is left of it is as it was.                *)
(***************************************************************************)
THEOREM RetriesComplete == Spec => RetryCompletes
<1> DEFINE Counted == bounds.faults \in Nat
<1>1. Init => Both /\ Harmless /\ Retrying /\ Counted
  <2>1. Init => Retrying /\ Counted
    BY DEF Init, Retrying, Owners
  <2> QED
    BY <2>1, InitTested, InitLeft, InitHarmless DEF Both
<1>2. Both /\ Harmless /\ Retrying /\ Counted /\ [Next]_vars => Both' /\ Harmless' /\ Retrying' /\ Counted'
  BY LeftStep, HarmlessStep, RetryingStep, CountedStep
<1>3. ASSUME Both, Harmless, Retrying, Counted, [Next]_vars, mode = "clean", clean.of = "workspace", mode' # "clean",
             bounds' = bounds, deleting = "regular", "workspace" \notin closed'
      PROVE  ~Intact("workspace")
  <2> SUFFICES ASSUME Intact("workspace") PROVE FALSE
    OBVIOUS
  <2>1. Inspected("workspace") /\ \A p \in Deepest(remaining["workspace"]) : Deletable(p)
    BY <1>3, IntactGoes
  <2>2. ~CleanFault
    BY <1>3 DEF CleanFault, Spend, Both, LeftInv, Versions
  <2>3. ~Inspect
    BY <1>3, <2>1 DEF Inspect
  <2>4. ASSUME NEW p \in Paths, Delete(p) PROVE FALSE
    BY <1>3, <2>1, <2>4 DEF Delete
  <2>5. ASSUME NEW p \in Paths, Unlink(p) PROVE FALSE
    <3>1. /\ p \in remaining["workspace"] /\ tree[p].ino # "none" /\ (p \in Dirs => Empty(p))
      BY <1>3, <2>5 DEF Harmless, Window, Unlink, Cleaning, Paths, Dirs, Files
    <3>2. p \in Present("workspace")
      BY <1>3, <3>1 DEF Retrying
    <3>3. ~Refused(p)
      BY <3>1, <3>2 DEF Refused, Intact
    <3>4. CleanEnds
      BY <1>3, <2>5, <3>3 DEF Unlink, Gone
    <3> QED
      BY <1>3, <3>4 DEF CleanEnds
  <2>6. mode' = mode \/ CleanFault \/ Inspect \/ \E p \in Paths : Delete(p) \/ Unlink(p)
    BY <1>3 DEF Next, Step, Capture, Check, Make, Hand, Copies, VerifyConfigs, Written, Spawn, Start, Probe,
                Stop, Reap, CleanStep, CommitRun, NextOwner, RuntimeFile, Fault, MakeTorn, Drift, Tamper,
                Here, control, vars
  <2> QED
    BY <1>3, <2>2, <2>3, <2>4, <2>5, <2>6
<1>4. Both /\ Harmless /\ Retrying /\ Counted /\ [Next]_vars =>
        [mode = "clean" /\ clean.of = "workspace" /\ mode' # "clean" /\ bounds' = bounds
         /\ deleting = "regular" /\ "workspace" \notin closed' => ~Intact("workspace")]_vars
  BY <1>3
<1> QED
  BY <1>1, <1>2, <1>4, PTL DEF Spec, RetryCompletes

=============================================================================
