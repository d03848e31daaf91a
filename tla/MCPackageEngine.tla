--------------------------- MODULE MCPackageEngine ---------------------------
(* The instance of PackageEngine that TLC checks: a package with two         *)
(* products and one that shares a dependency with it, so that both leave a   *)
(* module of the same name; two locations; two sets of flags, each with a    *)
(* folder of its own - the products are what differs between two builds in   *)
(* the same folder.                                                          *)
EXTENDS PackageEngine, TLC

P == [spec |-> "p", products |-> {"P"}]
X == [spec |-> "p", products |-> {"X"}]
Q == [spec |-> "q", products |-> {"Q"}]

MCLine == {P, X, Q}
MCSwiftModule == P :> {"S"} @@ X :> {"X"} @@ Q :> {"S"}
MCClangModule == P :> {} @@ X :> {"C"} @@ Q :> {}
MCBinDir == "none" :> "debug" @@ "release" :> "release"
=============================================================================
