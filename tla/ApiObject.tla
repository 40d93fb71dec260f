----------------------------- MODULE ApiObject -----------------------------
(***************************************************************************)
(* One object of the configuration API on its way through the versions.    *)
(* A manifest is read as v1beta2 (or v1beta3), converted into the internal *)
(* version and, when hosts are found in the cloud, converted from there    *)
(* to v1beta3, defaulted and converted back into the same internal object  *)
(* (config.go, cloud_resources_provision.go); a copy may be taken of any   *)
(* of them (DeepCopy).  The model watches one type and one field of it:    *)
(* the one field that was set.  It keeps, for every object, what the field *)
(* holds and whose memory it is held in, because the generated             *)
(* conversions share the memory of what they convert.                      *)
(***************************************************************************)
EXTENDS ApiConversion, ApiDeepCopy

CONSTANTS Nil

Versions == {"v1beta2", "v1beta3", "kubeone"}
External == {"v1beta2", "v1beta3"}

VARIABLES
  kind,       \* the API type watched
  manifest,   \* the version in which it was written
  field,      \* the field that was set in it
  objects,    \* holder -> what its field holds and where, or Nil while there is no object
  failed      \* scheme.Convert returned an error

vars == <<kind, manifest, field, objects, failed>>
watched == <<kind, manifest, field>>

\* Where the watched field lives in version v: the Helm releases of v1beta2
\* are entries of the addons of the other versions.
NameIn(v) == IF field = "HelmReleases" /\ v # "v1beta2" THEN "Addons" ELSE field
Exists(v) == NameIn(v) \in FieldNames(v, kind)

\* The field refers to memory outside the structure.
Refers(v) ==
  LET x == FieldOf(v, kind, NameIn(v))
  IN x[2] # "val" \/ HoldsReference(v, x[3])

\* new(T): the field is zero, in the object's own memory.
New(v) == [val |-> IF Exists(v) THEN "zero" ELSE "absent", mem |-> v]

----------------------------------------------------------------------------
(* Conversion *)

Read(in, right) == IF in.val = "user" /\ ~right THEN "garbled" ELSE in.val

\* The field of a reads, through a cast pointer, as the field of b.
FieldCast(a, b) ==
  LET x == FieldOf(a, kind, NameIn(a))
      y == FieldOf(b, kind, NameIn(b))
  IN x[2] = y[2] /\ Underlying(x[3]) = Underlying(y[3]) /\ SameLayout(a, b, x[3])

Shared(in, b) == IF Refers(b) THEN in.mem ELSE b

\* The object of b converted from in of a; out keeps what no statement sets.
Converted(v, direction, a, b, out) ==
  LET by == Conversion(v, direction, kind)
      in == objects[a]
  IN CASE ~Exists(a) \/ ~Exists(b) \/ NameIn(a) \in by.none -> out
       [] by.whole -> [val |-> Read(in, SameLayout(a, b, kind)), mem |-> Shared(in, b)]
       [] NameIn(a) \in by.cast -> [val |-> Read(in, FieldCast(a, b)), mem |-> in.mem]
       [] NameIn(a) \in by.call -> [val |-> in.val, mem |-> b]
       [] OTHER -> [val |-> in.val, mem |-> Shared(in, b)]

\* Scheme.Convert(versioned, internal): into the internal object there is.
ConvertInto(v) ==
  /\ objects[v] # Nil
  /\ IF kind \in Registered[v].into
     THEN LET out == IF objects.kubeone = Nil THEN New("kubeone") ELSE objects.kubeone
          IN /\ objects' = [objects EXCEPT !.kubeone = Converted(v, "into", v, "kubeone", out)]
             /\ UNCHANGED failed
     ELSE failed' = TRUE /\ UNCHANGED objects
  /\ UNCHANGED watched

\* Scheme.Convert(internal, versioned), always into a new object.
ConvertBack(v) ==
  /\ objects.kubeone # Nil
  /\ kind \in DOMAIN Types[v]
  /\ IF kind \in Registered[v].back
     THEN /\ objects' = [objects EXCEPT ![v] = Converted(v, "back", "kubeone", v, New(v))]
          /\ UNCHANGED failed
     ELSE failed' = TRUE /\ UNCHANGED objects
  /\ UNCHANGED watched

----------------------------------------------------------------------------
(* DeepCopy *)

\* *out = *in, then the fields DeepCopyInto names: the copy's own memory
\* holds the field when nothing it reaches is left shared.
OwnInCopy(v) ==
  LET by == DeepCopyInto[v][kind]
      f == NameIn(v)
  IN \/ ~Exists(v)
     \/ ~Refers(v)
     \/ f \in by.deep
     \/ f \in by.fresh /\ ~HoldsReference(v, FieldOf(v, kind, f)[3])

DeepCopy(v) ==
  /\ objects[v] # Nil
  /\ objects' = [objects EXCEPT !.copy =
                   [objects[v] EXCEPT !.mem = IF OwnInCopy(v) THEN "copy" ELSE @]]
  /\ UNCHANGED <<watched, failed>>

----------------------------------------------------------------------------
Init ==
  /\ manifest \in Versions
  /\ kind \in DOMAIN Types[manifest]
  /\ manifest \in External => kind \in DOMAIN Types.kubeone
  /\ field \in FieldNames(manifest, kind)
  /\ objects = [h \in Versions \cup {"copy"} |->
                  IF h = manifest THEN [val |-> "user", mem |-> h] ELSE Nil]
  /\ failed = FALSE

Next ==
  \E v \in Versions :
     \/ v \in External /\ ConvertInto(v)
     \/ v \in External /\ ConvertBack(v)
     \/ DeepCopy(v)

Spec == Init /\ [][Next]_vars

----------------------------------------------------------------------------
(* Properties *)

\* The fields a v1beta2 manifest may set and the internal version does not
\* have: three that do nothing any more, and the global parameters of addons.
\* TypeMeta says which version an object is of and is not converted.
Dropped ==
  {<<"Addons", "Enable">>, <<"Addons", "GlobalParams">>, <<"ContainerRuntimeConfig", "Docker">>,
   <<"Features", "PodSecurityPolicy">>, <<"ProviderSpec", "MachineAnnotations">>,
   <<"KubeOneCluster", "TypeMeta">>}

\* Converting addon references back to v1beta2 is not supported.
LostGoingBack ==
  /\ objects.v1beta2 # Nil /\ objects.v1beta2.val = "zero"
  /\ <<kind, field>> \in {<<"Addons", "Addons">>, <<"KubeOneCluster", "HelmReleases">>}

\* What the user set is still set, and reads the same, in the internal object
\* after any sequence of conversions: no cast reads one structure as another
\* with a different layout, no field by field function forgets a field, and a
\* conversion into the existing object leaves alone what its peer lacks.
FieldsKept ==
  /\ ~failed
  /\ objects.kubeone # Nil /\ <<kind, field>> \notin Dropped /\ ~LostGoingBack =>
       objects.kubeone.val = "user"

\* A deep copy shares no memory with any of the objects, whatever memory the
\* conversions made those share: the generated functions follow every
\* pointer, list and map the types have.
CopyIsPrivate == objects.copy # Nil => objects.copy.mem = "copy"
============================================================================
