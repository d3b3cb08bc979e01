----------------------------- MODULE VehicleRules -----------------------------
(***************************************************************************)
(* Which attributes a vehicle has.  Four tables written apart say it: the  *)
(* schemas of packages/shared-contracts/src/vehicle, the inputs of the     *)
(* dealer's ListingForm, the columns and field guide of the CSV templates  *)
(* and the worker's normalize.ts.  A vehicle is stored through the form,   *)
(* changed through it (a patch, merged into what is stored) or imported.   *)
(* An attribute is present with a valid value, or not.                     *)
(***************************************************************************)
EXTENDS Naturals

VARIABLES
  vehicle,   \* the listing's category, fuel and attributes, or NoVehicle
  refusal    \* what the server last refused though the page let it through

rulesVars == <<vehicle, refusal>>

Listable == {"car", "motorcycle", "van", "truck", "three_wheeler", "bus"}
VehicleCategories == Listable \cup {"other"}
Fuels == {"petrol", "diesel", "hybrid", "plug_in_hybrid", "electric", "other"}
ListableFuels == Fuels \ {"other"}
Combustion == {"petrol", "diesel", "hybrid", "plug_in_hybrid"}
Traction == {"electric", "plug_in_hybrid"}

Battery == {"batteryCapacityKWh", "batteryRangeKm"}
Powertrain == {"transmission", "engineCapacityCc"} \cup Battery
Always == {"condition", "mileageKm"}
Attributes == Powertrain \cup Always
                \cup {"edition", "bodyType", "bikeType", "seatingCapacity", "payloadCapacityKg"}

-----------------------------------------------------------------------------
(* The schemas: the keys of a category's attributes and those it requires. *)

OwnKeys(c) ==
  CASE c = "car" -> {"edition", "bodyType"} [] c = "motorcycle" -> {"edition", "bikeType"}
    [] c = "van" -> {"edition", "seatingCapacity"} [] c = "truck" -> {"edition", "payloadCapacityKg"}
    [] c = "bus" -> {"seatingCapacity"} [] OTHER -> {}
Keys(c) == Always \cup (IF c = "other" THEN {} ELSE Powertrain \cup OwnKeys(c))
Required(c, fuel) ==
  IF c = "other" THEN {}
  ELSE Always \cup {"transmission"} \cup (OwnKeys(c) \cap {"bodyType", "bikeType"})
         \cup (IF fuel \in Combustion THEN {"engineCapacityCc"} ELSE {})
         \cup (IF fuel \in Traction THEN Battery ELSE {})
Accepts(c, fuel, has) == (c = "other" \/ fuel \in Fuels) /\ Required(c, fuel) \subseteq has

NoVehicle == [category |-> "none", fuel |-> "none", has |-> {}]
\* What is no key of the category is stripped.
Vehicle(c, fuel, has) == [category |-> c, fuel |-> fuel, has |-> has \cap Keys(c)]

-----------------------------------------------------------------------------
(* ListingForm: selects always have a value, inputs may be left empty, and   *)
(* one that was filled under another category or fuel keeps its value.      *)

Selects(c) == {"condition", "transmission"} \cup
  (IF c = "car" THEN {"bodyType"} ELSE {}) \cup (IF c = "motorcycle" THEN {"bikeType"} ELSE {})
ShowsEngine(fuel) == fuel \in {"petrol", "diesel", "hybrid", "plug_in_hybrid"}
ShowsBattery(fuel) == fuel \in {"electric", "plug_in_hybrid"}
ShowsEdition(c) == c \notin {"three_wheeler", "bus"}
RequiredInputs(fuel) ==
  {"mileageKm"} \cup (IF ShowsEngine(fuel) THEN {"engineCapacityCc"} ELSE {})
                \cup (IF ShowsBattery(fuel) THEN Battery ELSE {})
BuildAttributes(c, fuel, filled) ==
  Selects(c) \cup (filled \cap
    ({"mileageKm"} \cup (IF ShowsEdition(c) THEN {"edition"} ELSE {})
       \cup (IF ShowsEngine(fuel) THEN {"engineCapacityCc"} ELSE {})
       \cup (IF ShowsBattery(fuel) THEN Battery ELSE {})
       \cup (IF c \in {"van", "bus"} THEN {"seatingCapacity"} ELSE {})
       \cup (IF c = "truck" THEN {"payloadCapacityKg"} ELSE {})))
Inputs == {"mileageKm", "edition", "engineCapacityCc", "seatingCapacity", "payloadCapacityKg"} \cup Battery
\* min="0" lets a zero through that every schema but that of the mileage refuses.
Positive(zero, has) == zero \notin has \ {"mileageKm"}

RulesInit == vehicle = NoVehicle /\ refusal = "none"

\* One input may hold a zero.
Create(c, fuel, filled, zero) ==
  /\ vehicle = NoVehicle /\ fuel \in ListableFuels
  /\ RequiredInputs(fuel) \subseteq filled
  /\ LET has == BuildAttributes(c, fuel, filled) IN
     IF Accepts(c, fuel, has) /\ Positive(zero, has)
       THEN vehicle' = Vehicle(c, fuel, has) /\ refusal' = "none"
       ELSE vehicle' = NoVehicle /\ refusal' = IF Positive(zero, has) THEN "form" ELSE "zero"

\* The category selected does not reach the listing: the patch is validated under its own.
Edit(c, fuel, filled) ==
  /\ vehicle # NoVehicle /\ fuel \in ListableFuels \cup {vehicle.fuel}
  /\ RequiredInputs(fuel) \subseteq filled
  /\ LET has == vehicle.has \cup BuildAttributes(c, fuel, filled) IN
     IF vehicle.category = "other" \/ Accepts(vehicle.category, fuel, has)
       THEN vehicle' = Vehicle(vehicle.category, fuel, has) /\ refusal' = "none"
       ELSE refusal' = "form" /\ UNCHANGED vehicle

-----------------------------------------------------------------------------
(* The CSV template of a category, its field guide, and the row's reading.  *)

TemplateColumns(c) ==
  Always \cup Powertrain \cup
    CASE c = "car" -> {"edition", "bodyType"} [] c = "motorcycle" -> {"edition", "bikeType"}
      [] c = "van" -> {"edition", "seatingCapacity"} [] c = "truck" -> {"edition", "payloadCapacityKg"}
      [] c = "bus" -> {"seatingCapacity"} [] OTHER -> {}
GuideRequires(c, fuel) ==
  (TemplateColumns(c) \cap {"bodyType", "bikeType", "condition", "mileageKm", "transmission"})
    \cup (IF fuel \in {"petrol", "diesel", "hybrid", "plug_in_hybrid"} THEN {"engineCapacityCc"} ELSE {})
    \cup (IF fuel \in {"electric", "plug_in_hybrid"} THEN Battery ELSE {})

NormalizeAttributes(c, cells) ==
  cells \cap
    CASE c = "car" -> Powertrain \cup Always \cup {"edition", "bodyType"}
      [] c = "motorcycle" -> Powertrain \cup Always \cup {"edition", "bikeType"}
      [] c = "van" -> Powertrain \cup Always \cup {"edition", "seatingCapacity"}
      [] c = "truck" -> Powertrain \cup Always \cup {"edition", "payloadCapacityKg"}
      [] c = "bus" -> Powertrain \cup Always \cup {"seatingCapacity"}
      [] c = "three_wheeler" -> Powertrain \cup Always
Import(c, fuel, cells) ==
  /\ vehicle = NoVehicle
  /\ LET has == NormalizeAttributes(c, cells) IN
     IF Accepts(c, fuel, has)
       THEN vehicle' = Vehicle(c, fuel, has) /\ refusal' = "none"
       ELSE /\ vehicle' = NoVehicle
            /\ refusal' = IF fuel \in ListableFuels /\ GuideRequires(c, fuel) \subseteq cells THEN "guide" ELSE "none"

Delete == vehicle # NoVehicle /\ vehicle' = NoVehicle /\ refusal' = "none"

RulesNext ==
  \/ \E c \in Listable, fuel \in Fuels, filled \in SUBSET Inputs :
       \/ \E zero \in filled \cup {"none"} : Create(c, fuel, filled, zero)
       \/ Edit(c, fuel, filled)
  \/ \E c \in Listable, fuel \in Fuels \cup {"none"} :
       \E cells \in SUBSET TemplateColumns(c) : Import(c, fuel, cells)
  \/ Delete

RulesTypeOK ==
  /\ vehicle = NoVehicle \/
       (vehicle.category \in VehicleCategories /\ vehicle.fuel \in Fuels \cup {"none"}
          /\ vehicle.has \subseteq Keys(vehicle.category))
  /\ refusal \in {"none", "form", "zero", "guide"}

\* Whichever way a vehicle was stored and however often it was changed, it has what its category and
\* fuel require; and what the form's inputs or the field guide ask for is enough: the server
\* refuses such a vehicle only for a zero.
VehiclesComplete ==
  /\ vehicle # NoVehicle => Accepts(vehicle.category, vehicle.fuel, vehicle.has)
  /\ refusal \notin {"form", "guide"}

RulesSpec == RulesInit /\ [][RulesNext]_rulesVars
==============================================================================
