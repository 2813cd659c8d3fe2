CONSTANT Sizes <- FloppySizes
SPECIFICATION GeometrySpec
INVARIANT AllocInMap
