SPECIFICATION Spec
CONSTANTS
    Mutators = {m1, m2}
    Objects = {a, b}
    Static = Static
    Null = Null
    NodeSize = 1
PROPERTIES
    NoUnmarkedAlives
