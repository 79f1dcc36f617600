\* Every list of up to three prefixes of three bits, a walk of two entries.
CONSTANTS
    east = east
    west = west
    None = None
    RegionNames = {east, west}
    Width = 3
    Walk = 2
    Snapshots <- UpToThree
SPECIFICATION Spec
INVARIANTS
    Sound
    ExactUnlessCrowded
