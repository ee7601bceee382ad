SPECIFICATION Spec
CONSTANTS
  p1 = p1
  p2 = p2
  v1 = v1
  v2 = v2
  Nada = Nada
  Programas = {p1}
  Valores = {v1}
  Tamanios <- MCTamanioUnico
  MaxPorciones = 3
  Prudentes = FALSE
  g_cantidadFrames = 12
  maxPaginasEnSwap = 1
  lengthPagina = 4
  tamanio_heap = 5
CHECK_DEADLOCK FALSE
INVARIANTS
  PorcionesDisjuntas
